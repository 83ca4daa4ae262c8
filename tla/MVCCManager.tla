---------------------------- MODULE MVCCManager ----------------------------
(***************************************************************************)
(* The version store: VersionChain (src/common/common.h) and MVCCManager   *)
(* (src/transaction/mvcc_manager.cpp), and the MVCC read path of           *)
(* RmFileHandle::get_record (src/record/rm_file_handle.cpp).               *)
(*                                                                         *)
(* A chain is a sequence of UndoLog records, head (newest) first, so       *)
(* chain[1] is head_ and chain[i+1] is chain[i].prev_version_.  The map    *)
(* version_chains_ is a function from record keys to chains, the empty    *)
(* sequence standing for a key with no chain.  Every operator here is the  *)
(* effect of one call made under manager_latch_, so it is atomic in the    *)
(* modules that use it.                                                    *)
(***************************************************************************)
EXTENDS Naturals, Sequences, SequencesExt, FiniteSetsExt

CONSTANTS
    NoVal,            \* an absent record: a free slot, or RecordNotFoundError
    MaxKeepVersions,  \* max_keep_versions in cleanup_version_chains (10)
    CleanupWindow     \* the 1000 subtracted from current_ts in cleanup

WTypes == {"INSERT", "UPDATE", "DELETE"}

\* An UndoLog: type_, ts_ (0 = uncommitted), txn_id_ and value_.
Version(type, ts, txn, val) == [type |-> type, ts |-> ts, txn |-> txn, val |-> val]

\* VersionChain::insert_version via MVCCManager::add_version: prepend at
\* the head, creating the chain lazily (an empty sequence here).
AddVersion(chains, key, v) == [chains EXCEPT ![key] = <<v>> \o @]

\* Mutant: the stamping loop stops after the head node of each chain.
AssignHeadOnly(chains, txn, commit_ts) ==
    [k \in DOMAIN chains |->
        [i \in DOMAIN chains[k] |->
            IF i = 1 /\ chains[k][i].txn = txn /\ chains[k][i].ts = 0
            THEN [chains[k][i] EXCEPT !.ts = commit_ts]
            ELSE chains[k][i]]]

\* MVCCManager::assign_commit_timestamp: every node of every chain owned by
\* txn with ts_ = 0 gets commit_ts.
AssignCommitTimestamp(chains, txn, commit_ts) ==
    [k \in DOMAIN chains |->
        [i \in DOMAIN chains[k] |->
            IF chains[k][i].txn = txn /\ chains[k][i].ts = 0
            THEN [chains[k][i] EXCEPT !.ts = commit_ts]
            ELSE chains[k][i]]]

\* Mutant: only the head loop of rollback_transaction, no interior loop.
RECURSIVE DropLeading(_, _)
DropLeading(chain, txn) ==
    IF chain # <<>> /\ Head(chain).txn = txn THEN DropLeading(Tail(chain), txn) ELSE chain

RollbackHeadOnly(chains, txn) == [k \in DOMAIN chains |-> DropLeading(chains[k], txn)]

\* MVCCManager::rollback_transaction: the head loop unlinks leading nodes of
\* txn, the interior loop unlinks every later one; together every node of
\* txn leaves every chain and the others keep their order.
RollbackTransaction(chains, txn) ==
    [k \in DOMAIN chains |-> SelectSeq(chains[k], LAMBDA v : v.txn # txn)]

\* The number of nodes the cleanup walk steps over from the head: it moves on
\* while the node is newer than the threshold and fewer than MaxKeepVersions
\* have been kept.
RECURSIVE KeptCount(_, _, _)
KeptCount(chain, threshold, n) ==
    IF n < Len(chain) /\ n < MaxKeepVersions /\ chain[n + 1].ts > threshold
    THEN KeptCount(chain, threshold, n + 1)
    ELSE n

\* MVCCManager::cleanup_version_chains: the walk stops on node number
\* KeptCount + 1 and, when that node has a predecessor, sets its
\* prev_version_ to nullptr, dropping everything older.
CleanupVersionChains(chains, current_ts) ==
    LET threshold == IF current_ts > CleanupWindow THEN current_ts - CleanupWindow ELSE 0
    IN [k \in DOMAIN chains |->
          LET stop == KeptCount(chains[k], threshold, 0) + 1
          IN IF stop < Len(chains[k]) THEN SubSeq(chains[k], 1, stop) ELSE chains[k]]

\* The write-write conflict test of RmFileHandle::delete_record and
\* update_record over the whole chain returned by get_undo_logs(UINT64_MAX):
\* another transaction's uncommitted node, or one committed after start_ts.
WriteConflict(chain, txn, start_ts) ==
    \E i \in DOMAIN chain :
        /\ chain[i].txn # txn
        /\ chain[i].ts = 0 \/ chain[i].ts > start_ts

\* The visibility test of get_record: the reader's own node, or a node
\* committed at or before the read timestamp by a transaction that is not
\* in the active set the reader fetched.
IsVisible(v, reader, read_ts, active) ==
    \/ v.txn = reader
    \/ v.ts > 0 /\ v.ts <= read_ts /\ v.txn \notin active

\* RmFileHandle::get_record with a transaction context.  base is the
\* physical slot (NoVal when its bitmap bit is clear).  The first visible
\* node decides: INSERT or UPDATE give its value, DELETE gives NoVal.  With
\* no visible node the base record is returned unless the chain holds an
\* INSERT node, in which case the record does not exist for this reader.
GetRecord(base, chain, reader, read_ts, active) ==
    LET vis == {i \in DOMAIN chain : IsVisible(chain[i], reader, read_ts, active)}
        hasInsert == \E i \in DOMAIN chain : chain[i].type = "INSERT"
    IN CASE base = NoVal -> NoVal
         [] vis # {} -> IF chain[Min(vis)].type = "DELETE" THEN NoVal ELSE chain[Min(vis)].val
         [] hasInsert -> NoVal
         [] OTHER -> base

=============================================================================
