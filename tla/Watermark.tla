----------------------------- MODULE Watermark -----------------------------
(***************************************************************************)
(* The low-water mark of src/transaction/watermark.cpp.                    *)
(*                                                                         *)
(* current_reads_ is a std::map from read timestamp to a reference count,  *)
(* i.e. a bag of timestamps; commit_ts_ is the last commit timestamp that  *)
(* was reported; watermark_ is the cached mark.  Every call is one atomic  *)
(* step of the module that instantiates this one (the class has no lock of *)
(* its own; see the README on the data race).                              *)
(***************************************************************************)
EXTENDS Naturals, Bags, FiniteSetsExt

VARIABLES current_reads, commit_ts, watermark

wvars == <<current_reads, commit_ts, watermark>>

WInit ==
    /\ current_reads = EmptyBag
    /\ commit_ts = 0
    /\ watermark = 0

\* The recomputation shared by RemoveTxn and UpdateCommitTs: the earliest
\* still-referenced read timestamp (std::map::begin) capped by commit_ts_.
Recompute(reads, cts) ==
    IF BagToSet(reads) = {} THEN cts ELSE Min({Min(BagToSet(reads)), cts})

\* AddTxn only bumps the reference count; it does not recompute the mark.
AddTxn(read_ts) ==
    /\ current_reads' = current_reads (+) SetToBag({read_ts})
    /\ UNCHANGED <<commit_ts, watermark>>

\* Mutant: the count is decremented but a zero entry is never erased.
RemoveTxnNoErase(read_ts) ==
    /\ current_reads' = IF read_ts \in DOMAIN current_reads
                        THEN [current_reads EXCEPT ![read_ts] = @ - 1]
                        ELSE current_reads
    /\ watermark' = Recompute(current_reads', commit_ts)
    /\ UNCHANGED commit_ts

\* RemoveTxn drops one reference (a no-op when the timestamp is absent) and
\* recomputes the mark.
RemoveTxn(read_ts) ==
    /\ current_reads' = current_reads (-) SetToBag({read_ts})
    /\ watermark' = Recompute(current_reads', commit_ts)
    /\ UNCHANGED commit_ts

\* UpdateCommitTs overwrites commit_ts_ (whatever its previous value) and
\* recomputes the mark.
UpdateCommitTs(cts) ==
    /\ commit_ts' = cts
    /\ watermark' = Recompute(current_reads, cts)
    /\ UNCHANGED current_reads

GetWatermark == watermark

=============================================================================
