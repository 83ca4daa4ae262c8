----------------------------- MODULE MCTxnMVCC -----------------------------
(* TxnMVCC with three client threads and two record slots, one of which   *)
(* holds a record at start.                                               *)
EXTENDS TxnMVCC, TLC

CONSTANTS t1, t2, t3

MCTxns == {t1, t2, t3}
MCTxns2 == {t1, t2}
MCKeys == {1, 2}
MCInitRecords == {1}
MCAllRecords == MCKeys

Symmetry == Permutations(MCTxns)
=============================================================================
