----------------------------- MODULE MCRecovery -----------------------------
EXTENDS Recovery, TLC

CONSTANTS t1, t2, v0, none

MCTxns1 == {t1}
MCTxns2 == {t1, t2}
MCSlots == {1, 2}
MCSlots3 == {1, 2, 3}
MCInit == {1}

=============================================================================
