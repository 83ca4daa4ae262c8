------------------------------- MODULE MCWAL -------------------------------
(* The log manager with one or two client threads and a buffer of two     *)
(* records, so that both the full-buffer flush and the commit flush run.  *)
EXTENDS WAL, TLC

CONSTANTS c1, c2

MCThreads1 == {c1}
MCThreads2 == {c1, c2}

Symmetry == Permutations(MCThreads2)
=============================================================================
