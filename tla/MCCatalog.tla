----------------------------- MODULE MCCatalog -----------------------------
(* Catalog with two transactions over one table.                          *)
EXTENDS Catalog, TLC

CONSTANTS t1, t2

MCTxns == {t1, t2}
NoIdx == <<>>
TwoIdx == <<"x", "y">>
AllTabs == [t \in MCTxns |-> {"A"}]
OwnTabs == (t1 :> {"A"}) @@ (t2 :> {"B"})
====
