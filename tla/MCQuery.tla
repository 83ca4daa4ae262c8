------------------------------ MODULE MCQuery ------------------------------
(* The statements TLC runs Query against, over A(a1, a2) and B(b1) with at  *)
(* most two records each.  QOk is the fragment whose answers the code gets  *)
(* right; each Q* set below reproduces one way the code answers wrongly.    *)
EXTENDS Query

a1 == Col("A", "a1")
a2 == Col("A", "a2")
b1 == Col("B", "b1")

ValCond(c, op, v) == [lhs |-> c, op |-> op, isVal |-> TRUE, val |-> v, rhs |-> c]
ColCond(c, op, d) == [lhs |-> c, op |-> op, isVal |-> FALSE, val |-> 0, rhs |-> d]
Sel(c) == [fn |-> "NONE", col |-> c]
Agg(fn, c) == [fn |-> fn, col |-> c]
CountAll == [fn |-> "COUNT_ALL", col |-> Col("", "*")]
Having(e, op, v) == [fn |-> e.fn, col |-> e.col, op |-> op, val |-> v]
Asc(c) == [col |-> c, desc |-> FALSE]
Desc(c) == [col |-> c, desc |-> TRUE]

Select(ts, sel, conds, order, limit) ==
    [tables |-> ts, semi |-> FALSE, on |-> <<>>, sel |-> sel, conds |-> conds,
     groupBy |-> <<>>, having |-> <<>>, order |-> order, limit |-> limit]
GroupSelect(sel, conds, gb, hv, order) ==
    [Select(<<"A">>, sel, conds, order, -1) EXCEPT !.groupBy = gb, !.having = hv]
SemiSelect(on, conds, order, limit) ==
    [Select(<<"A", "B">>, <<Sel(a1), Sel(a2)>>, conds, order, limit)
        EXCEPT !.semi = TRUE, !.on = on]

\* Filters, projections in table order, ORDER BY and LIMIT on one table.
QScan ==
    {Select(<<"A">>, sel, conds, order, lim) :
        sel \in {<<Sel(a1)>>, <<Sel(a1), Sel(a2)>>},
        conds \in {<<>>, <<ValCond(a2, "GT", 0)>>, <<ColCond(a1, "EQ", a2)>>},
        order \in {<<>>, <<Desc(a1)>>},
        lim \in {-1, 1}}
    \cup {Select(<<"A">>, <<Sel(a1), Sel(a2)>>, <<>>, <<Asc(a2), Desc(a1)>>, -1),
          Select(<<"A">>, <<Sel(a2)>>, <<ValCond(a1, "LE", 0)>>, <<>>, 2)}

\* Aggregates with and without GROUP BY; HAVING on aggregates with GROUP BY.
QAgg ==
    {GroupSelect(<<Sel(a1)>> \o aggs, conds, <<a1>>, hv, order) :
        aggs \in {<<CountAll>>, <<Agg("SUM", a2)>>, <<Agg("MIN", a2), Agg("MAX", a2)>>},
        conds \in {<<>>, <<ValCond(a2, "NE", 1)>>},
        hv \in {<<>>, <<Having(CountAll, "GT", 1)>>, <<Having(Agg("SUM", a2), "GE", 1)>>},
        order \in {<<>>, <<Desc(a1)>>}}
    \cup {GroupSelect(aggs, conds, <<>>, <<>>, <<>>) :
        aggs \in {<<CountAll>>, <<Agg("COUNT", a1)>>, <<Agg("SUM", a2), Agg("MAX", a1)>>},
        conds \in {<<>>, <<ValCond(a2, "NE", 1)>>}}

\* A SEMI JOIN B ON a1 = b1 (or a2 < b1), with a filter on A.
QSemi ==
    {SemiSelect(on, conds, order, lim) :
        on \in {<<ColCond(a1, "EQ", b1)>>, <<ColCond(a2, "LT", b1)>>},
        conds \in {<<>>, <<ValCond(a2, "GE", 1)>>},
        order \in {<<>>, <<Asc(a1)>>},
        lim \in {-1, 1}}

QOk == QScan \cup QAgg \cup QSemi

(* Statements the code answers wrongly, one set per defect.               *)
\* An inner join with a condition: beginTuple emits the first pair unchecked.
\* (Run over databases whose tables both hold a record, so that no scan is
\* empty and the undefined read of QCross stays out of the way.)
NonEmptyDBs == [A : BoundedSeq(Rows("A"), MaxRows) \ {<<>>},
                B : BoundedSeq(Rows("B"), MaxRows) \ {<<>>}]
QJoin == {Select(<<"A", "B">>, <<Sel(a1), Sel(b1)>>, <<ColCond(a1, "EQ", b1)>>, <<>>, -1)}
\* A cross join with an empty table: Next reads an RID no scan set.
QCross == {Select(<<"A", "B">>, <<Sel(a1), Sel(b1)>>, <<>>, <<>>, -1)}
\* AVG of an INT column: the sum goes to float_val, the output divides int_val.
QAvg == {GroupSelect(<<Agg("AVG", a2)>>, <<>>, <<>>, <<>>, <<>>)}
\* HAVING AVG(a2) >= 1 compares the sum.
QHavingAvg == {GroupSelect(<<Sel(a1), CountAll>>, <<>>, <<a1>>,
                           <<Having(Agg("AVG", a2), "GE", 1)>>, <<>>)}
\* HAVING on a GROUP BY column is skipped.
QHavingGroup == {GroupSelect(<<Sel(a1), CountAll>>, <<>>, <<a1>>,
                             <<Having(Sel(a1), "GT", 0)>>, <<>>)}
\* HAVING over no rows and no GROUP BY: the COUNT-only zero row skips HAVING.
QHavingEmpty == {GroupSelect(<<CountAll>>, <<>>, <<>>, <<Having(CountAll, "GT", 0)>>, <<>>)}
\* Two COUNTs over no rows: the zero row holds one int, the projection reads two.
QCount0 == {GroupSelect(<<CountAll, Agg("COUNT", a1)>>, <<>>, <<>>, <<>>, <<>>)}
\* ORDER BY a column the projection moved: Sort reads the child's offset.
QOrder == {Select(<<"A">>, <<Sel(a2), Sel(a1)>>, <<>>, <<Asc(a1)>>, -1)}
\* LIMIT 0: the planner adds a LimitPlan only for a positive count.
QLimit0 == {Select(<<"A">>, <<Sel(a1)>>, <<>>, <<>>, 0)}
\* A semi join with a WHERE condition across both tables: the planner drops it.
QSemiWhere == {SemiSelect(<<ColCond(a1, "EQ", b1)>>, <<ColCond(a2, "EQ", b1)>>, <<>>, -1)}

=============================================================================
