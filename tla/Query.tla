------------------------------- MODULE Query -------------------------------
(***************************************************************************)
(* The SELECT path of amatilasDB: the planner (optimizer/planner.cpp)      *)
(* turns an analyzed query into a tree of Volcano executors               *)
(* (execution/executor_*.h, *.cpp), and ExecutionManager::select_from      *)
(* drives the root with beginTuple / is_end / Next / nextTuple.           *)
(*                                                                         *)
(* All columns are INT.  A record is the sequence of its column values;   *)
(* a column's byte offset becomes its position.  Reading a record through *)
(* an RID the executor never set, or a column past the record's end, is   *)
(* undefined behaviour in the code and yields the value Undef here.       *)
(* Every executor is a record of its state; the tree of states mirrors    *)
(* the tree of plan nodes, and BeginT / NextT / IsEnd / Rec dispatch on   *)
(* the node's kind exactly as the virtual calls do.                       *)
(***************************************************************************)
EXTENDS Integers, Sequences, SequencesExt, FiniteSets, TLC

CONSTANTS
    Vals,       \* the values an INT column may hold
    MaxRows,    \* the most rows a table holds
    Queries,    \* the analyzed SELECT statements a client may send
    Undef       \* the outcome of a read the C++ standard leaves undefined

\* The catalog: table A(a1, a2) and table B(b1).
Schema == [A |-> <<"a1", "a2">>, B |-> <<"b1">>]
Col(t, c) == [tab |-> t, name |-> c]
TabCols(t) == [i \in 1..Len(Schema[t]) |-> Col(t, Schema[t][i])]

\* The position of column c in the column list cs (get_col; the planner only
\* builds plans whose columns exist).
ColPos(cs, c) == CHOOSE i \in DOMAIN cs : cs[i] = c

\* A comparison of two INT values (check_con, check_cond, evaluate_compare).
Holds(op, a, b) ==
    CASE op = "EQ" -> a = b
      [] op = "NE" -> a # b
      [] op = "LT" -> a < b
      [] op = "GT" -> a > b
      [] op = "LE" -> a <= b
      [] op = "GE" -> a >= b

\* The operator that states the same comparison with its sides swapped.
SwapOp == [EQ |-> "EQ", NE |-> "NE", LT |-> "GT", GT |-> "LT",
           LE |-> "GE", GE |-> "LE"]

VARIABLES
    db,      \* db[t]: the records of table t, in slot order
    query,   \* the statement being executed
    plan,    \* the executor tree the planner built (a tree of records)
    st,      \* the state of every executor of that tree
    out,     \* the records select_from has printed so far
    phase    \* "plan", "begin", "loop" or "done"

vars == <<db, query, plan, st, out, phase>>

(***************************************************************************)
(* SeqScanExecutor over RmScan.  The scan position pos is the slot the    *)
(* RmScan stands on; pos > Len(db[t]) is the end (page_no = num_pages).   *)
(* rid is the last slot that satisfied all conditions, 0 while none has:  *)
(* rid_ is assigned only on a match.                                      *)
(***************************************************************************)
CondHolds(cs, c, row) ==
    Holds(c.op, row[ColPos(cs, c.lhs)],
          IF c.isVal THEN c.val ELSE row[ColPos(cs, c.rhs)])

CheckCons(p, row) == \A i \in DOMAIN p.conds : CondHolds(TabCols(p.tab), p.conds[i], row)

\* The first slot at or after k whose record satisfies the conditions, or the end.
ScanFrom(p, k) ==
    LET R == db[p.tab]
        M == {j \in k..Len(R) : CheckCons(p, R[j])}
    IN  IF M = {} THEN Len(R) + 1 ELSE Min(M)

ScanTo(p, s, k) ==
    LET j == ScanFrom(p, k)
    IN  [pos |-> j, rid |-> IF j <= Len(db[p.tab]) THEN j ELSE s.rid]

SeqScanBeginTuple(p, s) == ScanTo(p, s, 1)
SeqScanNextTuple(p, s) ==
    IF s.pos > Len(db[p.tab]) THEN s ELSE ScanTo(p, s, s.pos + 1)
SeqScanIsEnd(p, s) == s.pos > Len(db[p.tab])
SeqScanNext(p, s) == IF s.rid = 0 THEN Undef ELSE db[p.tab][s.rid]

(***************************************************************************)
(* The column list of each executor (cols()) and get_col_offset.  A join *)
(* appends the right child's columns to the left's; a semi-join keeps the *)
(* left's; projection, sort and limit answer get_col_offset by asking     *)
(* their child (ProjectionExecutor::get_col_offset delegates to prev_).   *)
(***************************************************************************)
RECURSIVE Cols(_)
Cols(p) ==
    CASE p.kind = "scan" -> TabCols(p.tab)
      [] p.kind = "nlj"  -> Cols(p.left) \o Cols(p.right)
      [] p.kind = "semi" -> Cols(p.left)
      [] p.kind = "agg"  -> p.gcols \o p.acols
      [] p.kind = "proj" -> p.cols
      [] p.kind \in {"sort", "limit"} -> Cols(p.child)

RECURSIVE GetColOffset(_, _)
GetColOffset(p, c) ==
    IF p.kind \in {"proj", "sort", "limit"} THEN GetColOffset(p.child, c)
    ELSE ColPos(Cols(p), c)

\* The conditions of a join, evaluated on a left and a right record.
JoinCondsHold(p, lrec, rrec) ==
    \A i \in DOMAIN p.conds :
        Holds(p.conds[i].op, lrec[ColPos(Cols(p.left), p.conds[i].lhs)],
                             rrec[ColPos(Cols(p.right), p.conds[i].rhs)])

\* The state of a freshly constructed executor tree.
RECURSIVE InitSt(_)
InitSt(p) ==
    CASE p.kind = "scan" -> [pos |-> 0, rid |-> 0]
      [] p.kind \in {"nlj", "semi"} ->
            [l |-> InitSt(p.left), r |-> InitSt(p.right), isend |-> FALSE]
      [] p.kind = "agg" ->
            [c |-> InitSt(p.child), keys |-> <<>>, res |-> <<>>, hres |-> <<>>,
             idx |-> 0, count0 |-> FALSE, undef |-> FALSE]
      [] p.kind = "proj" -> [c |-> InitSt(p.child)]
      [] p.kind = "sort" ->
            [c |-> InitSt(p.child), tuples |-> <<>>, position |-> 0, undef |-> FALSE]
      [] p.kind = "limit" -> [c |-> InitSt(p.child), count |-> 0]

RECURSIVE BeginT(_, _), NextT(_, _), IsEnd(_, _), Rec(_, _), Drain(_, _, _),
          NljNextTuple(_, _), SemiAdvance(_, _, _), SortBeginTuple(_, _),
          AggBeginTuple(_, _)

\* The loop `while (!is_end()) { Next(); nextTuple(); }` of sort and
\* aggregate: every record the child yields, in order.
Drain(p, s, acc) ==
    IF IsEnd(p, s) THEN acc ELSE Drain(p, NextT(p, s), Append(acc, Rec(p, s)))

(* NestedLoopJoinExecutor::nextTuple: step right, then for each left record *)
(* scan right for a pair satisfying the conditions; restart right and step *)
(* left when none does; isend once left is exhausted.                      *)
NljNextTuple(p, s) ==
    LET RECURSIVE Inner(_, _), Outer(_, _)
        Inner(lrec, r) ==
            IF IsEnd(p.right, r) THEN [found |-> FALSE, r |-> r]
            ELSE IF JoinCondsHold(p, lrec, Rec(p.right, r))
                 THEN [found |-> TRUE, r |-> r]
                 ELSE Inner(lrec, NextT(p.right, r))
        Outer(l, r) ==
            IF IsEnd(p.left, l) THEN [l |-> l, r |-> r, isend |-> TRUE]
            ELSE LET m == Inner(Rec(p.left, l), r)
                 IN  IF m.found THEN [l |-> l, r |-> m.r, isend |-> s.isend]
                     ELSE Outer(NextT(p.left, l), BeginT(p.right, m.r))
    IN  Outer(s.l, IF IsEnd(p.right, s.r) THEN s.r ELSE NextT(p.right, s.r))

(* SemiJoinExecutor: from left state l, step left until its record has a  *)
(* right record satisfying the ON conditions (findMatchForCurrentLeft     *)
(* restarts right for every left record); left_end_ when left runs out.   *)
SemiAdvance(p, l, r) ==
    LET RECURSIVE Find(_, _)
        Find(lrec, rr) ==
            IF IsEnd(p.right, rr) THEN [found |-> FALSE, r |-> rr]
            ELSE IF JoinCondsHold(p, lrec, Rec(p.right, rr))
                 THEN [found |-> TRUE, r |-> rr]
                 ELSE Find(lrec, NextT(p.right, rr))
    IN  IF IsEnd(p.left, l) THEN [l |-> l, r |-> r, isend |-> TRUE]
        ELSE LET m == Find(Rec(p.left, l), BeginT(p.right, r))
             IN  IF m.found THEN [l |-> l, r |-> m.r, isend |-> FALSE]
                 ELSE SemiAdvance(p, NextT(p.left, l), m.r)

(* SortExecutor::beginTuple: drain the child, then std::sort with         *)
(* compare_tuples over the key offsets cols_.  For the few records here   *)
(* libstdc++'s std::sort is an insertion sort, which keeps ties in input  *)
(* order.  A key offset past a record's end is a read out of bounds.      *)
SortLess(p, a, b) ==
    LET RECURSIVE L(_)
        L(i) == IF i > Len(p.keys) THEN FALSE
                ELSE IF a[p.keys[i]] # b[p.keys[i]]
                     THEN IF p.desc[i] THEN a[p.keys[i]] > b[p.keys[i]]
                                       ELSE a[p.keys[i]] < b[p.keys[i]]
                     ELSE L(i + 1)
    IN  L(1)

SortInsert(p, srt, x) ==
    LET k == Len(srt) - Cardinality({j \in DOMAIN srt : SortLess(p, x, srt[j])})
    IN  SubSeq(srt, 1, k) \o <<x>> \o SubSeq(srt, k + 1, Len(srt))

SortBeginTuple(p, s) ==
    LET c  == BeginT(p.child, s.c)
        ts == Drain(p.child, c, <<>>)
        undef == \E i \in DOMAIN ts :
                    \/ ts[i] = Undef
                    \/ \E k \in DOMAIN ts[i] : ts[i][k] = Undef
                    \/ Len(ts) > 1 /\ \E k \in DOMAIN p.keys : p.keys[k] > Len(ts[i])
    IN  [c |-> c, position |-> 0, undef |-> undef,
         tuples |-> IF undef THEN ts
                    ELSE FoldLeft(LAMBDA srt, x : SortInsert(p, srt, x), <<>>, ts)]

(***************************************************************************)
(* AggregateExecutor.  keys lists the group keys in order of first        *)
(* appearance (resultKeys); res[i] and hres[i] are the AggValues of the   *)
(* selected aggregates and of the HAVING conditions of group keys[i]; idx *)
(* is resultIndex.  An AggValue keeps int_val (iv), count (cnt), the      *)
(* float_val sum (fl) and the min/max flags.                              *)
(***************************************************************************)
ZeroAgg == [iv |-> 0, cnt |-> 0, fl |-> 0, minF |-> FALSE, maxF |-> FALSE]
Zeros(n) == [i \in 1..n |-> ZeroAgg]

\* CalculateAggValue for an INT column: AVG accumulates into float_val.
CalculateAggValue(fn, v, r) ==
    CASE fn \in {"COUNT", "COUNT_ALL"} -> [r EXCEPT !.iv = @ + 1]
      [] fn = "SUM" -> [r EXCEPT !.iv = @ + v]
      [] fn = "AVG" -> [r EXCEPT !.cnt = @ + 1, !.fl = @ + v]
      [] fn = "MAX" -> [r EXCEPT !.iv = IF r.maxF THEN Max({@, v}) ELSE v, !.maxF = TRUE]
      [] fn = "MIN" -> [r EXCEPT !.iv = IF r.minF THEN Min({@, v}) ELSE v, !.minF = TRUE]

\* A fraction in lowest terms: the value of an AVG.
Ratio(n, d) ==
    LET g == Max({k \in 1..d : n % k = 0 /\ d % k = 0}) IN <<n \div g, d \div g>>

\* MergeKeyAndResult for an INT column: AVG divides int_val, not float_val.
AggOutput(fn, r) == IF fn = "AVG" THEN Ratio(r.iv, r.cnt) ELSE r.iv

\* The value Check_Having_Conditions compares: float_val for an AVG.
HavingValue(fn, r) == IF fn = "AVG" THEN r.fl ELSE r.iv

\* Check_Having_Conditions: conditions on a non-aggregate are skipped.
CheckHaving(p, h) ==
    \A i \in DOMAIN p.having :
        p.having[i].isAgg => Holds(p.having[i].op, HavingValue(p.having[i].fn, h[i]),
                                   p.having[i].val)

\* ProcessTuple: find or add the group of record t and fold t into it.
ProcessTuple(p, g, t) ==
    LET key == [i \in DOMAIN p.gpos |-> t[p.gpos[i]]]
        new == ~\E i \in DOMAIN g.keys : g.keys[i] = key
        ks  == IF new THEN Append(g.keys, key) ELSE g.keys
        k   == CHOOSE i \in DOMAIN ks : ks[i] = key
        rs  == IF new THEN Append(g.res, Zeros(Len(p.aggs))) ELSE g.res
        hs  == IF new THEN Append(g.hres, Zeros(Len(p.having))) ELSE g.hres
        val(pos) == IF pos = 0 THEN 0 ELSE t[pos]
    IN  [keys |-> ks,
         res  |-> [rs EXCEPT ![k] = [i \in DOMAIN p.aggs |->
                      CalculateAggValue(p.aggs[i].fn, val(p.aggs[i].pos), @[i])]],
         hres |-> [hs EXCEPT ![k] = [i \in DOMAIN p.having |->
                      IF p.having[i].isAgg
                      THEN CalculateAggValue(p.having[i].fn, val(p.having[i].pos), @[i])
                      ELSE @[i]]]]

\* The first result index at or after i whose group passes HAVING.
SkipHaving(p, s, i) ==
    LET ok == {j \in i..Len(s.keys) : j = Len(s.keys) \/ p.having = <<>>
                                      \/ CheckHaving(p, s.hres[j + 1])}
    IN  Min(ok)

AllCount(p) == \A i \in DOMAIN p.aggs : p.aggs[i].fn \in {"COUNT", "COUNT_ALL"}

AggBeginTuple(p, s) ==
    LET c   == BeginT(p.child, s.c)
        g0  == IF p.gpos = <<>>
               THEN [keys |-> << <<>> >>, res |-> <<Zeros(Len(p.aggs))>>,
                     hres |-> <<Zeros(Len(p.having))>>]
               ELSE [keys |-> <<>>, res |-> <<>>, hres |-> <<>>]
        ts  == Drain(p.child, c, <<>>)
        undef == \E i \in DOMAIN ts : ts[i] = Undef
        g   == IF undef THEN g0 ELSE FoldLeft(LAMBDA a, t : ProcessTuple(p, a, t), g0, ts)
        s1  == [s EXCEPT !.c = c, !.keys = g.keys, !.res = g.res, !.hres = g.hres,
                         !.undef = undef]
    IN  IF IsEnd(p.child, c)
        THEN [s1 EXCEPT !.count0 = AllCount(p), !.idx = IF AllCount(p) THEN 0 ELSE 1]
        ELSE [s1 EXCEPT !.count0 = FALSE, !.idx = SkipHaving(p, s1, 0)]

\* Mutant: nextTuple steps to the next group without skipping those HAVING rejects.
AggNextTupleNoHaving(p, s) == [s EXCEPT !.idx = @ + 1]

AggNextTuple(p, s) == [s EXCEPT !.idx = SkipHaving(p, s, s.idx + 1)]
AggIsEnd(p, s) == s.idx >= Len(s.keys)
AggNext(p, s) ==
    CASE s.undef  -> Undef
      [] s.count0 -> <<0>>
      [] OTHER    -> s.keys[s.idx + 1] \o
                     [i \in DOMAIN p.aggs |-> AggOutput(p.aggs[i].fn, s.res[s.idx + 1][i])]

(***************************************************************************)
(* The virtual calls.  Projection copies the selected positions of its    *)
(* child's record; a position past that record's end reads out of bounds. *)
(* Limit counts the records it let through.                               *)
(***************************************************************************)
BeginT(p, s) ==
    CASE p.kind = "scan"  -> SeqScanBeginTuple(p, s)
      [] p.kind = "nlj"   -> [s EXCEPT !.l = BeginT(p.left, s.l), !.r = BeginT(p.right, s.r)]
      [] p.kind = "semi"  -> SemiAdvance(p, BeginT(p.left, s.l), s.r)
      [] p.kind = "agg"   -> AggBeginTuple(p, s)
      [] p.kind = "proj"  -> [s EXCEPT !.c = BeginT(p.child, s.c)]
      [] p.kind = "sort"  -> SortBeginTuple(p, s)
      [] p.kind = "limit" -> [s EXCEPT !.c = BeginT(p.child, s.c), !.count = 0]

NextT(p, s) ==
    CASE p.kind = "scan"  -> SeqScanNextTuple(p, s)
      [] p.kind = "nlj"   -> NljNextTuple(p, s)
      [] p.kind = "semi"  -> SemiAdvance(p, NextT(p.left, s.l), s.r)
      [] p.kind = "agg"   -> AggNextTuple(p, s)
      [] p.kind = "proj"  -> [s EXCEPT !.c = NextT(p.child, s.c)]
      [] p.kind = "sort"  -> [s EXCEPT !.position = @ + 1]
      [] p.kind = "limit" -> IF IsEnd(p, s) THEN s
                             ELSE [s EXCEPT !.c = NextT(p.child, s.c), !.count = @ + 1]

IsEnd(p, s) ==
    CASE p.kind = "scan"  -> SeqScanIsEnd(p, s)
      [] p.kind = "nlj"   -> s.isend
      [] p.kind = "semi"  -> s.isend \/ IsEnd(p.left, s.l)
      [] p.kind = "agg"   -> AggIsEnd(p, s)
      [] p.kind = "proj"  -> IsEnd(p.child, s.c)
      [] p.kind = "sort"  -> s.position >= Len(s.tuples)
      [] p.kind = "limit" -> s.count >= p.n \/ IsEnd(p.child, s.c)

Rec(p, s) ==
    CASE p.kind = "scan"  -> SeqScanNext(p, s)
      [] p.kind = "nlj"   -> LET l == Rec(p.left, s.l)
                                 r == Rec(p.right, s.r)
                             IN  IF l = Undef \/ r = Undef THEN Undef ELSE l \o r
      [] p.kind = "semi"  -> Rec(p.left, s.l)
      [] p.kind = "agg"   -> AggNext(p, s)
      [] p.kind = "proj"  -> LET t == Rec(p.child, s.c)
                             IN  IF t = Undef THEN Undef
                                 ELSE [i \in DOMAIN p.idx |->
                                         IF p.idx[i] <= Len(t) THEN t[p.idx[i]] ELSE Undef]
      [] p.kind = "sort"  -> IF s.undef THEN Undef ELSE s.tuples[s.position + 1]
      [] p.kind = "limit" -> Rec(p.child, s.c)

(***************************************************************************)
(* The planner.  A query record carries what the analyzer leaves in Query *)
(* and SelectStmt: the FROM tables, whether it is `A SEMI JOIN B ON ...`  *)
(* (semi, on), the WHERE conditions, the select list (fn "NONE" for a     *)
(* plain column), GROUP BY, HAVING, ORDER BY and LIMIT (-1 when absent).  *)
(* A condition is [lhs, op, isVal, val, rhs].  No table has an index, so  *)
(* every scan is a SeqScan.                                              *)
(***************************************************************************)
ScanPlan(q, t) ==
    [kind |-> "scan", tab |-> t,
     conds |-> SelectSeq(q.conds, LAMBDA c : (c.isVal \/ c.rhs.tab = c.lhs.tab)
                                             /\ c.lhs.tab = t)]
JoinConds(q) == SelectSeq(q.conds, LAMBDA c : ~c.isVal /\ c.rhs.tab # c.lhs.tab)
JoinPlan(kind, l, r, cs) == [kind |-> kind, left |-> l, right |-> r, conds |-> cs]

\* push_conds on a join of two scans: keep the condition, or swap its sides
\* when its left column belongs to the right scan.
PushConds(j, c) ==
    IF j.left.tab = c.lhs.tab THEN c
    ELSE [c EXCEPT !.lhs = c.rhs, !.rhs = c.lhs, !.op = SwapOp[c.op]]

\* optimize_join_reordering: tables by num_pages * 100, smallest first.  A
\* table file holds its header page, and a record page once it has a record.
NumPages(t) == IF db[t] = <<>> THEN 1 ELSE 2
JoinReordering(ts) ==
    IF Len(ts) = 2 /\ NumPages(ts[2]) < NumPages(ts[1]) THEN <<ts[2], ts[1]>> ELSE ts

\* make_one_rel_with_jointree: the ON conditions become the semi-join's; the
\* WHERE conditions across both tables it collects are never used.
MakeOneRelWithJointree(q) ==
    JoinPlan("semi", ScanPlan(q, q.tables[1]), ScanPlan(q, q.tables[2]), q.on)

\* make_one_rel, for one or two tables.
MakeOneRel(q) ==
    LET ts == JoinReordering(q.tables)
        jc == JoinConds(q)
        first == JoinPlan("nlj", ScanPlan(q, jc[1].lhs.tab), ScanPlan(q, jc[1].rhs.tab), <<jc[1]>>)
    IN  CASE q.semi      -> MakeOneRelWithJointree(q)
          [] Len(ts) = 1 -> ScanPlan(q, ts[1])
          [] jc # <<>>   -> [first EXCEPT !.conds =
                                @ \o [i \in 1..Len(jc) - 1 |-> PushConds(first, jc[i + 1])]]
          [] OTHER       -> JoinPlan("nlj", ScanPlan(q, ts[2]), ScanPlan(q, ts[1]), <<>>)

\* The column an aggregate is known by (AggregateExecutor and the planner's
\* projection name it alike).
AggCol(e) == [tab |-> "", name |-> <<e.fn, e.col.name>>]
IsAggQuery(q) == (\E i \in DOMAIN q.sel : q.sel[i].fn # "NONE") \/ q.groupBy # <<>>

AggregatePlan(child, q) ==
    LET aggs == SelectSeq(q.sel, LAMBDA e : e.fn # "NONE")
        pos(e) == IF e.fn \in {"NONE", "COUNT_ALL"} THEN 0 ELSE GetColOffset(child, e.col)
    IN  [kind |-> "agg", child |-> child, gcols |-> q.groupBy,
         gpos |-> [i \in DOMAIN q.groupBy |-> GetColOffset(child, q.groupBy[i])],
         acols |-> [i \in DOMAIN aggs |-> AggCol(aggs[i])],
         aggs |-> [i \in DOMAIN aggs |-> [fn |-> aggs[i].fn, pos |-> pos(aggs[i])]],
         having |-> [i \in DOMAIN q.having |->
                       [isAgg |-> q.having[i].fn # "NONE", fn |-> q.having[i].fn,
                        pos |-> pos(q.having[i]), op |-> q.having[i].op,
                        val |-> q.having[i].val]]]

\* Mutant: sel_idxs_ counted from one past the column's position.
ProjectionPlanShifted(child, cs) ==
    [kind |-> "proj", child |-> child, cols |-> cs,
     idx |-> [i \in DOMAIN cs |-> ColPos(Cols(child), cs[i]) + 1]]

ProjectionPlan(child, cs) ==
    [kind |-> "proj", child |-> child, cols |-> cs,
     idx |-> [i \in DOMAIN cs |-> ColPos(Cols(child), cs[i])]]

\* SortExecutor's constructor: cols_ = prev_->get_col_offset(key).
SortPlan(child, order) ==
    [kind |-> "sort", child |-> child,
     keys |-> [i \in DOMAIN order |-> GetColOffset(child, order[i].col)],
     desc |-> [i \in DOMAIN order |-> order[i].desc]]

\* The aggregate stage: an AggregatePlan over the join tree when the query
\* aggregates or groups (the planner's table-name inference is left out:
\* queries enter with every column's table resolved).
PlanAggregate(rel, q) == IF IsAggQuery(q) THEN AggregatePlan(rel, q) ELSE rel

\* projection_cols: an aggregate query projects its SELECT list in order, an
\* aggregate by the name AggregateExecutor gives it; any other query projects
\* its selected columns.
ProjectionCols(q) ==
    [i \in DOMAIN q.sel |-> IF q.sel[i].fn = "NONE" THEN q.sel[i].col ELSE AggCol(q.sel[i])]

\* ORDER BY: a SortPlan over the projection, keys in ORDER BY order.
PlanOrderBy(child, q) == IF q.order # <<>> THEN SortPlan(child, q.order) ELSE child

\* LIMIT: a LimitPlan only when limit_count > 0.
PlanLimit(child, q) ==
    IF q.limit > 0 THEN [kind |-> "limit", child |-> child, n |-> q.limit] ELSE child

\* generate_select_plan: join tree, aggregate, projection, sort, limit.
GenerateSelectPlan(q) ==
    PlanLimit(PlanOrderBy(ProjectionPlan(PlanAggregate(MakeOneRel(q), q), ProjectionCols(q)), q), q)

(***************************************************************************)
(* What the statement means: the relational answer the executors must     *)
(* produce, stated without executors.  A group is the sequence of WHERE-  *)
(* qualified source rows that share the GROUP BY values; a query without  *)
(* aggregates has one group per row.  Without GROUP BY an aggregate query *)
(* has one group, even when it is empty, as long as every aggregate is a  *)
(* COUNT (the code's convention for MIN, MAX, SUM and AVG of no rows is   *)
(* no row, which SQL's NULL would otherwise give).                        *)
(***************************************************************************)
FromCols(q) == IF Len(q.tables) = 1 THEN TabCols(q.tables[1])
               ELSE TabCols(q.tables[1]) \o TabCols(q.tables[2])
RowCols(q) == IF q.semi THEN TabCols(q.tables[1]) ELSE FromCols(q)
WhereHolds(q, r) == \A i \in DOMAIN q.conds : CondHolds(FromCols(q), q.conds[i], r)
OnHolds(q, l, r) ==
    \A i \in DOMAIN q.on :
        Holds(q.on[i].op, l[ColPos(TabCols(q.tables[1]), q.on[i].lhs)],
                          r[ColPos(TabCols(q.tables[2]), q.on[i].rhs)])

Product(S, T) == [i \in 1..Len(S) * Len(T) |-> S[((i - 1) \div Len(T)) + 1] \o T[((i - 1) % Len(T)) + 1]]

Filtered(q) ==
    LET L == db[q.tables[1]]
        R == IF Len(q.tables) = 2 THEN db[q.tables[2]] ELSE <<>>
    IN  CASE q.semi -> SelectSeq(L, LAMBDA l : \E j \in DOMAIN R :
                                    OnHolds(q, l, R[j]) /\ WhereHolds(q, l \o R[j]))
          [] Len(q.tables) = 1 -> SelectSeq(L, LAMBDA r : WhereHolds(q, r))
          [] OTHER -> SelectSeq(Product(L, R), LAMBDA r : WhereHolds(q, r))

ColValue(q, g, c) == g[1][ColPos(RowCols(q), c)]
ColValues(q, g, c) == [i \in DOMAIN g |-> g[i][ColPos(RowCols(q), c)]]
SumOf(vs) == FoldLeft(LAMBDA a, b : a + b, 0, vs)

AggRef(q, g, e) ==
    CASE e.fn \in {"COUNT", "COUNT_ALL"} -> Len(g)
      [] e.fn = "SUM" -> SumOf(ColValues(q, g, e.col))
      [] e.fn = "MIN" -> Min(ToSet(ColValues(q, g, e.col)))
      [] e.fn = "MAX" -> Max(ToSet(ColValues(q, g, e.col)))
      [] e.fn = "AVG" -> Ratio(SumOf(ColValues(q, g, e.col)), Len(g))

ItemValue(q, g, e) == IF e.fn = "NONE" THEN ColValue(q, g, e.col) ELSE AggRef(q, g, e)

HavingRef(q, g) ==
    \A i \in DOMAIN q.having :
        LET h == q.having[i]
        IN  IF h.fn = "AVG" THEN Holds(h.op, SumOf(ColValues(q, g, h.col)), h.val * Len(g))
            ELSE Holds(h.op, ItemValue(q, g, h), h.val)

Groups(q) ==
    LET F == Filtered(q)
        key(r) == [i \in DOMAIN q.groupBy |-> r[ColPos(RowCols(q), q.groupBy[i])]]
        allCount == \A i \in DOMAIN q.sel : q.sel[i].fn \in {"NONE", "COUNT", "COUNT_ALL"}
        gs == CASE ~IsAggQuery(q) -> [i \in DOMAIN F |-> <<F[i]>>]
                [] q.groupBy = <<>> -> IF F = <<>> /\ ~allCount THEN <<>> ELSE <<F>>
                [] OTHER -> SetToSeq({SelectSeq(F, LAMBDA r : key(r) = k) : k \in {key(r) : r \in ToSet(F)}})
    IN  SelectSeq(gs, LAMBDA g : HavingRef(q, g))

\* ORDER BY: group g sorts strictly before group h.
RefLess(q, g, h) ==
    LET RECURSIVE L(_)
        L(i) == IF i > Len(q.order) THEN FALSE
                ELSE LET a == ColValue(q, g, q.order[i].col)
                         b == ColValue(q, h, q.order[i].col)
                     IN  IF a # b THEN (IF q.order[i].desc THEN a > b ELSE a < b)
                         ELSE L(i + 1)
    IN  L(1)

\* Every printed result the statement allows: its groups in any order that
\* ORDER BY permits, cut to LIMIT, each projected to the select list.
Acceptable(q) ==
    LET G == Groups(q)
        n == Len(G)
        m == IF q.limit >= 0 THEN Min({q.limit, n}) ELSE n
        arr == {[i \in 1..n |-> G[f[i]]] : f \in Permutations(1..n)}
        ordered == {a \in arr : \A i \in 1..n - 1 : ~RefLess(q, a[i + 1], a[i])}
    IN  {[i \in 1..m |-> [k \in DOMAIN q.sel |-> ItemValue(q, a[i], q.sel[k])]] : a \in ordered}

(***************************************************************************)
(* QlManager::select_from, after the planner (Planner::do_planner calls   *)
(* generate_select_plan) and the portal built the executor tree:          *)
(*   for (beginTuple(); !is_end(); nextTuple()) { Next(); print; }        *)
(***************************************************************************)
\* The databases the scenario starts from: each table holds up to MaxRows
\* records of INT values.
Rows(t) == [1..Len(Schema[t]) -> Vals]
DBs == [A : BoundedSeq(Rows("A"), MaxRows), B : BoundedSeq(Rows("B"), MaxRows)]
NoPlan == [kind |-> "none"]

Init ==
    /\ db \in DBs
    /\ query \in Queries
    /\ plan = NoPlan
    /\ st = NoPlan
    /\ out = <<>>
    /\ phase = "plan"

GenerateSelect ==
    /\ phase = "plan"
    /\ plan' = GenerateSelectPlan(query)
    /\ st' = InitSt(plan')
    /\ phase' = "begin"
    /\ UNCHANGED <<db, query, out>>

SelectBegin ==
    /\ phase = "begin"
    /\ st' = BeginT(plan, st)
    /\ phase' = "loop"
    /\ UNCHANGED <<db, query, plan, out>>

\* Mutant: the loop prints the current record and never calls nextTuple.
SelectNextNoAdvance ==
    /\ phase = "loop"
    /\ ~IsEnd(plan, st)
    /\ out' = Append(out, Rec(plan, st))
    /\ UNCHANGED <<db, query, plan, st, phase>>

SelectNext ==
    /\ phase = "loop"
    /\ ~IsEnd(plan, st)
    /\ out' = Append(out, Rec(plan, st))
    /\ st' = NextT(plan, st)
    /\ UNCHANGED <<db, query, plan, phase>>

SelectEnd ==
    /\ phase = "loop"
    /\ IsEnd(plan, st)
    /\ phase' = "done"
    /\ UNCHANGED <<db, query, plan, st, out>>

\* The statement has been answered; the session waits for the next one.
Answered == phase = "done" /\ UNCHANGED vars

Next == GenerateSelect \/ SelectBegin \/ SelectNext \/ SelectEnd \/ Answered

Spec == Init /\ [][Next]_vars /\ WF_vars(Next)

(***************************************************************************)
(* Properties.                                                            *)
(***************************************************************************)
\* The most records any statement over these tables can print.
MaxOut == MaxRows * MaxRows

\* Type invariant: the phase, the statement, the database, and a printed
\* result of at most MaxOut records.
TypeOK ==
    /\ phase \in {"plan", "begin", "loop", "done"}
    /\ query \in Queries
    /\ db \in DBs
    /\ out \in Seq(Seq(Int \cup (Int \X Int) \cup {Undef}) \cup {Undef})
    /\ Len(out) <= MaxOut

\* What select_from prints, once the executor tree reports is_end, is an
\* answer the statement allows: the WHERE-qualified rows (or the groups
\* that pass HAVING, with their aggregates), in an order ORDER BY permits,
\* cut to LIMIT, projected to the select list, and no undefined read among
\* them.  It takes the planner, every executor's iterator protocol and the
\* driver loop together to get right.
SelectMatchesReference == phase = "done" => out \in Acceptable(query)

\* No record select_from prints comes from a read the code leaves
\* undefined: an RID a SeqScan never set, or a column past a record's end.
NoUndefinedRead ==
    \A i \in DOMAIN out : out[i] # Undef /\ \A k \in DOMAIN out[i] : out[i][k] # Undef

=============================================================================
