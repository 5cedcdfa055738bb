----------------------------- MODULE QueryPlans -----------------------------
(***************************************************************************)
(* The TPC-H plans, as trees of relational operators. An operator is a     *)
(* record of the IUs it provides (outs), the calls of decay that its tree  *)
(* makes in order (calls: children first, the build side of a join before  *)
(* its own build step), and the rows a relational algebra would say it has *)
(* (rows). A row is described by the scans it stems from: inner join rows  *)
(* stem from those of both sides, the unmatched rows of a left outer join  *)
(* from those of its left side alone.                                      *)
(*                                                                         *)
(* Constants of predicates, output names and the LIMIT of a print are left *)
(* out. An operator goes by the name of the variable that holds it.        *)
(***************************************************************************)
EXTENDS Naturals, Sequences, SequencesExt, FiniteSetsExt

-----------------------------------------------------------------------------
(* Types and information units.                                            *)

TypeSize == [i4 |-> 4, date |-> 4, i8 |-> 8, f8 |-> 8, str |-> 8, ptr |-> 8,
             u8 |-> 8, u1 |-> 1, char |-> 1, bool |-> 1, void |-> 0]

(* An IU: the operator it belongs to, what it is for there, the column it  *)
(* stands for (a name, and a number when several share it), type and width.*)
SizedIU(op, part, id, ty, size) == [op |-> op, part |-> part, id |-> id, ty |-> ty, size |-> size]
IU(op, part, id, ty) == SizedIU(op, part, id, ty, TypeSize[ty])
Like(op, part, iu) == IU(op, part, iu.id, iu.ty)
Width(ius) == FoldLeft(LAMBDA n, iu : n + iu.size, 0, ius)

(* The byte offset at which the k-th of these starts when they are packed. *)
OffsetIn(ius, k) == Width(SubSeq(ius, 1, k - 1))

-----------------------------------------------------------------------------
(* Relational operators.                                                   *)

TableScan(op, rel, cols) ==
  LET ius == [i \in DOMAIN cols |-> IU(op, "scan", <<cols[i], 0>>, rel[cols[i]])]
  IN [outs |-> ius, rows |-> {{op}},
      calls |-> <<[call |-> "TableScan", op |-> op, ius |-> ius]>>]

(* Nodes of an expression: what they compute and the computations that     *)
(* produce it, every child's before the node's own (decayNode). A node of  *)
(* one child takes its other argument, of type ty, as a runtime parameter. *)
BoolReturning == {"Eq", "Neq", "Less", "LessEqual", "Greater", "GreaterEqual",
                  "StrEquals", "And", "Or", "InList", "NotLikeTokens"}
Derive(code, ty) == IF code \in BoolReturning THEN "bool" ELSE ty
Ref(iu) == [iu |-> iu, post |-> << >>]
ComputeNode(op, id, code, ty, kids) ==
  LET iu == IU(op, "compute", id, Derive(code, ty))
  IN [iu |-> iu,
      post |-> FlattenSeq([i \in DOMAIN kids |-> kids[i].post])
                 \o <<[ins |-> [i \in DOMAIN kids |-> kids[i].iu], out |-> iu, code |-> code, ty |-> ty]>>]
Compute(op, id, code, kids) == ComputeNode(op, <<id, 0>>, code, kids[1].iu.ty, kids)
WithParam(op, id, code, ty, kid) == ComputeNode(op, <<id, 0>>, code, ty, <<kid>>)

(* Every node is computed once, where it is first needed.                  *)
OnFirstUse(post) ==
  FoldLeft(LAMBDA done, n : IF Contains(done, n) THEN done ELSE Append(done, n), << >>, post)

ExpressionOp(op, kid, roots) ==
  [outs |-> [i \in DOMAIN roots |-> roots[i].iu], rows |-> kid.rows,
   calls |-> kid.calls \o
     <<[call |-> "ExpressionOp", op |-> op,
        nodes |-> OnFirstUse(FlattenSeq([i \in DOMAIN roots |-> roots[i].post]))]>>]

Filter(op, kid, redefine, cond) ==
  LET redefined == [i \in DOMAIN redefine |-> Like(op, "filter", redefine[i])]
  IN [outs |-> redefined, rows |-> kid.rows,
      calls |-> kid.calls \o
        <<[call |-> "Filter", op |-> op, old |-> redefine, new |-> redefined, cond |-> cond]>>]

(* The left side is the build side; every join is a primary key join. Keys *)
(* and payload are given by the columns' numbers.                          *)
Columns(kid, ks) == [i \in DOMAIN ks |-> kid.outs[ks[i]]]
Join(op, type, left, right, keysLeft, payloadLeft, keysRight, payloadRight) ==
  LET rowLeft == Columns(left, keysLeft \o payloadLeft)
      rowRight == Columns(right, keysRight \o payloadRight)
      keyWidth == Width(Columns(left, keysLeft))
      outLeft == [i \in DOMAIN rowLeft |-> Like(op, "left", rowLeft[i])]
      outRight == IF type = "LeftSemi" THEN << >>
                  ELSE [i \in DOMAIN rowRight |-> Like(op, "right", rowRight[i])]
  IN [outs |-> outLeft \o outRight,
      rows |-> {l \cup r : l \in left.rows, r \in right.rows}
                 \cup (IF type = "LeftOuter" THEN left.rows ELSE {}),
      calls |-> left.calls \o <<[call |-> "JoinBuild", op |-> op, row |-> rowLeft]>>
                \o right.calls
                \o <<[call |-> "JoinProbe", op |-> op, type |-> type, row |-> rowRight,
                      keyWidth |-> keyWidth, outLeft |-> outLeft, outRight |-> outRight]>>]

(* The granules an aggregate function is made of, and those a set of them  *)
(* shares: large ones first. Between granules of one size the code goes by *)
(* the addresses of their IUs; here, by first use.                         *)
GranulesOf(agg) ==
  LET sum == [iu |-> agg.iu, state |-> "sum", size |-> agg.iu.size]
      count == [iu |-> agg.iu, state |-> "count", size |-> 8]
  IN CASE agg.fn = "Sum" -> <<sum>>
       [] agg.fn = "Count" -> <<count>>
       [] agg.fn = "Avg" -> <<sum, count>>
PlanGranules(aggs) ==
  LET all == OnFirstUse(FlattenSeq([i \in DOMAIN aggs |-> GranulesOf(aggs[i])]))
      OfSize(n) == SelectSeq(all, LAMBDA g : g.size = n)
  IN OfSize(8) \o OfSize(4) \o OfSize(1)
ResultType(agg) == CASE agg.fn = "Sum" -> agg.iu.ty
                     [] agg.fn = "Count" -> "i8"
                     [] agg.fn = "Avg" -> "f8"

(* The payload starts at the first multiple of the last granule's size     *)
(* that is not inside of the key.                                          *)
PayloadOffset_RoundsDown(keySize, granules) ==
  LET step == Last(granules).size
  IN step * (keySize \div step) - keySize
PayloadOffset(keySize, granules) ==
  LET step == Last(granules).size
  IN step * ((keySize + step - 1) \div step) - keySize

StateBegin(groupBy, granules) == Width(groupBy) + PayloadOffset(Width(groupBy), granules)

(* The bytes of its granules that an aggregate's result is read from.      *)
ReadsOf(agg, granules, first) ==
  LET gs == GranulesOf(agg)
      AtGranule(g) == first + OffsetIn(granules, CHOOSE k \in DOMAIN granules : granules[k] = g)
  IN [i \in DOMAIN gs |-> <<AtGranule(gs[i]), gs[i].size>>]

Aggregation(op, kid, groupBy, aggs) ==
  LET keys == [i \in DOMAIN groupBy |-> Like(op, "key", groupBy[i])]
      results == [i \in DOMAIN aggs |-> IU(op, aggs[i].fn, aggs[i].iu.id, ResultType(aggs[i]))]
      granules == PlanGranules(aggs)
      first == StateBegin(groupBy, granules)
  IN [outs |-> keys \o results, rows |-> kid.rows,
      calls |-> kid.calls \o
        <<[call |-> "Aggregation", op |-> op, groupBy |-> groupBy, keys |-> keys,
           granules |-> granules, first |-> first, types |-> [i \in DOMAIN aggs |-> aggs[i].iu.ty],
           results |-> results, reads |-> [i \in DOMAIN aggs |-> ReadsOf(aggs[i], granules, first)]]>>]
Sum(iu) == [iu |-> iu, fn |-> "Sum"]
Avg(iu) == [iu |-> iu, fn |-> "Avg"]
Count(iu) == [iu |-> iu, fn |-> "Count"]

PrintOp(op, kid, ius) ==
  [outs |-> << >>, rows |-> kid.rows,
   calls |-> kid.calls \o <<[call |-> "Print", op |-> op, ius |-> ius]>>]

(* What the i-th of a plan's calls says of its rows: IUs have their type's *)
(* width; joins and aggregations provide IUs of the types they pack; state *)
(* begins behind the keys and has the granules of every aggregate.         *)
Typed(row) ==
  \A k \in DOMAIN row : row[k].ty \in DOMAIN TypeSize /\ row[k].size = TypeSize[row[k].ty]
Provides(op, role, outs, row) == outs = [k \in DOMAIN row |-> Like(op, role, row[k])]
LaidOut(cs, i) ==
  LET c == cs[i]
      Reading(reads) ==
        \E k \in DOMAIN c.granules, fn \in {"Sum", "Count", "Avg"} :
          LET agg == [iu |-> c.granules[k].iu, fn |-> fn]
          IN ToSet(GranulesOf(agg)) \subseteq ToSet(c.granules) /\ reads = ReadsOf(agg, c.granules, c.first)
  IN /\ c.call = "JoinBuild" => Typed(c.row)
     /\ c.call = "JoinProbe" =>
          /\ Typed(c.row) /\ (c.outRight = << >> \/ Provides(c.op, "right", c.outRight, c.row))
          /\ \E j \in 1 .. i - 1 :
               /\ cs[j].call = "JoinBuild" /\ cs[j].op = c.op
               /\ Provides(c.op, "left", c.outLeft, cs[j].row)
     /\ c.call = "Aggregation" =>
          /\ Typed(c.groupBy) /\ Provides(c.op, "key", c.keys, c.groupBy)
          /\ \A k \in DOMAIN c.granules : c.granules[k].size \in {1, 4, 8}
          /\ c.first = StateBegin(c.groupBy, c.granules)
          /\ \A k \in DOMAIN c.results : Reading(c.reads[k])

-----------------------------------------------------------------------------
(* The columns that the queries read of each relation.                     *)

lineitem == [l_orderkey |-> "i4", l_partkey |-> "i4", l_suppkey |-> "i4",
             l_quantity |-> "f8", l_extendedprice |-> "f8", l_discount |-> "f8",
             l_tax |-> "f8", l_returnflag |-> "char", l_linestatus |-> "char",
             l_shipdate |-> "date", l_commitdate |-> "date", l_receiptdate |-> "date",
             l_shipinstruct |-> "str", l_shipmode |-> "str"]
orders == [o_orderkey |-> "i4", o_custkey |-> "i4", o_orderdate |-> "date",
           o_orderpriority |-> "str", o_shippriority |-> "i4", o_comment |-> "str"]
customer == [c_custkey |-> "i4", c_nationkey |-> "i4", c_mktsegment |-> "str"]
part == [p_partkey |-> "i4", p_brand |-> "str", p_container |-> "str", p_size |-> "i4"]
supplier == [s_suppkey |-> "i4", s_nationkey |-> "i4"]
nation == [n_nationkey |-> "i4", n_name |-> "str", n_regionkey |-> "i4"]
region == [r_regionkey |-> "i4", r_name |-> "str"]

-----------------------------------------------------------------------------
(* Pieces that several queries build.                                      *)

(* A filter on one computed predicate, that keeps some columns.            *)
Where(op, expr, kid, pred, keep) ==
  LET computed == ExpressionOp(expr, kid, <<pred>>)
  IN Filter(op, computed, Columns(kid, keep), computed.outs[1])

(* One aggregate of one column.                                            *)
GroupBy(op, kid, keys, fn, col) ==
  Aggregation(op, kid, Columns(kid, keys), <<[iu |-> kid.outs[col], fn |-> fn]>>)

PrintAll(kid) == PrintOp("print", kid, kid.outs)

(* low <= iu AND iu < high, of dates.                                      *)
DateBetween(op, iu) ==
  Compute(op, "and", "And",
    <<WithParam(op, "from", "LessEqual", "date", Ref(iu)),
      WithParam(op, "to", "Greater", "date", Ref(iu))>>)

(* price * (1 - discount). Which factor is requested first differs.        *)
OneMinus(op, discount) == WithParam(op, "one_minus", "Subtract", "f8", Ref(discount))
Revenue(op, price, discount) ==
  Compute(op, "revenue", "Multiply", <<Ref(price), OneMinus(op, discount)>>)
SumRevenue(op, expr, kid, keys, price, discount) ==
  LET computed == ExpressionOp(expr, kid, <<Revenue(expr, kid.outs[price], kid.outs[discount])>>)
  IN Aggregation(op, computed, Columns(kid, keys), <<Sum(computed.outs[1])>>)

(* Concatenate: a left-deep tree of And or Or nodes.                       *)
Concatenate(op, code, branch, nodes) ==
  FoldLeft(LAMBDA top, k :
             ComputeNode(op, <<code, 10 * branch + k>>, code, "bool", <<top, nodes[k]>>),
           nodes[1], [i \in 1..(Len(nodes) - 1) |-> i + 1])

PartBranch(op, branch, brand, size, container) ==
  Concatenate(op, "And", branch,
    <<ComputeNode(op, <<"size1", branch>>, "GreaterEqual", "i4", <<size>>),
      ComputeNode(op, <<"size2", branch>>, "LessEqual", "i4", <<size>>),
      ComputeNode(op, <<"brand", branch>>, "StrEquals", "str", <<brand>>),
      ComputeNode(op, <<"container", branch>>, "InList", "str", <<container>>)>>)
LineitemBranch(op, branch, quantity) ==
  Concatenate(op, "And", branch,
    <<ComputeNode(op, <<"quantity1", branch>>, "GreaterEqual", "f8", <<quantity>>),
      ComputeNode(op, <<"quantity2", branch>>, "LessEqual", "f8", <<quantity>>)>>)

-----------------------------------------------------------------------------
(* The queries.                                                            *)

q1 ==
  LET scan == TableScan("scan", lineitem,
                <<"l_returnflag", "l_linestatus", "l_quantity", "l_extendedprice",
                  "l_discount", "l_tax", "l_shipdate">>)
      late == WithParam("filter_expr", "late", "GreaterEqual", "date", Ref(scan.outs[7]))
      filter == Where("filter", "filter_expr", scan, late, <<1, 2, 3, 4, 5, 6>>)
      Simple(c) == Compute("agg_expr", "simple", "Multiply", <<OneMinus("agg_expr", c[5]), Ref(c[4])>>)
      PlusTax(c) == WithParam("agg_expr", "plus_tax", "Add", "f8", Ref(c[6]))
      Complex(c) == Compute("agg_expr", "complex", "Multiply", <<Simple(c), PlusTax(c)>>)
      expr == ExpressionOp("agg_expr", filter, <<Simple(filter.outs), Complex(filter.outs)>>)
      Aggregates(c, e) == <<Sum(c[3]), Sum(c[4]), Sum(e[1]), Sum(e[2]),
                            Avg(c[3]), Avg(c[4]), Avg(c[5]), Count(c[3])>>
  IN PrintAll(Aggregation("agg", expr, Columns(filter, <<1, 2>>),
                Aggregates(filter.outs, expr.outs)))

(* Customers of a segment with their orders, then the orders' lineitems.   *)
q3_c_o_join ==
  LET c == TableScan("c_scan", customer, <<"c_custkey", "c_mktsegment">>)
      inSegment == WithParam("c_expr", "segment", "StrEquals", "str", Ref(c.outs[2]))
      o == TableScan("o_scan", orders,
             <<"o_orderkey", "o_custkey", "o_orderdate", "o_shippriority">>)
      early == WithParam("o_expr", "early", "Greater", "date", Ref(o.outs[3]))
  IN Join("c_o_join", "Inner",
       Where("c_filter", "c_expr", c, inSegment, <<1>>),
       Where("o_filter", "o_expr", o, early, <<1, 2, 3, 4>>),
       <<1>>, << >>, <<2>>, <<1, 3, 4>>)
q3 ==
  LET l == TableScan("l_scan", lineitem,
             <<"l_orderkey", "l_discount", "l_shipdate", "l_extendedprice">>)
      late == WithParam("l_expr", "late", "Less", "date", Ref(l.outs[3]))
      col == Join("c_o_l_join", "Inner", q3_c_o_join,
               Where("l_filter", "l_expr", l, late, <<1, 2, 4>>),
               <<3>>, <<4, 5>>, <<1>>, <<2, 3>>)
      agg == SumRevenue("agg", "agg_e", col, <<1, 2, 3>>, 6, 5)
  IN PrintOp("print", agg, Columns(agg, <<1, 4, 2, 3>>))

q4 ==
  LET o == TableScan("o_scan", orders, <<"o_orderkey", "o_orderdate", "o_orderpriority">>)
      inQuarter == DateBetween("o_expr", o.outs[2])
      l == TableScan("l_scan", lineitem, <<"l_orderkey", "l_commitdate", "l_receiptdate">>)
      overdue == Compute("l_expr", "overdue", "Less", <<Ref(l.outs[2]), Ref(l.outs[3])>>)
      ol == Join("o_l_join", "LeftSemi",
              Where("o_filter", "o_expr", o, inQuarter, <<1, 3>>),
              Where("l_filter", "l_expr", l, overdue, <<1>>),
              <<1>>, <<2>>, <<1>>, << >>)
  IN PrintAll(GroupBy("agg", ol, <<2>>, "Count", 2))

(* Region, nation, customer, orders, lineitem; then supplier with those.   *)
q5_n_c_join ==
  LET r == TableScan("region_scan", region, <<"r_regionkey", "r_name">>)
      asia == WithParam("r_expr", "asia", "StrEquals", "str", Ref(r.outs[2]))
      n == TableScan("nation_scan", nation, <<"n_nationkey", "n_regionkey", "n_name">>)
      rn == Join("r_n_join", "Inner", Where("r_filter", "r_expr", r, asia, <<1>>), n,
              <<1>>, << >>, <<2>>, <<1, 3>>)
      c == TableScan("customer_scan", customer, <<"c_custkey", "c_nationkey">>)
  IN Join("n_c_join", "Inner", rn, c, <<3>>, <<4>>, <<2>>, <<1>>)
q5_c_o_join ==
  LET o == TableScan("orders_scan", orders, <<"o_orderkey", "o_custkey", "o_orderdate">>)
      inYear == DateBetween("o_expr", o.outs[3])
  IN Join("c_o_join", "Inner", q5_n_c_join, Where("o_filter", "o_expr", o, inYear, <<1, 2>>),
       <<4>>, <<2, 3>>, <<2>>, <<1>>)
q5 ==
  LET l == TableScan("lineitem_scan", lineitem,
             <<"l_orderkey", "l_suppkey", "l_extendedprice", "l_discount">>)
      ol == Join("o_l_join", "Inner", q5_c_o_join, l, <<5>>, <<2, 3>>, <<1>>, <<2, 3, 4>>)
      s == TableScan("supplier_scan", supplier, <<"s_suppkey", "s_nationkey">>)
      sl == Join("s_l_join", "Inner", s, ol, <<1, 2>>, << >>, <<5, 3>>, <<2, 6, 7>>)
  IN PrintAll(SumRevenue("agg", "agg_expr", sl, <<5>>, 6, 7))

q6 ==
  LET scan == TableScan("scan", lineitem,
                <<"l_extendedprice", "l_discount", "l_shipdate", "l_quantity">>)
      Pred(id, code, ty, k) == WithParam("expr_node", id, code, ty, Ref(scan.outs[k]))
      And(id, a, b) == Compute("expr_node", id, "And", <<a, b>>)
      and1 == And("and_1", Pred("pred_1", "LessEqual", "date", 3), Pred("pred_2", "Greater", "date", 3))
      and2 == And("and_2", Pred("pred_3", "LessEqual", "f8", 2), Pred("pred_4", "GreaterEqual", "f8", 2))
      and4 == And("and_4", And("and_3", and1, and2), Pred("pred_5", "Greater", "f8", 4))
      filter == Where("filter", "expr_node", scan, and4, <<1, 2>>)
      Product(c) == Compute("mult_expr", "mult", "Multiply", <<Ref(c[1]), Ref(c[2])>>)
      mult == ExpressionOp("mult_expr", filter, <<Product(filter.outs)>>)
  IN PrintAll(GroupBy("agg", mult, << >>, "Sum", 1))

(* The outer join: customers with their orders, if any. Orders carry a     *)
(* constant that tells a match from no match.                              *)
q13 ==
  LET c == TableScan("c_scan", customer, <<"c_custkey">>)
      oScan == TableScan("orders_scan", orders, <<"o_custkey", "o_comment">>)
      expr == ExpressionOp("expr_node", oScan,
                <<WithParam("expr_node", "pred", "NotLikeTokens", "str", Ref(oScan.outs[2])),
                  WithParam("expr_node", "null_byte", "Constant", "u1", Ref(oScan.outs[1]))>>)
      o == Filter("filter", expr, <<oScan.outs[1], expr.outs[2]>>, expr.outs[1])
      co == Join("join", "LeftOuter", c, o, <<1>>, << >>, <<1>>, <<2>>)
      perCustomer == GroupBy("agg_1", co, <<1>>, "Count", 2)
  IN PrintAll(GroupBy("agg_2", perCustomer, <<2>>, "Count", 1))

q14 ==
  LET p == TableScan("p_scan", part, <<"p_partkey">>)
      l == TableScan("l_scan", lineitem,
             <<"l_partkey", "l_shipdate", "l_extendedprice", "l_discount">>)
      inMonth == DateBetween("l_expr", l.outs[2])
      pl == Join("p_l_join", "Inner", p, Where("l_filter", "l_expr", l, inMonth, <<1, 3, 4>>),
              <<1>>, << >>, <<1>>, <<2, 3>>)
  IN PrintAll(SumRevenue("agg", "pr_expr", pl, << >>, 3, 4))

(* Orders of a large quantity with their customers and, again, lineitems.  *)
q18_filter ==
  LET l1 == TableScan("l_1_scan", lineitem, <<"l_orderkey", "l_quantity">>)
      perOrder == GroupBy("agg", l1, <<1>>, "Sum", 2)
      large == WithParam("expr_node", "large", "Less", "f8", Ref(perOrder.outs[2]))
  IN Where("filter", "expr_node", perOrder, large, <<1>>)
q18 ==
  LET o == TableScan("o_scan", orders, <<"o_orderkey", "o_custkey">>)
      lo == Join("l_o_join", "Inner", q18_filter, o, <<1>>, << >>, <<1>>, <<2>>)
      c == TableScan("c_scan", customer, <<"c_custkey">>)
      loc == Join("l_o_c_join", "Inner", c, lo, <<1>>, << >>, <<3>>, <<2>>)
      l2 == TableScan("l_2_scan", lineitem, <<"l_orderkey", "l_quantity">>)
      locl == Join("l_o_c_l_join", "Inner", loc, l2, <<3>>, << >>, <<1>>, <<2>>)
  IN PrintAll(GroupBy("final_agg", locl, <<2>>, "Sum", 3))

q19_filter_p ==
  LET p == TableScan("scan_p", part, <<"p_partkey", "p_brand", "p_container", "p_size">>)
      Branch(b) == PartBranch("expr_p", b, Ref(p.outs[2]), Ref(p.outs[4]), Ref(p.outs[3]))
      pred == Concatenate("expr_p", "Or", 0, [b \in 1..3 |-> Branch(b)])
  IN Where("filter_p", "expr_p", p, pred, <<1, 2, 3, 4>>)
q19_filter_l ==
  LET l == TableScan("scan_l", lineitem, <<"l_partkey", "l_shipmode", "l_quantity",
             "l_shipinstruct", "l_discount", "l_extendedprice">>)
      inPerson == WithParam("expr_l", "shipinstruct", "StrEquals", "str", Ref(l.outs[4]))
      byAir == WithParam("expr_l", "shipmode", "InList", "str", Ref(l.outs[2]))
      anyOf == Concatenate("expr_l", "Or", 0,
                 [b \in 1..3 |-> LineitemBranch("expr_l", b, Ref(l.outs[3]))])
      pred == Concatenate("expr_l", "And", 0, <<inPerson, byAir, anyOf>>)
  IN Where("filter_l", "expr_l", l, pred, <<1, 3, 5, 6>>)
q19_p_l_join ==
  Join("p_l_join", "Inner", q19_filter_p, q19_filter_l, <<1>>, <<2, 3, 4>>, <<1>>, <<2, 3, 4>>)
q19 ==
  LET pl == q19_p_l_join
      Both(c, b) == Concatenate("expr_p_l", "And", 9 + b,
                      <<LineitemBranch("expr_p_l", b, Ref(c[6])),
                        PartBranch("expr_p_l", 3 + b, Ref(c[2]), Ref(c[4]), Ref(c[3]))>>)
      AnyOf(c) == Concatenate("expr_p_l", "Or", 0, [b \in 1..3 |-> Both(c, b)])
      both == Where("filter_p_l", "expr_p_l", pl, AnyOf(pl.outs), <<7, 8>>)
  IN PrintAll(SumRevenue("agg", "agg_e", both, << >>, 2, 1))

q_bigjoin ==
  LET o == TableScan("scan_o", orders, <<"o_orderkey">>)
      l == TableScan("scan_l", lineitem, <<"l_orderkey">>)
      ol == Join("o_l_join", "Inner", o, l, <<1>>, << >>, <<1>>, << >>)
  IN PrintAll(GroupBy("agg", ol, << >>, "Count", 1))

l_count ==
  PrintAll(GroupBy("agg", TableScan("scan", lineitem, <<"l_linestatus">>), << >>, "Count", 1))

l_point ==
  LET scan == TableScan("scan", lineitem, <<"l_orderkey", "l_tax">>)
      pred == WithParam("expr_node", "pred_1", "Eq", "i4", Ref(scan.outs[1]))
  IN PrintAll(Where("filter", "expr_node", scan, pred, <<2>>))

TPCH == [q1 |-> q1, q3 |-> q3, q4 |-> q4, q5 |-> q5, q6 |-> q6, q13 |-> q13, q14 |-> q14,
         q18 |-> q18, q19 |-> q19, q_bigjoin |-> q_bigjoin, l_count |-> l_count,
         l_point |-> l_point]
=============================================================================
