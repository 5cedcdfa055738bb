---------------------------- MODULE MCPipelineDAG ----------------------------
(* Plans with outer joins: the one of TPC-H, on more than one thread; one  *)
(* that joins nations with customers with orders, if any; and customers    *)
(* with their orders, if any, that are printed.                            *)
EXTENDS PipelineDAG, QueryPlans

CustomersWithOrders ==
  Join("c_o_join", "LeftOuter",
    TableScan("c_scan", customer, <<"c_custkey", "c_nationkey">>),
    TableScan("o_scan", orders, <<"o_orderkey", "o_custkey">>), <<1>>, <<2>>, <<2>>, <<1>>)
NationsWithThose ==
  Join("n_c_o_join", "LeftOuter",
    TableScan("n_scan", nation, <<"n_nationkey">>), CustomersWithOrders,
    <<1>>, << >>, <<2>>, <<4>>)
OuterJoins ==
  TPCH @@ "two_outer_joins" :> PrintAll(GroupBy("agg", NationsWithThose, <<1>>, "Count", 3))
       @@ "printed_outer_join" :> PrintAll(CustomersWithOrders)

OuterJoinOnThreads == {<<"q13", 2>>}
TwoOuterJoins == {<<"two_outer_joins", 1>>}
PrintedOuterJoin == {<<"printed_outer_join", 1>>}
=============================================================================
