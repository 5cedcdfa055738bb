------------------------------ MODULE MCBackends ------------------------------
(* The TPC-H plans, each on one thread and on several, except the one that *)
(* the run outer_join_plan is about; the program begins with l_count. And  *)
(* a plan that prints what it scans.                                       *)
EXTENDS Backends, QueryPlans

Queries == {"q1", "q3", "q4", "q5", "q6", "q13", "q14", "q18", "q19",
            "q_bigjoin", "l_count", "l_point"}
CompleteRuns == (Queries \X {1, 2}) \ {<<"q13", 2>>}

OnePlan == {l_count}

ScanAndPrint ==
  LET scan == TableScan("scan", lineitem, <<"l_orderkey">>)
  IN [scan_print |-> PrintOp("print", scan, scan.outs)]
ScanAndPrintRuns == {<<"scan_print", 1>>}

(* The rows of these plans are laid out as joins and aggregations do; this *)
(* is what the theorem on RowsAgree assumes of a plan.                     *)
ASSUME RowsLaidOut ==
  \A r \in Runs : \A i \in DOMAIN Plans[r[1]].calls : LaidOut(Plans[r[1]].calls, i)
=============================================================================
