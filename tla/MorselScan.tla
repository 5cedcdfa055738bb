----------------------------- MODULE MorselScan -----------------------------
(***************************************************************************)
(* What running a pipeline promises to the query that started it, whatever *)
(* backend executes it and however many workers take part: every row of    *)
(* the source goes through the pipeline at most once, in batches of one    *)
(* worker at a time; what a batch leaves in the worker's sink reaches the  *)
(* output once, cut off at the row limit; and the pipeline returns only    *)
(* when all rows went through and all sinks are drained, or the limit is   *)
(* used up.                                                                *)
(***************************************************************************)
EXTENDS Integers

CONSTANTS Workers,    (* the threads that may take part                    *)
          NumRows,    (* the rows of the pipeline's source                 *)
          NoLimit     (* `allowed` of a query without a row limit          *)

VARIABLES times,      (* how often each row went through the pipeline      *)
          sink,       (* rows each worker has produced but not yet emitted *)
          emitted,    (* rows in the output                                *)
          allowed,    (* the row limit of the query                        *)
          returned    (* the pipeline has returned to the query            *)

vars == <<times, sink, emitted, allowed, returned>>

Rows == 0 .. NumRows - 1

Exhausted == allowed # NoLimit /\ emitted = allowed

Init ==
  /\ times = [r \in Rows |-> 0]
  /\ sink = [w \in Workers |-> 0]
  /\ emitted = 0
  /\ allowed \in Nat \cup {NoLimit}
  /\ returned = FALSE

(* Worker w sends the rows first .. next - 1 through the pipeline, some of *)
(* them survive.                                                           *)
Execute(w, first, next) ==
  /\ ~returned
  /\ sink[w] = 0
  /\ \A r \in first .. next - 1 : times[r] = 0
  /\ times' = [r \in Rows |-> IF first <= r /\ r < next THEN 1 ELSE times[r]]
  /\ sink'[w] \in 0 .. next - first
  /\ sink' = [sink EXCEPT ![w] = sink'[w]]
  /\ UNCHANGED <<emitted, allowed, returned>>

Emit(w) ==
  /\ ~returned
  /\ emitted' = IF allowed = NoLimit \/ emitted + sink[w] <= allowed
                  THEN emitted + sink[w]
                  ELSE allowed
  /\ sink' = [sink EXCEPT ![w] = 0]
  /\ UNCHANGED <<times, allowed, returned>>

Return ==
  /\ Exhausted \/ \A r \in Rows : times[r] = 1
  /\ \A w \in Workers : sink[w] = 0
  /\ returned' = TRUE
  /\ UNCHANGED <<times, sink, emitted, allowed>>

Next ==
  \/ \E w \in Workers, first \in Rows, next \in 1 .. NumRows : Execute(w, first, next)
  \/ \E w \in Workers : Emit(w)
  \/ Return

Spec == Init /\ [][Next]_vars
=============================================================================
