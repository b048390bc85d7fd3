------------------------------ MODULE MCTuiRun ------------------------------
(* Three agents that write both paths, the first of them in the other      *)
(* order: when one ends, each of the others can be handed one of its paths, *)
(* and they wait for each other.  a4 depends on a3 and uses no file.       *)
EXTENDS TuiRun, TLC

CONSTANTS a1, a2, a3, a4, f1, f2

MCAgent == {a1, a2, a3, a4}
MCFile == {f1, f2}
MCWrites ==
  (a1 :> <<f2, f1>>) @@ (a2 :> <<f1, f2>>) @@ (a3 :> <<f1, f2>>) @@ (a4 :> <<>>)
MCReads == [a \in MCAgent |-> <<>>]
MCEdges == {<<a3, a4>>}

=============================================================================
