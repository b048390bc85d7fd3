------------------------------ MODULE MCCliRun ------------------------------
(* Two agents that want two paths in opposite orders, so that a refusal    *)
(* keeps a place in a queue, and one that depends on the first and may     *)
(* lack its tools.                                                         *)
EXTENDS CliRun, TLC

CONSTANTS a1, a2, a3, f1, f2

MCAgent == {a1, a2, a3}
MCFile == {f1, f2}
MCWrites == (a1 :> <<f2, f1>>) @@ (a2 :> <<f1, f2>>) @@ (a3 :> <<>>)
MCReads == [a \in MCAgent |-> <<>>]
MCEdges == {<<a1, a3>>}

=============================================================================
