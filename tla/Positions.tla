------------------------------ MODULE Positions ------------------------------
(***************************************************************************)
(* The elements that a sequence has at some of its positions, in order:    *)
(* what SelectSeq gives, said by where they are; and its last elements.    *)
(***************************************************************************)
EXTENDS Naturals, Sequences, FiniteSets

(* The n-th of a set of numbers: n - 1 of them are smaller.                *)
Nth(S, n) == CHOOSE i \in S : Cardinality({j \in S : j < i}) = n - 1

Pick(s, S) == [n \in 1..Cardinality(S) |-> s[Nth(S, n)]]

(* What a loop over s has made of `first` after each turn.                 *)
Along(s, first, Turn(_, _)) ==
  LET made[i \in 0..Len(s)] == IF i = 0 THEN first ELSE Turn(made[i - 1], s[i])
  IN made

LastOf(s, n) == IF Len(s) <= n THEN s ELSE SubSeq(s, Len(s) - n + 1, Len(s))
=============================================================================
