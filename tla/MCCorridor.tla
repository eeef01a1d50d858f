----------------------------- MODULE MCCorridor -----------------------------
(* TLC instances of OpeningCorridor. *)
EXTENDS OpeningCorridor, TLC

\* Every strategy trades its own symbol.
OwnSymbol == [s \in Strategy |-> s]

Symmetry ==
  Permutations(Strategy) \cup Permutations(Approval) \cup Permutations(Attempt)

=============================================================================
