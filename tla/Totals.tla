------------------------------- MODULE Totals -------------------------------
(***************************************************************************)
(* Sums of natural numbers over a finite set, counted unit by unit rather  *)
(* than folded, so that what holds of them can be proved.                  *)
(***************************************************************************)
EXTENDS Integers, FiniteSets

\* Of each member of the domain, as many units as its number says.
Units(f) == UNION {{x} \X (1 .. f[x]) : x \in DOMAIN f}

\* sum(...) over rows, orders or contracts.
Total(f) == Cardinality(Units(f))
=============================================================================
