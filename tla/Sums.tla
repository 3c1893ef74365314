-------------------------------- MODULE Sums --------------------------------
(***************************************************************************)
(* Sums of natural numbers over a set, counted rather than folded: no      *)
(* order in which the members are added plays a part.                      *)
(***************************************************************************)
EXTENDS Integers, FiniteSets

\* The sum of the natural numbers f[x], x in S, as the number of their units.
UnitsOf(f, S) == UNION {{x} \X (1..f[x]) : x \in S}
Total(f, S) == Cardinality(UnitsOf(f, S))

=============================================================================
