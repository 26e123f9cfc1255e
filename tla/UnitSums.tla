------------------------------ MODULE UnitSums ------------------------------
(***************************************************************************)
(* Sums of natural-valued functions over a finite set, written as the size *)
(* of a set of units instead of by recursion, so that the provers can      *)
(* reason about them with the facts of FiniteSetTheorems.                  *)
(***************************************************************************)
EXTENDS Naturals, FiniteSets

\* One pair <<x, i>> for every unit 1..f[x] of every x in S.
Units(S, f) == UNION {{x} \X (1..f[x]) : x \in S}

\* The sum of f over S.
Total(S, f) == Cardinality(Units(S, f))

\* The members of S at which f is not zero.
Support(S, f) == {x \in S : f[x] > 0}
=============================================================================
