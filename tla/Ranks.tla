-------------------------------- MODULE Ranks --------------------------------
(***************************************************************************)
(* The elements of a set of numbers in their order, and the values that a  *)
(* function has under them: what iterating over the sorted keys of a map   *)
(* or of a database gives.                                                 *)
(***************************************************************************)
EXTENDS Integers, FiniteSets

Below(S, k) == {j \in S : j < k}

\* The element of S with i - 1 elements below it.
OfRank(S, i) == {k \in S : Cardinality(Below(S, k)) = i - 1}
Nth(S, i) == CHOOSE k \in OfRank(S, i) : TRUE

\* The values of f under the keys in S, in the order of the keys.
Listed(f, S) == [i \in 1..Cardinality(S) |-> f[Nth(S, i)]]
=============================================================================
