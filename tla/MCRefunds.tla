------------------------------ MODULE MCRefunds ------------------------------
(* Instances of Refunds for TLC. *)
EXTENDS Refunds, TLC

CONSTANT p1

\* A payment of three units.
MCAmountOf == [p \in Payment |-> 3]

Exact(values) == {[value |-> v, exact |-> TRUE] : v \in values}

\* What the validator that nothing calls would let through.
Ordinary == Exact({1, 2, 3})

\* Those, a negative amount, and one that is no number of whole units.
Unvalidated == Exact({-3, 1, 2, 3}) \cup {[value |-> 2, exact |-> FALSE]}

\* Refund requests are interchangeable.
Symmetry == Permutations(Refunder)
=============================================================================
