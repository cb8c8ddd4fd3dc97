----------------------------- MODULE MCPayments -----------------------------
(* Instances of Payments for TLC. *)
EXTENDS Payments, TLC

CONSTANTS r1, r2, r3, k1, k2

\* Every request carries the same key: a client that sends again.
OneKey == [r \in Request |-> k1]

\* Two requests share a key and the third has its own.
TwoKeys == [r \in Request |-> IF r = r3 THEN k2 ELSE k1]

\* Slots and cancel requests are interchangeable, and so are the two create
\* requests that share a key.
Symmetry == Permutations(Slot) \cup Permutations(Canceller) \cup Permutations({r1, r2})
=============================================================================
