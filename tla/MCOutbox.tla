------------------------------- MODULE MCOutbox -------------------------------
(* Instances of Outbox for TLC. *)
EXTENDS Outbox, TLC

\* Publisher runs are interchangeable.
Symmetry == Permutations(Runner)
=============================================================================
