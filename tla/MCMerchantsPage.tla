-------------------------- MODULE MCMerchantsPage --------------------------
EXTENDS MerchantsPage, TLC

CONSTANTS m1, m2, c1, e1, e2, r1, r2

\* Bodies of the documented fields, of a status alone, and of a status with a
\* deletedAt: one that deletes, and one that undoes it, for customers.
MCShapes ==
  {[email |-> TRUE, status |-> "none", deletedAt |-> "kept"],
   [email |-> FALSE, status |-> "ACTIVE", deletedAt |-> "kept"],
   [email |-> FALSE, status |-> "ACTIVE", deletedAt |-> "set"],
   [email |-> FALSE, status |-> "BLOCKED", deletedAt |-> "cleared"]}

\* Merchants, e-mail addresses and requests are interchangeable.
Symmetry == Permutations(Merchant) \cup Permutations(Email) \cup Permutations(Req)
=============================================================================
