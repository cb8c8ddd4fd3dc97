---------------------------- MODULE MCAccounts ----------------------------
EXTENDS Accounts, TLC

CONSTANTS r1, r2

Symmetry == Permutations({r1, r2})
=============================================================================
