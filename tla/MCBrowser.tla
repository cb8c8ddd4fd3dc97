----------------------------- MODULE MCBrowser -----------------------------
EXTENDS Browser, TLC

CONSTANTS c1, c2, c3, t1, t2

\* Two calls of one tab and one of another.
MCTabOf == [c \in {c1, c2, c3} |-> IF c = c3 THEN t2 ELSE t1]
Symmetry == Permutations({c1, c2})
=============================================================================
