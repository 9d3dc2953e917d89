----------------------------- MODULE MCSettings -----------------------------
EXTENDS Settings, TLC

CONSTANTS r1, r2, c1

MCRequests == {r1, r2}
MCCommands == {c1}
Symmetry == Permutations(MCRequests)
=============================================================================
