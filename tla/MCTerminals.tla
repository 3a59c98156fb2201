----------------------------- MODULE MCTerminals -----------------------------
EXTENDS Terminals, TLC
CONSTANTS f1, f2, c1
Symmetry == Permutations(Folders)
==============================================================================
