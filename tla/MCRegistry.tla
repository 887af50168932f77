----------------------------- MODULE MCRegistry -----------------------------
\* Registry with interchangeable nodes and tokens.
EXTENDS Registry, TLC

Symmetry == Permutations(Nodes) \cup Permutations(Tokens)
=============================================================================
