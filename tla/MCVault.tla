------------------------------ MODULE MCVault ------------------------------
\* Vault with three sets of permissions that cover all seven.
EXTENDS Vault, TLC

MCGrants == {{}, {"N2NCOMM_GROUP", "READ_OUR", "CHG_OUR", "ADD"},
             {"N2NCOMM_ANY", "READ_ANY", "CHG_ANY"}}
Symmetry == Permutations(Nodes) \cup Permutations(Tokens)
=============================================================================
