----------------------------- MODULE MCAccounts -----------------------------
EXTENDS Accounts, TLC

CONSTANTS i1, i2, s1, s2, c1, c2

SymmetryAccounts == Permutations({i1, i2}) \union Permutations({s1, s2}) \union Permutations({c1, c2})
=============================================================================
