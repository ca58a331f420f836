-------------------------- MODULE MCPasswordReset --------------------------
EXTENDS PasswordReset, TLC
Symmetric == Permutations(Confirms) \cup Permutations(Requests)
               \cup Permutations(Logins) \cup Permutations(Tokens)
=============================================================================
