---------------------------- MODULE MCAccounts ----------------------------
(* Two requests of any kind against at most two accounts, two usernames  *)
(* (interchangeable) and one identity provider.                            *)
EXTENDS Accounts, TLC

Symmetric == Permutations(Requests) \cup Permutations(Names) \cup Permutations(Old)
=============================================================================
