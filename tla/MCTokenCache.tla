---------------------------- MODULE MCTokenCache ----------------------------
(* The token cache on a small instance.                                     *)
EXTENDS TokenCache, TLC

\* Nothing distinguishes users, browsers or requests.
Symmetric == Permutations(Users) \cup Permutations(Browsers) \cup Permutations(Requests)
=============================================================================
