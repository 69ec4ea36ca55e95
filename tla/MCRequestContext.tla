-------------------------- MODULE MCRequestContext --------------------------
(* Small instances of RequestContext for TLC.                              *)
EXTENDS RequestContext, TLC

\* The realms, the users and the tokens are alike.
Symmetry ==
    Permutations(Tokens) \cup Permutations(Users) \cup Permutations(Realms)
=============================================================================
