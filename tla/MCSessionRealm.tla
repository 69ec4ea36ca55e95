--------------------------- MODULE MCSessionRealm ---------------------------
(* Small instances of SessionRealm for TLC.                                *)
EXTENDS SessionRealm, TLC

\* Tokens are random and requests are alike: neither is told from another.
Symmetry == Permutations(Tokens) \cup Permutations(Requests)
=============================================================================
