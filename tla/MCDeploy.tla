------------------------------ MODULE MCDeploy ------------------------------
(* A small instance of Deploy for TLC: three releases in a row, the first  *)
(* without migrations, each of the others with one more.                   *)
EXTENDS Deploy, TLC

CONSTANTS r1, r2, r3

MCShas == {r1, r2, r3}
MCNeeds == (r1 :> 0) @@ (r2 :> 1) @@ (r3 :> 2)

Symmetry == Permutations(Ports)
=============================================================================
