--------------------------- MODULE MCWorkingTree ---------------------------
(* A small instance of WorkingTree for TLC: one module between two new     *)
(* ones, three files that name the project.                                *)
EXTENDS WorkingTree, TLC

MCInstalled == <<[domain |-> 2, realm |-> "app", id |-> OldId]>>
MCPaths == {1, 2, 3}

Symmetry == Permutations(Commands) \cup Permutations(Names)
=============================================================================
