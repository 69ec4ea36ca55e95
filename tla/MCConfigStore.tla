--------------------------- MODULE MCConfigStore ---------------------------
(* A small instance of ConfigStore for TLC: one key in two spellings, one  *)
(* spelling that is no key, two values and one that is not JSON.           *)
EXTENDS ConfigStore, TLC

CONSTANTS Lower, Upper, Bad, NotJSON

MCSpellings == {Lower, Upper, Bad}
ToLower == [s \in MCSpellings |-> IF s = Upper THEN Lower ELSE s]
MCKeys == {Lower}
MCValues == JSON \cup {NotJSON}

Symmetry == Permutations(Requests) \cup Permutations(JSON)
=============================================================================
