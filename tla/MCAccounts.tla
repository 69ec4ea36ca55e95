----------------------------- MODULE MCAccounts -----------------------------
(* Small instances of Accounts for TLC.                                    *)
EXTENDS Accounts, TLC

CONSTANTS Lower, Upper,  \* two spellings of one name
          Other          \* another name

TwoNames == {Lower, Upper, Other}
ToLower == [s \in TwoNames |-> IF s = Upper THEN Lower ELSE s]

\* Requests are alike, UUIDs are random, and no password is special.
Symmetry ==
    Permutations(Requests) \cup Permutations(Ids) \cup Permutations(Passwords)
=============================================================================
