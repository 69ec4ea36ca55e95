------------------------------- MODULE MCMain -------------------------------
(* Small instances of Main for TLC.                                        *)
EXTENDS Main
=============================================================================
