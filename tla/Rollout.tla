------------------------------ MODULE Rollout ------------------------------
(***************************************************************************)
(* What a deployment promises, whatever fails on the way: the schema only  *)
(* goes forward, nothing is started on a schema that is too old for it,    *)
(* and the current release is one that was started.                        *)
(***************************************************************************)
EXTENDS Naturals

CONSTANTS Shas, Ports, Needs, None

VARIABLES current, running, schema

vars == <<current, running, schema>>

Init == current = None /\ running = None /\ schema = 0

Upgrade ==
    /\ schema' \in Nat /\ schema' > schema
    /\ UNCHANGED <<current, running>>

\* A release is started, for the first time or again, in place of what ran.
Run(sha, port) ==
    /\ schema >= Needs[sha]
    /\ running' = [sha |-> sha, port |-> port]
    /\ UNCHANGED <<current, schema>>

Down ==
    /\ running' = None
    /\ UNCHANGED <<current, schema>>

\* What runs becomes the release to go back to.
Publish ==
    /\ running # None
    /\ current' = running.sha
    /\ UNCHANGED <<running, schema>>

Next ==
    \/ \E sha \in Shas, port \in Ports : Run(sha, port)
    \/ Upgrade \/ Down \/ Publish

Spec == Init /\ [][Next]_vars
=============================================================================
