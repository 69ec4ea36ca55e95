-------------------------------- MODULE Main --------------------------------
(***************************************************************************)
(* The program (main.go): its first argument makes it the migration        *)
(* command or the HTTP server, which share the handling of signals and     *)
(* nothing else that is modelled.  A behaviour is either some migration    *)
(* commands on one database or the life of one server.                     *)
(***************************************************************************)
EXTENDS MigrationRunner

CONSTANTS Requests

VARIABLES
    command,   \* what run has chosen
    step, cancelled, shutdown, pool, cache, pg, rd, req

server == <<step, cancelled, shutdown, pool, cache, pg, rd, req>>
mainVars == <<command, vars, server>>

App == INSTANCE AppLifecycle

MainInit == command = "none" /\ Init /\ App!Init

Run(c) ==
    /\ command = "none"
    /\ command' = c
    /\ UNCHANGED <<vars, server>>

Migrating(A) == command = "migrate" /\ A /\ UNCHANGED <<command, server>>
Serving(A) == command = "server" /\ A /\ UNCHANGED <<command, vars>>

MainNext == Run("migrate") \/ Run("server") \/ Migrating(Next) \/ Serving(App!Next)

\* The fairness of the one that was chosen.
MainFairness ==
    /\ \A p \in Procs : /\ WF_mainVars(Migrating(Progress(p)))
                        /\ WF_mainVars(Migrating(Watcher(p)))
    /\ WF_mainVars(Serving(App!Run))
    /\ \A q \in Requests : SF_mainVars(Serving(App!Handle(q)))

MainSpec == MainInit /\ [][MainNext]_mainVars /\ MainFairness

-----------------------------------------------------------------------------
(* The server's properties                                                 *)

\* The type invariant of AppLifecycle and of MigrationRunner.
TypesOK == TypeOK /\ App!TypeOK

\* What the server has opened it closes once (data.go:32-34, app.go:32-36).
ClosedExactlyOnce == App!ClosedExactlyOnce

\* Requests meet open resources until a signal comes (app.go:28-52).
ServesOnlyOpen == App!ServesOnlyOpen

\* readyz tells the truth about both services (data.go:58-67).
ReadyIsTrue == App!ReadyIsTrue

\* A signal ends the server, unless it came before the listener (main.go:40,
\* server.go:66-70).
SignalEndsProcess == App!SignalEndsProcess

\* readyz is always answered, ping unless PostgreSQL hangs for good
\* (health/api.go:73-97).
ProbesAnswer == App!ProbesAnswer
=============================================================================
