------------------------------- MODULE Deploy -------------------------------
(***************************************************************************)
(* The remote deployment script (deploy/deploy-remote.sh) and the server   *)
(* it works on: release directories, the link to the current release, the  *)
(* containers and the schema of the database.                              *)
(*                                                                         *)
(* Runs of the script follow one another (the concurrency group of         *)
(* .github/workflows/deploy.yml), each may be cut off between two commands *)
(* or, for what takes long, in the middle of one.  Docker is external.     *)
(***************************************************************************)
EXTENDS Naturals

CONSTANTS
    Shas,    \* the commits that are released
    Ports,   \* the values of APP_PORT
    Needs,   \* the number of migrations that a release brings, all versions counted
    None

ASSUME NeedsAssumption == Needs \in [Shas -> Nat]
ASSUME NoneAssumption == None \notin Shas \cup Ports \cup [sha : Shas, port : Ports]

Steps == {"idle", "unpack", "install", "port", "build", "migrate", "up", "wait",
          "link", "record", "rollback", "rollbackWait"}
Outcomes == {"none", "killed", "refused", "kept", "restored", "unrestored",
             "stopped", "success"}
Dir == [files : {"absent", "complete"},
        port  : Ports \cup {None}]              \* .deploy-port
Service == [sha : Shas, port : Ports]

VARIABLES
    dirs,      \* releases/<sha>
    current,   \* the release that the link points to
    lastSha,   \* last-successful-sha
    running,   \* the containers of the project
    schema,    \* the version of the database
    step, sha, port, previous,   \* the script
    outcome,   \* how the last run ended
    before,    \* history: what ran when this run began
    ready      \* history: the releases that have passed the readiness check

script == <<step, sha, port, previous, outcome, before>>
vars == <<dirs, current, lastSha, running, schema, script, ready>>

Goto(s) == step' = s /\ UNCHANGED <<sha, port, previous, outcome, before>>

End(o) == step' = "idle" /\ outcome' = o /\ UNCHANGED <<sha, port, previous, before>>

-----------------------------------------------------------------------------

\* The arguments are taken, the environment is checked, and the release that is
\* current is noted unless it is the one that is deployed.
Start(s, p) ==
    /\ step = "idle"
    /\ sha' = s
    /\ port' = p
    /\ previous' = IF current = s THEN None ELSE current
    /\ before' = running
    /\ step' = IF dirs[s].files = "absent" THEN "unpack" ELSE "port"
    /\ outcome' = "none"
    /\ UNCHANGED <<dirs, current, lastSha, running, schema, ready>>

\* Faulty: the archive is unpacked where the release will be.
UnpackInPlace ==
    /\ step = "unpack"
    /\ dirs' = [dirs EXCEPT ![sha].files = "partial"]
    /\ Goto("install")
    /\ UNCHANGED <<current, lastSha, running, schema, ready>>

\* The archive is unpacked into a temporary directory.
Unpack ==
    /\ step = "unpack"
    /\ Goto("install")
    /\ UNCHANGED <<dirs, current, lastSha, running, schema, ready>>

\* What was unpacked is checked and renamed; if it lacks a file the script ends.
Install(complete) ==
    /\ step = "install"
    /\ IF complete THEN /\ dirs' = [dirs EXCEPT ![sha].files = "complete"]
                        /\ Goto("port")
       ELSE UNCHANGED dirs /\ End("refused")
    /\ UNCHANGED <<current, lastSha, running, schema, ready>>

\* The migrations are looked at, then the port is written into the release.
WritePort(paired) ==
    /\ step = "port"
    /\ IF paired THEN /\ dirs' = [dirs EXCEPT ![sha].port = port]
                      /\ Goto("build")
       ELSE UNCHANGED dirs /\ End("refused")
    /\ UNCHANGED <<current, lastSha, running, schema, ready>>

\* The Compose file is checked and the image is built.
Build(ok) ==
    /\ step = "build"
    /\ IF ok THEN Goto("migrate") ELSE End("kept")
    /\ UNCHANGED <<dirs, current, lastSha, running, schema, ready>>

\* Faulty: a failed upgrade does not stop the script.
MigrateRegardless(reached) ==
    /\ step = "migrate"
    /\ reached \in {schema} \cup schema .. Needs[sha]
    /\ schema' = reached
    /\ Goto("up")
    /\ UNCHANGED <<dirs, current, lastSha, running, ready>>

\* Faulty: the new containers are started, and then the database is upgraded.
MigrateLast(reached) ==
    /\ step = "migrate"
    /\ reached \in {schema} \cup schema .. Needs[sha]
    /\ schema' = reached
    /\ running' = [sha |-> sha, port |-> port]
    /\ IF reached = Needs[sha] \/ Needs[sha] = 0 THEN Goto("wait") ELSE End("kept")
    /\ UNCHANGED <<dirs, current, lastSha, ready>>

\* migrate up with the new image, which gets as far as it gets; a database that
\* is ahead of the release's files fails it.  No files, no upgrade.
Migrate(reached) ==
    /\ step = "migrate"
    /\ reached \in {schema} \cup schema .. Needs[sha]
    /\ schema' = reached
    /\ IF reached = Needs[sha] \/ (Needs[sha] = 0 /\ reached = schema)
       THEN Goto("up") ELSE End("kept")
    /\ UNCHANGED <<dirs, current, lastSha, running, ready>>

\* compose up.  When it fails the old containers may still run, or nothing, or
\* the new ones.
Up(ok) ==
    /\ step = "up"
    /\ LET new == [sha |-> sha, port |-> port] IN
       IF ok THEN running' = new /\ Goto("wait")
       ELSE running' \in {running, None, new} /\ Goto("rollback")
    /\ UNCHANGED <<dirs, current, lastSha, schema, ready>>

\* Faulty: the link is moved while the release is still being waited for.
WaitLinked(ok) ==
    /\ step = "wait"
    /\ current' = sha
    /\ IF ok THEN Goto("link") /\ ready' = ready \cup {sha}
       ELSE Goto("rollback") /\ UNCHANGED ready
    /\ UNCHANGED <<dirs, lastSha, running, schema>>

\* wait_for_health: sixty tries of /readyz.
Wait(ok) ==
    /\ step = "wait"
    /\ IF ok THEN Goto("link") /\ ready' = ready \cup {sha}
       ELSE Goto("rollback") /\ UNCHANGED ready
    /\ UNCHANGED <<dirs, current, lastSha, running, schema>>

\* The link is replaced in one rename.
Link ==
    /\ step = "link"
    /\ current' = sha
    /\ Goto("record")
    /\ UNCHANGED <<dirs, lastSha, running, schema, ready>>

Record ==
    /\ step = "record"
    /\ lastSha' = sha
    /\ End("success")
    /\ UNCHANGED <<dirs, current, running, schema, ready>>

\* Faulty: the previous release is restored on the port of this one.
RollbackOnThisPort(ok) ==
    /\ step = "rollback"
    /\ IF previous # None /\ dirs[previous].files # "absent" /\ dirs[previous].port # None
       THEN LET old == [sha |-> previous, port |-> port] IN
            IF ok THEN running' = old /\ Goto("rollbackWait")
            ELSE running' \in {running, None, old} /\ End("unrestored")
       ELSE /\ running' = IF ok THEN None ELSE running
            /\ End("stopped")
    /\ UNCHANGED <<dirs, current, lastSha, schema, ready>>

\* rollback_previous: the previous release is restored on its port, or, when
\* there is none to restore, the containers are taken down.
Rollback(ok) ==
    /\ step = "rollback"
    /\ IF previous # None /\ dirs[previous].files # "absent" /\ dirs[previous].port # None
       THEN LET old == [sha |-> previous, port |-> dirs[previous].port] IN
            IF ok THEN running' = old /\ Goto("rollbackWait")
            ELSE running' \in {running, None, old} /\ End("unrestored")
       ELSE /\ running' = IF ok THEN None ELSE running
            /\ End("stopped")
    /\ UNCHANGED <<dirs, current, lastSha, schema, ready>>

RollbackWait(ok) ==
    /\ step = "rollbackWait"
    /\ End(IF ok THEN "restored" ELSE "unrestored")
    /\ UNCHANGED <<dirs, current, lastSha, running, schema, ready>>

\* The script is cut off: before its next command, or in one that has done its
\* work or part of it.
Kill ==
    /\ step # "idle"
    /\ End("killed")
    /\ \/ UNCHANGED running
       \/ step \in {"up", "rollback"} /\ running' = None
       \/ step = "up" /\ running' = [sha |-> sha, port |-> port]
       \/ /\ step = "rollback" /\ previous # None /\ dirs[previous].port # None
          /\ running' = [sha |-> previous, port |-> dirs[previous].port]
    /\ schema' \in IF step = "migrate" THEN {schema} \cup schema .. Needs[sha] ELSE {schema}
    /\ UNCHANGED <<dirs, current, lastSha, ready>>

Init ==
    /\ dirs = [s \in Shas |-> [files |-> "absent", port |-> None]]
    /\ current = None /\ lastSha = None /\ running = None /\ schema = 0
    /\ step = "idle" /\ sha = None /\ port = None /\ previous = None
    /\ outcome = "none" /\ before = None
    /\ ready = {}

Next ==
    \/ \E s \in Shas, p \in Ports : Start(s, p)
    \/ Unpack \/ Link \/ Record \/ Kill
    \/ \E ok \in BOOLEAN : \/ Install(ok) \/ WritePort(ok) \/ Build(ok) \/ Up(ok)
                           \/ Wait(ok) \/ Rollback(ok) \/ RollbackWait(ok)
    \/ \E reached \in {schema} \cup UNION {schema .. Needs[s] : s \in Shas} : Migrate(reached)

Spec == Init /\ [][Next]_vars

-----------------------------------------------------------------------------
(* Properties                                                              *)

\* Every variable stays within the values the script can give it; a release
\* directory is whole or is not there (:148-160).
TypeOK ==
    /\ dirs \in [Shas -> Dir]
    /\ {current, lastSha, previous, sha} \subseteq Shas \cup {None}
    /\ {running, before} \subseteq Service \cup {None}
    /\ schema \in Nat
    /\ step \in Steps
    /\ port \in Ports \cup {None}
    /\ outcome \in Outcomes
    /\ ready \subseteq Shas

\* The link points to a release that a later run can go back to: its directory
\* is whole, it has its port, it was ready once, and the database has all of its
\* migrations (:97-105, :158, :171, :184, :199).  Runs that were cut off do not
\* break that.
CurrentIsSound ==
    current # None => /\ dirs[current].files = "complete"
                      /\ dirs[current].port # None
                      /\ current \in ready
                      /\ schema >= Needs[current]

\* No container runs on a database that lacks one of its release's migrations,
\* however runs fail, are cut off or go back (:184, :192).
SchemaSuffices ==
    running # None => schema >= Needs[running.sha]

OldKeepsRunning ==
    outcome \in {"refused", "kept"} => running = before

RestoredIsCurrent ==
    outcome = "restored" =>
        /\ current # None
        /\ running = [sha |-> current, port |-> dirs[current].port]

SuccessIsCurrent ==
    outcome = "success" =>
        /\ current = sha /\ lastSha = sha /\ dirs[sha].port = port
        /\ running = [sha |-> sha, port |-> port]

NoOtherIsCurrent ==
    outcome = "stopped" =>
        /\ current \in {None, sha}
        /\ running \in {None, before, [sha |-> sha, port |-> port]}

\* What a run says of the service when it ends is so: one that says the old
\* version goes on has not touched it (:179, :185); one that says the previous
\* version was restored leaves the current release on the port of its directory
\* (:103-106); one that succeeds leaves its own release running, linked and
\* recorded (:199-205); and one that says there is no version to go back to had
\* none but its own in the link.  Of what that one says next, that it stopped the
\* containers (:111-112), it is only so that nothing new runs: where down failed,
\* which is not looked at, its own containers or those from before it still do, and
\* where down worked it stopped those of another release that was never linked, too.
OutcomeIsTrue ==
    OldKeepsRunning /\ RestoredIsCurrent /\ SuccessIsCurrent /\ NoOtherIsCurrent

\* The script, however it fails or is cut off, does to the link, the containers
\* and the schema only what Rollout allows (:182-201).
Promise == INSTANCE Rollout
ImplementsRollout == Promise!Spec
=============================================================================
