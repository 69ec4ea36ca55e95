-------------------------- MODULE MigrationRunner --------------------------
(***************************************************************************)
(* The migration command (internal/migration, main.go:62): runs of up and  *)
(* down against one database, each with the goroutine that hands the       *)
(* process's cancellation to golang-migrate.                               *)
(*                                                                         *)
(* golang-migrate is external: an advisory lock around the operation, the  *)
(* version marked dirty before a migration and clean after it, a stop      *)
(* channel of capacity one that is looked at between migrations.           *)
(***************************************************************************)
EXTENDS Naturals

CONSTANTS
    Procs,    \* processes that run the command
    Latest,   \* the number of migrations, which is the latest version
    MaxSteps  \* bounds the argument of down

ASSUME BoundsAssumption == Latest \in Nat /\ MaxSteps \in Nat

Phases == {"idle", "lock", "version", "loop", "migrating", "clean", "unlock",
           "result", "close"}
Results == {"none", "ok", "error", "cancelled"}

ProcRecord ==
    [phase     : Phases,
     action    : {"none", "up", "down", "version"},
     left      : Nat,                  \* migrations that down has still to undo
     cancelled : BOOLEAN,              \* the process's context
     stop      : BOOLEAN,              \* what GracefulStop holds
     completed : BOOLEAN,              \* the channel is closed
     watcher   : {"none", "waiting", "sending"},   \* the goroutine
     err       : {"none", "ok", "error"},          \* what the operation returned
     done      : BOOLEAN,              \* history: it did all that was asked for
     result    : Results]

VARIABLES
    version, dirty,   \* the table schema_migrations; version 0 is no version
    holder,           \* who has the advisory lock
    proc,
    hurt              \* history: a migration failed, or its process was killed

vars == <<version, dirty, holder, proc, hurt>>
database == <<version, dirty, holder, hurt>>

Nobody == "nobody"

ASSUME NobodyAssumption == Nobody \notin Procs

Idle == [phase |-> "idle", action |-> "none", left |-> 0, cancelled |-> FALSE,
         stop |-> FALSE, completed |-> FALSE, watcher |-> "none", err |-> "none",
         done |-> FALSE, result |-> "none"]

\* What is left of a process: how it ended, and its watcher until that ends too.
Rest(q) ==
    IF q.phase # "idle" THEN q
    ELSE IF q.watcher = "none" THEN [Idle EXCEPT !.result = q.result, !.done = q.done]
    ELSE [q EXCEPT !.action = "none", !.left = 0, !.err = "none"]

\* One process takes a step from a phase.
Step(p, from, new) ==
    proc[p].phase = from /\ proc' = [proc EXCEPT ![p] = new]

-----------------------------------------------------------------------------
(* The command                                                             *)

\* What the command line may ask for; down goes back one version by default.
Accepted(action, steps) == action = "down" => steps > 0

\* A process begins: it may refuse the argument, fail to open, or start the
\* watcher and the operation.
Start(p, action, steps, opened) ==
    /\ proc[p].phase = "idle" /\ proc[p].watcher = "none"
    /\ proc' = [proc EXCEPT ![p] =
         IF ~Accepted(action, steps) \/ ~opened
         THEN [Idle EXCEPT !.action = action, !.result = "error"]
         ELSE [Idle EXCEPT !.action = action, !.phase = "lock", !.watcher = "waiting",
                           !.left = IF action = "down" THEN steps ELSE 0]]
    /\ UNCHANGED database

\* The version command reads the version without the lock.
Current(p, ok) ==
    /\ proc[p].phase = "idle" /\ proc[p].watcher = "none"
    /\ proc' = [proc EXCEPT ![p] = [Idle EXCEPT !.action = "version", !.done = ok,
                                               !.result = IF ok THEN "ok" ELSE "error"]]
    /\ UNCHANGED database

\* SIGTERM or an interrupt.
Cancel(p) ==
    /\ proc[p].phase # "idle" /\ ~proc[p].cancelled
    /\ proc' = [proc EXCEPT ![p].cancelled = TRUE]
    /\ UNCHANGED database

\* The watcher sees the end of the context or the end of the operation.
Watch(p) ==
    /\ proc[p].watcher = "waiting"
    /\ \/ proc[p].cancelled /\ proc' = [proc EXCEPT ![p].watcher = "sending"]
       \/ proc[p].completed /\ proc' = [proc EXCEPT ![p] = Rest([@ EXCEPT !.watcher = "none"])]
    /\ UNCHANGED database

\* Faulty: the command does not wait for the operation once it is cancelled.
SendAndLeave(p) ==
    /\ proc[p].watcher = "sending"
    /\ proc' = [proc EXCEPT ![p] = [Idle EXCEPT !.result = "cancelled"]]
    /\ holder' = IF holder = p THEN Nobody ELSE holder
    /\ UNCHANGED <<version, dirty, hurt>>

\* It sends to GracefulStop, unless that is full, or gives up at the end.
Send(p) ==
    /\ proc[p].watcher = "sending"
    /\ \/ /\ ~proc[p].stop
          /\ proc' = [proc EXCEPT ![p] = Rest([@ EXCEPT !.watcher = "none", !.stop = TRUE])]
       \/ proc[p].completed /\ proc' = [proc EXCEPT ![p] = Rest([@ EXCEPT !.watcher = "none"])]
    /\ UNCHANGED database

\* Faulty: what the context says is not asked for.
ResultWithoutContext(p) ==
    LET q == proc[p] IN
    /\ Step(p, "result", [q EXCEPT !.phase = "close", !.completed = TRUE, !.result = q.err])
    /\ UNCHANGED database

\* Faulty: completed stays open.
ResultOpen(p) ==
    LET q == proc[p] IN
    /\ Step(p, "result",
            [q EXCEPT !.phase = "close",
                      !.result = IF q.err = "ok" /\ q.cancelled THEN "cancelled" ELSE q.err])
    /\ UNCHANGED database

\* execute returns the operation's error, or else the context's, and closes
\* completed.
Result(p) ==
    LET q == proc[p] IN
    /\ Step(p, "result",
            [q EXCEPT !.phase = "close", !.completed = TRUE,
                      !.result = IF q.err = "ok" /\ q.cancelled THEN "cancelled" ELSE q.err])
    /\ UNCHANGED database

\* closeInstance joins the errors of closing to the result.
Close(p, ok) ==
    /\ Step(p, "close", Rest([proc[p] EXCEPT !.phase = "idle",
                                             !.result = IF ok THEN @ ELSE "error"]))
    /\ UNCHANGED database

-----------------------------------------------------------------------------
(* golang-migrate                                                          *)

Lock(p) ==
    /\ holder = Nobody
    /\ Step(p, "lock", [proc[p] EXCEPT !.phase = "version"])
    /\ holder' = p
    /\ UNCHANGED <<version, dirty, hurt>>

LockTimeout(p) ==
    /\ holder # Nobody
    /\ Step(p, "lock", [proc[p] EXCEPT !.phase = "result", !.err = "error"])
    /\ UNCHANGED database

\* A dirty database is refused.
ReadVersion(p, ok) ==
    /\ Step(p, "version",
            IF dirty \/ ~ok THEN [proc[p] EXCEPT !.phase = "unlock", !.err = "error"]
            ELSE [proc[p] EXCEPT !.phase = "loop"])
    /\ UNCHANGED database

More(q) == IF q.action = "up" THEN version < Latest ELSE q.left > 0

\* The loop ends: nothing is left, what is left does not exist, or the stop
\* channel was found full.
LoopEnds(p) ==
    LET q == proc[p] IN
    /\ ~More(q) \/ (q.action = "down" /\ version = 0) \/ q.stop
    /\ Step(p, "loop",
            [q EXCEPT !.phase = "unlock", !.done = ~More(q),
                      !.err = IF q.action = "down" /\ More(q) /\ ~q.stop THEN "error" ELSE "ok"])
    /\ UNCHANGED database

\* Faulty: going down does not stop at the first version.
BeginBelowZero(p) ==
    LET q == proc[p] IN
    /\ More(q) /\ ~q.stop
    /\ version' = IF q.action = "up" THEN version + 1 ELSE version - 1
    /\ dirty' = TRUE
    /\ Step(p, "loop", [q EXCEPT !.phase = "migrating",
                                 !.left = IF q.action = "down" THEN @ - 1 ELSE @])
    /\ UNCHANGED <<holder, hurt>>

\* The target version is recorded as dirty.
Begin(p) ==
    LET q == proc[p] IN
    /\ More(q) /\ ~q.stop
    /\ IF q.action = "up" THEN version' = version + 1
       ELSE version > 0 /\ version' = version - 1
    /\ dirty' = TRUE
    /\ Step(p, "loop", [q EXCEPT !.phase = "migrating",
                                 !.left = IF q.action = "down" THEN @ - 1 ELSE @])
    /\ UNCHANGED <<holder, hurt>>

Migrate(p, ok) ==
    /\ Step(p, "migrating", IF ok THEN [proc[p] EXCEPT !.phase = "clean"]
                            ELSE [proc[p] EXCEPT !.phase = "unlock", !.err = "error"])
    /\ hurt' = (hurt \/ ~ok)
    /\ UNCHANGED <<version, dirty, holder>>

Clean(p) ==
    /\ Step(p, "clean", [proc[p] EXCEPT !.phase = "loop"])
    /\ dirty' = FALSE
    /\ UNCHANGED <<version, holder, hurt>>

Unlock(p) ==
    /\ Step(p, "unlock", [proc[p] EXCEPT !.phase = "result"])
    /\ holder' = Nobody
    /\ UNCHANGED <<version, dirty, hurt>>

\* The process is killed; its connection's lock goes with it.
Kill(p) ==
    /\ proc[p].phase # "idle"
    /\ proc' = [proc EXCEPT ![p] = Idle]
    /\ holder' = IF holder = p THEN Nobody ELSE holder
    /\ hurt' = (hurt \/ proc[p].phase \in {"migrating", "clean"})
    /\ UNCHANGED <<version, dirty>>

\* An operator has compared the structure with the files and set it right.
Repair ==
    /\ dirty /\ holder = Nobody
    /\ dirty' = FALSE
    /\ hurt' = FALSE
    /\ UNCHANGED <<version, holder, proc>>

-----------------------------------------------------------------------------

Init ==
    /\ version = 0 /\ dirty = FALSE /\ holder = Nobody /\ hurt = FALSE
    /\ proc = [p \in Procs |-> Idle]

\* What a running process does by itself, as long as the database answers.
Progress(p) ==
    \/ Lock(p) \/ LockTimeout(p) \/ LoopEnds(p) \/ Begin(p) \/ Clean(p)
    \/ Unlock(p) \/ Result(p)
    \/ \E ok \in BOOLEAN : ReadVersion(p, ok) \/ Migrate(p, ok) \/ Close(p, ok)

Watcher(p) == Watch(p) \/ Send(p)

Next ==
    \/ \E p \in Procs : Progress(p) \/ Watcher(p) \/ Cancel(p) \/ Kill(p)
    \/ \E p \in Procs, steps \in 0 .. MaxSteps, opened \in BOOLEAN :
         Start(p, "down", steps, opened) \/ Start(p, "up", 0, opened) \/ Current(p, opened)
    \/ Repair

Spec == Init /\ [][Next]_vars

\* A process that is not killed runs on and its goroutines are scheduled; nobody
\* has to start, cancel or kill one.
Fairness == \A p \in Procs : WF_vars(Progress(p)) /\ WF_vars(Watcher(p))

FairSpec == Spec /\ Fairness

-----------------------------------------------------------------------------
(* Properties                                                              *)

\* Every variable stays within the values the code can give it.
TypeOK ==
    /\ version \in 0 .. Latest
    /\ dirty \in BOOLEAN
    /\ hurt \in BOOLEAN
    /\ holder \in Procs \cup {Nobody}
    /\ proc \in [Procs -> ProcRecord]

\* A command that reports success has run every migration that it was asked for;
\* one that was stopped between two, refused by a dirty version or timed out on
\* the lock never does (migration.go:137-144).  When an operation that returned no
\* error gives back the lock the version is clean, and after an up that was not
\* stopped it is the latest.
SuccessMeansDone ==
    \A p \in Procs :
        LET q == proc[p] IN
        /\ q.result = "ok" => q.done
        /\ q.phase = "unlock" /\ q.err = "ok" =>
              ~dirty /\ (q.action = "up" /\ ~q.cancelled => version = Latest)

\* "以便在安全点停止" (migration.go:34): cancelling never leaves a migration half
\* done.  While nobody holds the lock, the version is dirty only if a migration
\* failed or its process was killed.
StopIsSafe ==
    dirty /\ holder = Nobody => hurt

Ended(p) == proc[p].phase = "idle" /\ proc[p].watcher = "none"

\* Every command that is begun comes to its end and so does its watching
\* goroutine, cancelled or not, however the end and the cancellation race, and
\* also when another command holds the lock (migration.go:122-145).
CommandEnds == \A p \in Procs : ~Ended(p) ~> Ended(p)
=============================================================================
