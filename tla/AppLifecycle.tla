---------------------------- MODULE AppLifecycle ----------------------------
(***************************************************************************)
(* The server process from main to exit (main.go:39, internal/app,         *)
(* internal/data, internal/httpserver) and the probes that it answers      *)
(* meanwhile (internal/modules/health).                                    *)
(*                                                                         *)
(* PostgreSQL and Redis are external: each answers, fails at once or hangs.*)
(* So is Fiber: Listen starts a goroutine that shuts the server down when  *)
(* the graceful context is done, and only then makes the listener.  Listen *)
(* returns some time after a shutdown has closed it, whether or not the    *)
(* requests being served have ended; a shutdown that comes before it does  *)
(* nothing and is not repeated.                                            *)
(***************************************************************************)

CONSTANTS Requests

Steps == {"config", "postgres", "pingPostgres", "redis", "pingRedis", "assemble",
          "listen", "bind", "serving", "stopping", "closeRedis", "closePool", "exited"}
Conditions == {"up", "down", "hung"}
Resource == {"none", "open", "closed"}

\* "business" stands for any route that queries PostgreSQL.
Kinds == {"none", "readyz", "ping", "business"}

RequestRecord ==
    [stage  : {"idle", "postgres", "redis"},
     kind   : Kinds,
     saw    : SUBSET {"postgres", "redis"},   \* history: what has answered it
     answer : {"none", "ok", "unavailable"}]

VARIABLES
    step,        \* where run is
    cancelled,   \* a signal has come
    shutdown,    \* the goroutine that waits for it
    pool, cache, \* the PostgreSQL pool and the Redis client
    pg, rd,      \* the condition of the two services
    req

process == <<step, cancelled, shutdown, pool, cache>>
vars == <<process, pg, rd, req>>

Close(x) == IF x = "open" THEN "closed" ELSE "closedTwice"

-----------------------------------------------------------------------------
(* The process                                                             *)

Signal ==
    /\ ~cancelled /\ step # "exited"
    /\ cancelled' = TRUE
    /\ UNCHANGED <<step, shutdown, pool, cache, pg, rd, req>>

Load(ok) ==
    /\ step = "config"
    /\ step' = IF ok THEN "postgres" ELSE "exited"
    /\ UNCHANGED <<cancelled, shutdown, pool, cache, pg, rd, req>>

\* gorm.Open connects nothing yet.
CreatePool(ok) ==
    /\ step = "postgres"
    /\ IF ok THEN step' = "pingPostgres" /\ pool' = "open"
       ELSE step' = "exited" /\ UNCHANGED pool
    /\ UNCHANGED <<cancelled, shutdown, cache, pg, rd, req>>

\* The ping, which the connect timeout and the signal end; a pool that does not
\* answer is closed.
PingPool(ok) ==
    /\ step = "pingPostgres"
    /\ ok => pg = "up"
    /\ IF ok THEN step' = "redis" /\ UNCHANGED pool
       ELSE step' = "exited" /\ pool' = Close(pool)
    /\ UNCHANGED <<cancelled, shutdown, cache, pg, rd, req>>

CreateClient ==
    /\ step = "redis"
    /\ step' = "pingRedis"
    /\ cache' = "open"
    /\ UNCHANGED <<cancelled, shutdown, pool, pg, rd, req>>

\* Faulty: when Redis does not answer the pool is left open.
PingClientOnly(ok) ==
    /\ step = "pingRedis"
    /\ ok => rd = "up"
    /\ IF ok THEN step' = "assemble" /\ UNCHANGED <<pool, cache>>
       ELSE step' = "exited" /\ cache' = Close(cache) /\ UNCHANGED pool
    /\ UNCHANGED <<cancelled, shutdown, pg, rd, req>>

\* The same for Redis: openRedis closes the client, Open the pool.
PingClient(ok) ==
    /\ step = "pingRedis"
    /\ ok => rd = "up"
    /\ IF ok THEN step' = "assemble" /\ UNCHANGED <<pool, cache>>
       ELSE step' = "exited" /\ cache' = Close(cache) /\ pool' = Close(pool)
    /\ UNCHANGED <<cancelled, shutdown, pg, rd, req>>

\* newHTTPServer: the server, the realms, the modules.  From here on every way
\* out closes the resources.
Assemble(ok) ==
    /\ step = "assemble"
    /\ step' = IF ok THEN "listen" ELSE "closeRedis"
    /\ UNCHANGED <<cancelled, shutdown, pool, cache, pg, rd, req>>

\* Server.Run hands the context to Fiber.
Listen ==
    /\ step = "listen"
    /\ step' = "bind"
    /\ shutdown' = "waiting"
    /\ UNCHANGED <<cancelled, pool, cache, pg, rd, req>>

\* The address is taken, or Listen returns an error.
Bind(ok) ==
    /\ step = "bind"
    /\ step' = IF ok THEN "serving" ELSE "closeRedis"
    /\ UNCHANGED <<cancelled, shutdown, pool, cache, pg, rd, req>>

\* Faulty: Listen is not given the context.
ShutdownNever ==
    /\ FALSE
    /\ UNCHANGED vars

\* The graceful context is done, and the listener closes if it is there.
Shutdown ==
    /\ shutdown = "waiting" /\ cancelled
    /\ \/ step = "serving" /\ step' = "stopping" /\ shutdown' = "done"
       \/ step = "bind" /\ shutdown' = "lost" /\ UNCHANGED step
    /\ UNCHANGED <<cancelled, pool, cache, pg, rd, req>>

\* Listen returns.
Return ==
    /\ step = "stopping"
    /\ step' = "closeRedis"
    /\ UNCHANGED <<cancelled, shutdown, pool, cache, pg, rd, req>>

\* Faulty: the client's Close closes the pool as well.
CloseRedisAndPool ==
    /\ step = "closeRedis"
    /\ cache' = Close(cache) /\ pool' = Close(pool)
    /\ step' = "closePool"
    /\ UNCHANGED <<cancelled, shutdown, pg, rd, req>>

\* Data.Close goes on to the pool whatever closing the client says.
CloseRedis ==
    /\ step = "closeRedis"
    /\ cache' = Close(cache)
    /\ step' = "closePool"
    /\ UNCHANGED <<cancelled, shutdown, pool, pg, rd, req>>

\* Requests that are still being served end with the process.
ClosePool ==
    /\ step = "closePool"
    /\ pool' = Close(pool)
    /\ step' = "exited"
    /\ req' = [q \in Requests |-> [req[q] EXCEPT !.stage = "idle"]]
    /\ UNCHANGED <<cancelled, shutdown, cache, pg, rd>>

-----------------------------------------------------------------------------
(* The requests                                                            *)

\* Faulty: requests are taken as soon as the server is there.
BeginEarly(q, kind) ==
    /\ step \in {"redis", "pingRedis", "assemble", "listen", "serving"}
    /\ req[q].stage = "idle"
    /\ req' = [req EXCEPT ![q] = [stage |-> "postgres", kind |-> kind,
                                  saw |-> {}, answer |-> "none"]]
    /\ UNCHANGED <<process, pg, rd>>

Begin(q, kind) ==
    /\ step = "serving"
    /\ req[q].stage = "idle"
    /\ req' = [req EXCEPT ![q] = [stage |-> "postgres", kind |-> kind,
                                  saw |-> {}, answer |-> "none"]]
    /\ UNCHANGED <<process, pg, rd>>

\* Faulty: readyz asks PostgreSQL only.
AskPostgresOnly(q) ==
    LET x == req[q] IN
    /\ x.stage = "postgres"
    /\ \/ /\ pg = "up" /\ pool = "open"
          /\ req' = [req EXCEPT ![q] =
               [x EXCEPT !.saw = {"postgres"}, !.stage = "idle", !.answer = "ok"]]
       \/ /\ pg = "down" \/ pool # "open"
          /\ req' = [req EXCEPT ![q] = [x EXCEPT !.stage = "idle", !.answer = "unavailable"]]
    /\ UNCHANGED <<process, pg, rd>>

\* SELECT 1, or the query of a business route.
AskPostgres(q) ==
    LET x == req[q] IN
    /\ x.stage = "postgres"
    /\ \/ /\ pg = "up" /\ pool = "open"
          /\ req' = [req EXCEPT ![q] =
               IF x.kind = "readyz" THEN [x EXCEPT !.saw = {"postgres"}, !.stage = "redis"]
               ELSE [x EXCEPT !.saw = {"postgres"}, !.stage = "idle", !.answer = "ok"]]
       \/ /\ pg = "down" \/ pool # "open"
          /\ req' = [req EXCEPT ![q] = [x EXCEPT !.stage = "idle", !.answer = "unavailable"]]
    /\ UNCHANGED <<process, pg, rd>>

\* PING
AskRedis(q) ==
    LET x == req[q] IN
    /\ x.stage = "redis"
    /\ \/ /\ rd = "up" /\ cache = "open"
          /\ req' = [req EXCEPT ![q] =
               [x EXCEPT !.saw = @ \cup {"redis"}, !.stage = "idle", !.answer = "ok"]]
       \/ /\ rd = "down" \/ cache # "open"
          /\ req' = [req EXCEPT ![q] = [x EXCEPT !.stage = "idle", !.answer = "unavailable"]]
    /\ UNCHANGED <<process, pg, rd>>

\* Faulty: readyz has no limit.
ExpireNever(q) ==
    /\ FALSE
    /\ UNCHANGED vars

\* The readiness limit ends what readyz waits for; ping and the business routes
\* have none.
Expire(q) ==
    LET x == req[q] IN
    /\ x.stage # "idle" /\ x.kind = "readyz"
    /\ req' = [req EXCEPT ![q] = [x EXCEPT !.stage = "idle", !.answer = "unavailable"]]
    /\ UNCHANGED <<process, pg, rd>>

\* The services come and go.
Change ==
    /\ pg' \in Conditions /\ rd' \in Conditions
    /\ <<pg', rd'>> # <<pg, rd>>
    /\ UNCHANGED <<process, req>>

-----------------------------------------------------------------------------

Init ==
    /\ step = "config" /\ cancelled = FALSE /\ shutdown = "none"
    /\ pool = "none" /\ cache = "none"
    /\ pg = "up" /\ rd = "up"            \* Change comes before any step it may
    /\ req = [q \in Requests |-> [stage |-> "idle", kind |-> "none", saw |-> {},
                                  answer |-> "none"]]

Run ==
    \/ \E ok \in BOOLEAN : \/ Load(ok) \/ CreatePool(ok) \/ PingPool(ok)
                           \/ PingClient(ok) \/ Assemble(ok) \/ Bind(ok)
    \/ CreateClient \/ Listen \/ Shutdown \/ Return \/ CloseRedis \/ ClosePool

Handle(q) == AskPostgres(q) \/ AskRedis(q) \/ Expire(q)

Next ==
    \/ Run \/ Signal \/ Change
    \/ \E q \in Requests : \/ Handle(q)
                           \/ \E kind \in Kinds \ {"none"} : Begin(q, kind)

Spec == Init /\ [][Next]_vars

\* The process and its handlers are scheduled, and a query is answered by a
\* service that comes back again and again.  Nothing is assumed of signals and
\* clients, nor that a service comes back.
Fairness == WF_vars(Run) /\ \A q \in Requests : SF_vars(Handle(q))

FairSpec == Spec /\ Fairness

-----------------------------------------------------------------------------
(* Properties                                                              *)

\* Every variable stays within the values the code can give it; what is closed
\* is not closed again.
TypeOK ==
    /\ step \in Steps
    /\ cancelled \in BOOLEAN
    /\ shutdown \in {"none", "waiting", "done", "lost"}
    /\ pool \in Resource /\ cache \in Resource
    /\ pg \in Conditions /\ rd \in Conditions
    /\ req \in [Requests -> RequestRecord]

\* Whatever fails on the way up or ends the process, what was opened has been
\* closed once when main returns, and what was not opened has not
\* (data.go:32-34, app.go:32-36, postgres.go:50, redis.go:31).
ClosedExactlyOnce ==
    /\ {pool, cache} \subseteq Resource
    /\ step = "exited" => "open" \notin {pool, cache}

\* No request meets a resource that is missing or closed before a signal has
\* stopped the server (app.go:28-52).
ServesOnlyOpen ==
    step \notin {"stopping", "closeRedis", "closePool"} =>
        \A q \in Requests : req[q].stage # "idle" => pool = "open" /\ cache = "open"

\* readyz says ok only if PostgreSQL and Redis have both answered this very
\* request (data.go:58-67, health/api.go:72-81).
ReadyIsTrue ==
    \A q \in Requests : req[q].kind = "readyz" /\ req[q].answer = "ok" =>
        req[q].saw = {"postgres", "redis"}

\* A process that gets a signal exits, whatever its services do (main.go:40,
\* server.go:64-69), unless its shutdown came before the listener: then it serves
\* on, and signal.NotifyContext takes every later signal.  That cannot happen to a
\* process that has once served without having been signalled.
SignalEndsProcess ==
    /\ cancelled ~> step = "exited" \/ shutdown = "lost"
    /\ [](step = "serving" /\ ~cancelled => [](shutdown # "lost"))

Answered(q, kind) == req[q].kind = kind /\ req[q].stage # "idle" ~> req[q].stage = "idle"

\* "限制依赖检查时间避免探针长时间阻塞" (health/api.go:73): readyz is always
\* answered, also when a service hangs.  ping, which is to "返回数据库连接状态"
\* (README.md:411), has no limit and is answered only if PostgreSQL does not hang
\* for good (health/api.go:91-97).
ProbesAnswer ==
    \A q \in Requests : /\ Answered(q, "readyz")
                        /\ []<>(pg # "hung") => Answered(q, "ping")
=============================================================================
