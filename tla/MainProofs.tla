------------------------------ MODULE MainProofs ------------------------------
(***************************************************************************)
(* Proofs about MigrationRunner, AppLifecycle and the program that is one  *)
(* of them.  For any number of processes and of migrations, however they   *)
(* are cancelled, killed or refused the lock, a success is a success, and  *)
(* a cancellation leaves no migration half done.  For any number of        *)
(* requests, however the services fail and whenever the signal comes, what *)
(* was opened is closed once, requests meet open resources until the       *)
(* server stops, and readyz tells the truth.                               *)
(***************************************************************************)
EXTENDS Main, TLAPS

-----------------------------------------------------------------------------
(* The invariant of the migrations                                         *)

Inside == {"version", "loop", "migrating", "clean", "unlock"}

ProcOK(p) ==
    LET q == proc[p] IN
    /\ q.phase \in Inside <=> holder = p
    /\ q.phase \in {"loop", "clean", "migrating"} => (dirty <=> q.phase # "loop")
    /\ q.phase \notin {"idle", "close"} => q.result = "none"
    /\ q.phase \in {"unlock", "result"} /\ q.err = "ok" => q.done \/ q.cancelled
    /\ q.phase \in {"unlock", "result"} => q.err # "none"
    /\ q.stop \/ q.watcher = "sending" => q.cancelled
    /\ q.phase \in {"version", "unlock"} /\ dirty => hurt
    /\ q.phase = "unlock" /\ q.err = "ok" =>
          ~dirty /\ (q.action = "up" /\ q.done => version = Latest)

IInv ==
    /\ TypeOK
    /\ SuccessMeansDone
    /\ StopIsSafe
    /\ \A p \in Procs : ProcOK(p)

-----------------------------------------------------------------------------
(* The invariant of the server                                             *)

\* What is open at each step.
WithPool == {"pingPostgres", "redis", "pingRedis", "assemble", "listen", "bind",
             "serving", "stopping", "closeRedis", "closePool"}
WithCache == WithPool \ {"pingPostgres", "redis", "closePool"}

Opened ==
    /\ step \in WithPool => pool = "open"
    /\ step \notin WithPool => pool \in {"none", IF step = "exited" THEN "closed" ELSE "none"}
    /\ step \in WithCache => cache = "open"
    /\ step = "closePool" => cache = "closed"
    /\ step \notin WithCache \cup {"closePool"} =>
         cache \in {"none", IF step = "exited" THEN "closed" ELSE "none"}

\* The steps at which a request may be served.
Accepting == {"serving", "stopping", "closeRedis", "closePool"}

RequestOK(x) ==
    /\ x.stage # "idle" => step \in Accepting /\ x.answer = "none"
    /\ x.stage = "redis" => x.saw = {"postgres"} /\ x.kind = "readyz"
    /\ x.kind = "readyz" /\ x.answer = "ok" => x.saw = {"postgres", "redis"}

ServerInv ==
    /\ App!TypeOK
    /\ Opened
    /\ \A q \in Requests : RequestOK(req[q])

-----------------------------------------------------------------------------
USE NobodyAssumption DEF Nobody

LEMMA InitInv == Init => IInv
<1> SUFFICES ASSUME Init PROVE IInv
  OBVIOUS
<1>1. Idle \in ProcRecord
  BY DEF Idle, ProcRecord, Phases, Results
<1>2. TypeOK
  <2>1. version \in 0 .. Latest
    BY BoundsAssumption DEF Init
  <2>3. dirty \in BOOLEAN /\ hurt \in BOOLEAN /\ holder \in Procs \cup {Nobody}
    BY Zenon DEF Init
  <2>2. proc \in [Procs -> ProcRecord]
    BY <1>1 DEF Init
  <2> QED BY <2>1, <2>2, <2>3, Zenon DEF TypeOK
<1>3. ASSUME NEW p \in Procs
      PROVE  /\ ProcOK(p) /\ (proc[p].result = "ok" => proc[p].done)
             /\ proc[p].phase # "unlock"
  BY <1>3 DEF Init, ProcOK, Idle, Inside
<1>4. SuccessMeansDone
  BY <1>3, Zenon DEF SuccessMeansDone
<1>5. StopIsSafe
  BY DEF Init, StopIsSafe
<1> QED BY <1>2, <1>3, <1>4, <1>5, Zenon DEF IInv

\* What SuccessMeansDone says of the database follows from what is true of the
\* one process that gives the lock back.
LEMMA OkMeansDone ==
  ASSUME \A x \in Procs : proc'[x].result = "ok" => proc'[x].done,
         \A x \in Procs : ProcOK(x)'
  PROVE  SuccessMeansDone'
BY DEF SuccessMeansDone, ProcOK

\* One process takes a step.  It takes or gives back the lock or leaves it as it
\* is, and writes to the database only while it has the lock; then the other
\* processes are as well as they were.
LEMMA ProcessStep ==
  ASSUME IInv, NEW p \in Procs, NEW q \in ProcRecord,
         proc' = [proc EXCEPT ![p] = q],
         version' \in 0 .. Latest, dirty' \in BOOLEAN, hurt' \in BOOLEAN,
         \/ holder' = holder
         \/ holder = Nobody /\ holder' = p
         \/ holder = p /\ holder' = Nobody,
         UNCHANGED <<version, dirty>> \/ holder = p,
         UNCHANGED hurt \/ holder = p \/ hurt',
         ProcOK(p)',
         q.result = "ok" => q.done,
         StopIsSafe'
  PROVE  IInv'
<1>1. TypeOK'
  BY DEF IInv, TypeOK
<1>2. \A x \in Procs : x # p => proc'[x] = proc[x]
  BY DEF IInv, TypeOK
<1>3. proc'[p] = q
  BY DEF IInv, TypeOK
<1>4. \A x \in Procs : proc'[x].result = "ok" => proc'[x].done
  BY <1>2, <1>3 DEF IInv, SuccessMeansDone
<1>5. ASSUME NEW x \in Procs, x # p
      PROVE  ProcOK(x)'
  <2>1. ProcOK(x) /\ proc'[x] = proc[x] /\ (holder' = x <=> holder = x)
    BY <1>2, <1>5 DEF IInv
  <2>2. holder = x => UNCHANGED <<version, dirty>> /\ (UNCHANGED hurt \/ hurt')
    BY <1>5
  <2> QED BY <2>1, <2>2 DEF ProcOK, Inside
<1>6. \A x \in Procs : ProcOK(x)'
  BY <1>5
<1>7. SuccessMeansDone'
  BY <1>4, <1>6, OkMeansDone
<1> QED BY <1>1, <1>6, <1>7 DEF IInv

\* What a process that is between Start and Close may rely on.
LEMMA ProcFacts ==
  ASSUME IInv, NEW p \in Procs
  PROVE  /\ proc[p] \in ProcRecord /\ ProcOK(p)
         /\ proc[p].result = "ok" => proc[p].done
         /\ version \in 0 .. Latest /\ dirty \in BOOLEAN /\ hurt \in BOOLEAN
         /\ \A q : proc' = [proc EXCEPT ![p] = q] => proc'[p] = q
  BY DEF IInv, TypeOK, SuccessMeansDone

\* Steps that change neither the database nor the lock.
LEMMA LocalStep ==
  ASSUME IInv, NEW p \in Procs, NEW q \in ProcRecord,
         proc' = [proc EXCEPT ![p] = q], UNCHANGED database,
         q.result = "ok" => q.done,
         q.phase \in Inside <=> proc[p].phase \in Inside,
         q.phase \in {"loop", "clean", "migrating"} => (dirty <=> q.phase # "loop"),
         q.phase \notin {"idle", "close"} => q.result = "none",
         q.phase \in {"unlock", "result"} => q.err # "none" /\ (q.err = "ok" => q.done \/ q.cancelled),
         q.stop \/ q.watcher = "sending" => q.cancelled,
         q.phase \in {"version", "unlock"} /\ dirty => hurt,
         q.phase = "unlock" /\ q.err = "ok" =>
            ~dirty /\ (q.action = "up" /\ q.done => version = Latest)
  PROVE  IInv'
<1>1. /\ ProcOK(p) /\ proc'[p] = q
      /\ version \in 0 .. Latest /\ dirty \in BOOLEAN /\ hurt \in BOOLEAN
  BY ProcFacts
<1>2. ProcOK(p)'
  BY <1>1 DEF ProcOK, database
<1>3. StopIsSafe'
  BY DEF IInv, StopIsSafe, database
<1> QED BY <1>1, <1>2, <1>3, ProcessStep DEF database

\* An ended process keeps its result.
LEMMA RestFacts ==
  ASSUME NEW q \in ProcRecord
  PROVE  /\ Rest(q) \in ProcRecord
         /\ q.phase # "idle" => Rest(q) = q
         /\ Rest(q).phase = q.phase /\ Rest(q).result = q.result /\ Rest(q).done = q.done
         /\ Rest(q).stop => q.stop
         /\ Rest(q).watcher = q.watcher
         /\ q.watcher = "sending" \/ Rest(q).stop => Rest(q).cancelled = q.cancelled
<1>1. CASE q.phase # "idle"
  BY <1>1 DEF Rest
<1>2. CASE q.phase = "idle" /\ q.watcher = "none"
  BY <1>2 DEF Rest, Idle, ProcRecord, Phases
<1>3. CASE q.phase = "idle" /\ q.watcher # "none"
  BY <1>3 DEF Rest, ProcRecord
<1> QED BY <1>1, <1>2, <1>3

-----------------------------------------------------------------------------
(* The command and its goroutine                                           *)

LEMMA InvStart ==
  ASSUME IInv, NEW p \in Procs, NEW action \in {"up", "down"}, NEW steps \in Nat,
         NEW opened \in BOOLEAN, Start(p, action, steps, opened)
  PROVE  IInv'
<1> DEFINE q == IF ~Accepted(action, steps) \/ ~opened
                THEN [Idle EXCEPT !.action = action, !.result = "error"]
                ELSE [Idle EXCEPT !.action = action, !.phase = "lock", !.watcher = "waiting",
                                  !.left = IF action = "down" THEN steps ELSE 0]
<1>1. q \in ProcRecord
  BY DEF Idle, ProcRecord, Phases, Results
<1>2. proc' = [proc EXCEPT ![p] = q] /\ UNCHANGED database /\ proc[p].phase = "idle"
  BY DEF Start
<1>3. /\ q.phase \in {"idle", "lock"} /\ q.result \in {"none", "error"}
      /\ q.phase = "lock" => q.result = "none"
      /\ ~q.stop /\ q.watcher # "sending"
  BY DEF Idle
<1> HIDE DEF q
<1> QED BY <1>1, <1>2, <1>3, LocalStep DEF Inside

LEMMA InvCurrent ==
  ASSUME IInv, NEW p \in Procs, NEW ok \in BOOLEAN, Current(p, ok)
  PROVE  IInv'
<1>1. PICK result \in {"ok", "error"} :
        /\ result = "ok" => ok
        /\ proc' = [proc EXCEPT ![p] = [Idle EXCEPT !.action = "version", !.done = ok,
                                                   !.result = result]]
  <2>1. CASE ok
    BY <2>1 DEF Current
  <2>2. CASE ~ok
    BY <2>2 DEF Current
  <2> QED BY <2>1, <2>2
<1> DEFINE q == [Idle EXCEPT !.action = "version", !.done = ok, !.result = result]
<1>2. q \in ProcRecord
  BY DEF Idle, ProcRecord, Phases, Results
<1>3. proc' = [proc EXCEPT ![p] = q] /\ UNCHANGED database /\ proc[p].phase = "idle"
  BY <1>1 DEF Current
<1>4. /\ q.phase = "idle" /\ (q.result = "ok" => q.done)
      /\ ~q.stop /\ q.watcher # "sending"
  BY <1>1 DEF Idle
<1> HIDE DEF q
<1> QED BY <1>2, <1>3, <1>4, LocalStep DEF Inside

LEMMA InvCancel ==
  ASSUME IInv, NEW p \in Procs, Cancel(p)
  PROVE  IInv'
<1> DEFINE q == [proc[p] EXCEPT !.cancelled = TRUE]
<1>0. proc[p] \in ProcRecord /\ ProcOK(p) /\ (proc[p].result = "ok" => proc[p].done)
  BY ProcFacts
<1>1. /\ q \in ProcRecord /\ q.phase = proc[p].phase /\ q.result = proc[p].result
      /\ q.done = proc[p].done /\ q.err = proc[p].err /\ q.cancelled
      /\ q.action = proc[p].action
  BY <1>0 DEF ProcRecord
<1>2. proc' = [proc EXCEPT ![p] = q] /\ UNCHANGED database
  BY DEF Cancel
<1> HIDE DEF q
<1> QED BY <1>0, <1>1, <1>2, LocalStep DEF ProcOK

\* The watcher changes only what is its own, and the stop channel.
LEMMA WatcherStep ==
  ASSUME IInv, NEW p \in Procs, NEW q \in ProcRecord,
         proc' = [proc EXCEPT ![p] = Rest(q)], UNCHANGED database,
         q.phase = proc[p].phase, q.result = proc[p].result, q.done = proc[p].done,
         q.err = proc[p].err, q.cancelled = proc[p].cancelled, q.action = proc[p].action,
         q.stop \/ q.watcher = "sending" => q.cancelled
  PROVE  IInv'
<1>0. proc[p] \in ProcRecord /\ ProcOK(p) /\ (proc[p].result = "ok" => proc[p].done)
  BY ProcFacts
<1>1. CASE q.phase # "idle"
  <2>1. proc' = [proc EXCEPT ![p] = q]
    BY <1>1, RestFacts
  <2>2. /\ q.phase \in Inside <=> proc[p].phase \in Inside
        /\ q.phase \in {"loop", "clean", "migrating"} => (dirty <=> q.phase # "loop")
        /\ q.phase \notin {"idle", "close"} => q.result = "none"
        /\ q.phase \in {"unlock", "result"} =>
             q.err # "none" /\ (q.err = "ok" => q.done \/ q.cancelled)
        /\ q.phase \in {"version", "unlock"} /\ dirty => hurt
        /\ q.phase = "unlock" /\ q.err = "ok" =>
              ~dirty /\ (q.action = "up" /\ q.done => version = Latest)
        /\ q.result = "ok" => q.done
    BY <1>0 DEF ProcOK
  <2> QED BY <2>1, <2>2, LocalStep
<1>2. CASE q.phase = "idle"
  <2> DEFINE rest == Rest(q)
  <2>1. /\ rest \in ProcRecord /\ rest.phase = "idle" /\ rest.result = q.result
        /\ rest.done = q.done /\ (rest.stop \/ rest.watcher = "sending" => rest.cancelled)
    BY <1>2, RestFacts
  <2> HIDE DEF rest
  <2>2. proc' = [proc EXCEPT ![p] = rest]
    BY DEF rest
  <2> QED BY <1>0, <1>2, <2>1, <2>2, LocalStep DEF Inside
<1> QED BY <1>1, <1>2

LEMMA InvWatch ==
  ASSUME IInv, NEW p \in Procs, Watch(p)
  PROVE  IInv'
<1>0. proc[p] \in ProcRecord /\ ProcOK(p) /\ proc[p].watcher = "waiting" /\ UNCHANGED database
  BY ProcFacts DEF Watch
<1>1. CASE proc[p].cancelled /\ proc' = [proc EXCEPT ![p].watcher = "sending"]
  <2> DEFINE q == [proc[p] EXCEPT !.watcher = "sending"]
  <2>1. /\ q \in ProcRecord /\ q.phase = proc[p].phase /\ q.result = proc[p].result
        /\ q.done = proc[p].done /\ q.err = proc[p].err /\ q.cancelled
        /\ q.action = proc[p].action
    BY <1>0, <1>1 DEF ProcRecord
  <2>2. proc' = [proc EXCEPT ![p] = q]
    BY <1>1
  <2> HIDE DEF q
  <2> QED BY ZenonT(40), <1>0, <2>1, <2>2, ProcFacts, LocalStep DEF ProcOK
<1>2. CASE proc' = [proc EXCEPT ![p] = Rest([proc[p] EXCEPT !.watcher = "none"])]
  <2> DEFINE q == [proc[p] EXCEPT !.watcher = "none"]
  <2>1. /\ q \in ProcRecord /\ q.phase = proc[p].phase /\ q.result = proc[p].result
        /\ q.done = proc[p].done /\ q.err = proc[p].err /\ q.cancelled = proc[p].cancelled
        /\ q.action = proc[p].action
        /\ (q.stop \/ q.watcher = "sending" => q.cancelled)
    BY <1>0 DEF ProcRecord, ProcOK
  <2> HIDE DEF q
  <2>2. proc' = [proc EXCEPT ![p] = Rest(q)]
    BY <1>2 DEF q
  <2> QED BY <1>0, <2>1, <2>2, WatcherStep
<1> QED BY <1>1, <1>2 DEF Watch

LEMMA InvSend ==
  ASSUME IInv, NEW p \in Procs, Send(p)
  PROVE  IInv'
<1>0. proc[p] \in ProcRecord /\ ProcOK(p) /\ proc[p].watcher = "sending" /\ UNCHANGED database
  BY ProcFacts DEF Send
<1>1. proc[p].cancelled
  BY <1>0 DEF ProcOK
<1>2. PICK stop \in BOOLEAN :
        proc' = [proc EXCEPT ![p] = Rest([proc[p] EXCEPT !.watcher = "none", !.stop = stop])]
  <2>1. CASE proc' = [proc EXCEPT ![p] = Rest([@ EXCEPT !.watcher = "none", !.stop = TRUE])]
    BY <2>1
  <2>2. CASE proc' = [proc EXCEPT ![p] = Rest([@ EXCEPT !.watcher = "none"])]
    <3>1. [proc[p] EXCEPT !.watcher = "none"]
            = [proc[p] EXCEPT !.watcher = "none", !.stop = proc[p].stop]
      BY <1>0 DEF ProcRecord
    <3>2. proc[p].stop \in BOOLEAN
      BY <1>0 DEF ProcRecord
    <3> QED BY <2>2, <3>1, <3>2
  <2> QED BY <2>1, <2>2 DEF Send
<1> DEFINE q == [proc[p] EXCEPT !.watcher = "none", !.stop = stop]
<1>3. /\ q \in ProcRecord /\ q.phase = proc[p].phase /\ q.result = proc[p].result
      /\ q.done = proc[p].done /\ q.err = proc[p].err /\ q.cancelled = proc[p].cancelled
      /\ q.action = proc[p].action
  BY <1>0 DEF ProcRecord
<1> HIDE DEF q
<1>4. proc' = [proc EXCEPT ![p] = Rest(q)]
  BY <1>2 DEF q
<1> QED BY <1>0, <1>1, <1>3, <1>4, WatcherStep

LEMMA InvResult ==
  ASSUME IInv, NEW p \in Procs, Result(p)
  PROVE  IInv'
<1>1. /\ proc[p] \in ProcRecord /\ proc[p].phase = "result" /\ proc[p].err \in {"ok", "error"}
      /\ proc[p].err = "ok" => proc[p].done \/ proc[p].cancelled
      /\ proc[p].stop \/ proc[p].watcher = "sending" => proc[p].cancelled
      /\ UNCHANGED database
  BY ProcFacts DEF Result, Step, ProcOK, ProcRecord
<1>2. PICK result \in Results :
        /\ result = "ok" => proc[p].done
        /\ proc' = [proc EXCEPT ![p] = [proc[p] EXCEPT !.phase = "close", !.completed = TRUE,
                                                      !.result = result]]
  <2>1. CASE proc[p].err = "ok" /\ proc[p].cancelled
    BY <2>1 DEF Result, Step, Results
  <2>2. CASE ~(proc[p].err = "ok" /\ proc[p].cancelled)
    <3>1. proc[p].err \in Results /\ (proc[p].err = "ok" => proc[p].done)
      BY <1>1, <2>2 DEF Results
    <3> QED BY <2>2, <3>1 DEF Result, Step
  <2> QED BY <2>1, <2>2
<1> DEFINE q == [proc[p] EXCEPT !.phase = "close", !.completed = TRUE, !.result = result]
<1>3. /\ q \in ProcRecord /\ q.phase = "close" /\ q.result = result /\ q.done = proc[p].done
      /\ q.stop = proc[p].stop /\ q.watcher = proc[p].watcher
      /\ q.cancelled = proc[p].cancelled
  BY <1>1 DEF ProcRecord, Phases
<1>4. proc' = [proc EXCEPT ![p] = q]
  BY <1>2
<1> HIDE DEF q
<1> QED BY <1>1, <1>2, <1>3, <1>4, LocalStep DEF Inside

LEMMA InvClose ==
  ASSUME IInv, NEW p \in Procs, NEW ok \in BOOLEAN, Close(p, ok)
  PROVE  IInv'
<1>1. /\ proc[p] \in ProcRecord /\ proc[p].phase = "close" /\ UNCHANGED database
      /\ proc[p].result = "ok" => proc[p].done
      /\ proc[p].stop \/ proc[p].watcher = "sending" => proc[p].cancelled
  BY ProcFacts DEF Close, Step, ProcOK
<1>2. PICK result \in Results :
        /\ result = "ok" => proc[p].done
        /\ proc' = [proc EXCEPT ![p] = Rest([proc[p] EXCEPT !.phase = "idle", !.result = result])]
  <2>1. CASE ok
    <3>1. [proc[p] EXCEPT !.phase = "idle", !.result = proc[p].result]
            = [proc[p] EXCEPT !.phase = "idle", !.result = IF ok THEN proc[p].result ELSE "error"]
      BY <2>1
    <3>2. proc[p].result \in Results
      BY <1>1 DEF ProcRecord
    <3> QED BY <1>1, <3>1, <3>2 DEF Close, Step
  <2>2. CASE ~ok
    BY <2>2 DEF Close, Step, Results
  <2> QED BY <2>1, <2>2
<1> DEFINE q == [proc[p] EXCEPT !.phase = "idle", !.result = result]
           rest == Rest(q)
<1>3. /\ q \in ProcRecord /\ q.phase = "idle" /\ q.result = result /\ q.done = proc[p].done
      /\ q.stop \/ q.watcher = "sending" => q.cancelled
  BY <1>1 DEF ProcRecord, Phases
<1>4. proc' = [proc EXCEPT ![p] = rest]
  BY <1>2
<1> HIDE DEF q
<1>5. /\ rest \in ProcRecord /\ rest.phase = "idle" /\ rest.result = result
      /\ rest.done = proc[p].done /\ (rest.stop \/ rest.watcher = "sending" => rest.cancelled)
  BY <1>3, RestFacts
<1> HIDE DEF rest
<1> QED BY <1>1, <1>2, <1>4, <1>5, LocalStep DEF Inside

-----------------------------------------------------------------------------
(* golang-migrate                                                          *)

LEMMA InvLock ==
  ASSUME IInv, NEW p \in Procs, Lock(p)
  PROVE  IInv'
<1> DEFINE q == [proc[p] EXCEPT !.phase = "version"]
<1>1. /\ proc[p] \in ProcRecord /\ ProcOK(p) /\ proc[p].phase = "lock"
      /\ holder = Nobody /\ holder' = p /\ UNCHANGED <<version, dirty, hurt>>
      /\ version \in 0 .. Latest /\ dirty \in BOOLEAN /\ hurt \in BOOLEAN /\ (dirty => hurt)
  BY ProcFacts DEF Lock, Step, IInv, StopIsSafe
<1>2. /\ q \in ProcRecord /\ q.phase = "version" /\ q.result = proc[p].result
      /\ q.stop = proc[p].stop /\ q.watcher = proc[p].watcher
      /\ q.cancelled = proc[p].cancelled
  BY <1>1 DEF ProcRecord, Phases
<1>3. proc' = [proc EXCEPT ![p] = q]
  BY DEF Lock, Step
<1> HIDE DEF q
<1>4. proc'[p] = q /\ q.result = "none" /\ (q.stop \/ q.watcher = "sending" => q.cancelled)
  BY <1>1, <1>2, <1>3, ProcFacts DEF ProcOK
<1>5. ProcOK(p)'
  BY <1>1, <1>2, <1>4 DEF ProcOK, Inside
<1>6. StopIsSafe'
  BY <1>1 DEF StopIsSafe
<1> QED BY <1>1, <1>2, <1>3, <1>4, <1>5, <1>6, ProcessStep

LEMMA InvLockTimeout ==
  ASSUME IInv, NEW p \in Procs, LockTimeout(p)
  PROVE  IInv'
<1> DEFINE q == [proc[p] EXCEPT !.phase = "result", !.err = "error"]
<1>1. /\ proc[p] \in ProcRecord /\ ProcOK(p) /\ proc[p].phase = "lock" /\ UNCHANGED database
  BY ProcFacts DEF LockTimeout, Step
<1>2. /\ q \in ProcRecord /\ q.phase = "result" /\ q.err = "error" /\ q.result = proc[p].result
      /\ q.stop = proc[p].stop /\ q.watcher = proc[p].watcher
      /\ q.cancelled = proc[p].cancelled
  BY <1>1 DEF ProcRecord, Phases
<1>3. proc' = [proc EXCEPT ![p] = q]
  BY DEF LockTimeout, Step
<1> HIDE DEF q
<1>4. q.result = "none" /\ (q.stop \/ q.watcher = "sending" => q.cancelled)
  BY <1>1, <1>2 DEF ProcOK
<1> QED BY <1>1, <1>2, <1>3, <1>4, LocalStep DEF Inside

LEMMA InvReadVersion ==
  ASSUME IInv, NEW p \in Procs, NEW ok \in BOOLEAN, ReadVersion(p, ok)
  PROVE  IInv'
<1>1. /\ proc[p] \in ProcRecord /\ ProcOK(p) /\ proc[p].phase = "version"
      /\ UNCHANGED database /\ dirty \in BOOLEAN
  BY ProcFacts DEF ReadVersion, Step
<1>2. proc[p].result = "none" /\ (dirty => hurt)
      /\ (proc[p].stop \/ proc[p].watcher = "sending" => proc[p].cancelled)
  BY <1>1 DEF ProcOK
<1>3. CASE dirty \/ ~ok
  <2> DEFINE q == [proc[p] EXCEPT !.phase = "unlock", !.err = "error"]
  <2>1. /\ q \in ProcRecord /\ q.phase = "unlock" /\ q.err = "error"
        /\ q.result = proc[p].result /\ q.stop = proc[p].stop
        /\ q.watcher = proc[p].watcher /\ q.cancelled = proc[p].cancelled
    BY <1>1 DEF ProcRecord, Phases
  <2>2. proc' = [proc EXCEPT ![p] = q]
    BY <1>3 DEF ReadVersion, Step
  <2> HIDE DEF q
  <2> QED BY <1>1, <1>2, <2>1, <2>2, LocalStep DEF Inside
<1>4. CASE ~(dirty \/ ~ok)
  <2> DEFINE q == [proc[p] EXCEPT !.phase = "loop"]
  <2>1. /\ q \in ProcRecord /\ q.phase = "loop"
        /\ q.result = proc[p].result /\ q.stop = proc[p].stop
        /\ q.watcher = proc[p].watcher /\ q.cancelled = proc[p].cancelled
    BY <1>1 DEF ProcRecord, Phases
  <2>2. proc' = [proc EXCEPT ![p] = q]
    BY <1>4 DEF ReadVersion, Step
  <2> HIDE DEF q
  <2> QED BY <1>1, <1>2, <1>4, <2>1, <2>2, LocalStep DEF Inside
<1> QED BY <1>3, <1>4

\* A loop that ends well has nothing left, or was stopped, which only a
\* cancelled process is.
LEMMA InvLoopEnds ==
  ASSUME IInv, NEW p \in Procs, LoopEnds(p)
  PROVE  IInv'
<1>1. /\ proc[p] \in ProcRecord /\ ProcOK(p) /\ proc[p].phase = "loop"
      /\ UNCHANGED database /\ dirty \in BOOLEAN /\ version \in 0 .. Latest
  BY ProcFacts DEF LoopEnds, Step
<1>2. proc[p].result = "none" /\ ~dirty
      /\ (proc[p].stop \/ proc[p].watcher = "sending" => proc[p].cancelled)
  BY SMTT(40), <1>1 DEF ProcOK
<1>3. PICK done \in BOOLEAN, err \in {"ok", "error"} :
        /\ err = "ok" => done \/ proc[p].stop
        /\ proc[p].action = "up" /\ done => ~(version < Latest)
        /\ proc' = [proc EXCEPT ![p] = [proc[p] EXCEPT !.phase = "unlock", !.done = done,
                                                      !.err = err]]
  <2>1. PICK done \in BOOLEAN : done <=> ~More(proc[p])
    OBVIOUS
  <2>2. done = ~More(proc[p]) /\ (proc[p].action = "up" /\ done => ~(version < Latest))
    BY <2>1 DEF More
  <2>3. CASE proc[p].action = "down" /\ More(proc[p]) /\ ~proc[p].stop
    BY <2>2, <2>3, Zenon DEF LoopEnds, Step
  <2>4. CASE ~(proc[p].action = "down" /\ More(proc[p]) /\ ~proc[p].stop)
    <3>1. done \/ proc[p].stop
      BY <2>1, <2>4 DEF LoopEnds
    <3> QED BY <2>2, <2>4, <3>1, Zenon DEF LoopEnds, Step
  <2> QED BY ZenonT(40), <2>3, <2>4
<1> DEFINE q == [proc[p] EXCEPT !.phase = "unlock", !.done = done, !.err = err]
<1>4. /\ q \in ProcRecord /\ q.phase = "unlock" /\ q.err = err /\ q.done = done
      /\ q.action = proc[p].action /\ q.result = proc[p].result /\ q.stop = proc[p].stop
      /\ q.watcher = proc[p].watcher /\ q.cancelled = proc[p].cancelled
  BY <1>1 DEF ProcRecord, Phases
<1>5. proc' = [proc EXCEPT ![p] = q]
  BY <1>3
<1> HIDE DEF q
<1>6. /\ q.result = "none" /\ (q.stop \/ q.watcher = "sending" => q.cancelled)
      /\ q.err # "none" /\ (q.err = "ok" => q.done \/ q.cancelled)
  BY <1>2, <1>3, <1>4
<1>7. q.phase \in Inside /\ proc[p].phase \in Inside
  BY <1>1, <1>4 DEF Inside
<1>8. q.action = "up" /\ q.done => version = Latest
  BY <1>1, <1>3, <1>4, BoundsAssumption
<1> QED BY <1>1, <1>2, <1>4, <1>5, <1>6, <1>7, <1>8, LocalStep

\* A step of the process that has the lock, which it keeps.
LEMMA HolderStep ==
  ASSUME IInv, NEW p \in Procs, NEW q \in ProcRecord,
         proc' = [proc EXCEPT ![p] = q], proc[p].phase \in Inside, UNCHANGED holder,
         version' \in 0 .. Latest, dirty' \in BOOLEAN, hurt' \in BOOLEAN,
         q.phase \in Inside, q.result = proc[p].result, q.watcher = proc[p].watcher,
         q.stop = proc[p].stop, q.cancelled = proc[p].cancelled,
         q.phase \in {"loop", "clean", "migrating"} => (dirty' <=> q.phase # "loop"),
         q.phase = "unlock" => q.err = "error",
         q.phase \in {"version", "unlock"} /\ dirty' => hurt'
  PROVE  IInv'
<1>1. ProcOK(p) /\ proc'[p] = q /\ holder = p /\ q.result = "none"
  BY ProcFacts DEF ProcOK, Inside
<1>2. ProcOK(p)'
  BY <1>1 DEF ProcOK, Inside
<1>3. StopIsSafe'
  BY <1>1 DEF StopIsSafe
<1> QED BY <1>1, <1>2, <1>3, ProcessStep

LEMMA InvBegin ==
  ASSUME IInv, NEW p \in Procs, Begin(p)
  PROVE  IInv'
<1>1. /\ proc[p] \in ProcRecord /\ proc[p].phase = "loop" /\ More(proc[p])
      /\ version \in 0 .. Latest /\ hurt \in BOOLEAN
      /\ dirty' = TRUE /\ UNCHANGED <<holder, hurt>>
  BY ProcFacts DEF Begin, Step
<1>2. version' \in 0 .. Latest
  BY <1>1, BoundsAssumption DEF Begin, More
<1>3. PICK left \in Nat :
        proc' = [proc EXCEPT ![p] = [proc[p] EXCEPT !.phase = "migrating", !.left = left]]
  <2>0. proc[p].left \in Nat
    BY <1>1 DEF ProcRecord
  <2>1. CASE proc[p].action = "down"
    <3>1. proc[p].left - 1 \in Nat
      BY <1>1, <2>0, <2>1 DEF More
    <3>2. proc' = [proc EXCEPT ![p] = [proc[p] EXCEPT !.phase = "migrating",
                                                     !.left = proc[p].left - 1]]
      BY <2>1 DEF Begin, Step
    <3> QED BY <3>1, <3>2
  <2>2. CASE proc[p].action # "down"
    <3>1. proc' = [proc EXCEPT ![p] = [proc[p] EXCEPT !.phase = "migrating",
                                                     !.left = proc[p].left]]
      BY <2>2 DEF Begin, Step
    <3> QED BY <2>0, <3>1
  <2> QED BY <2>1, <2>2
<1> DEFINE q == [proc[p] EXCEPT !.phase = "migrating", !.left = left]
<1>4. /\ q \in ProcRecord /\ q.phase = "migrating"
      /\ q.result = proc[p].result /\ q.stop = proc[p].stop
      /\ q.watcher = proc[p].watcher /\ q.cancelled = proc[p].cancelled
  BY <1>1 DEF ProcRecord, Phases
<1>5. proc' = [proc EXCEPT ![p] = q]
  BY <1>3
<1> HIDE DEF q
<1> QED BY <1>1, <1>2, <1>4, <1>5, HolderStep DEF Inside

LEMMA InvMigrate ==
  ASSUME IInv, NEW p \in Procs, NEW ok \in BOOLEAN, Migrate(p, ok)
  PROVE  IInv'
<1>1. /\ proc[p] \in ProcRecord /\ ProcOK(p) /\ proc[p].phase = "migrating"
      /\ version \in 0 .. Latest /\ dirty \in BOOLEAN /\ hurt \in BOOLEAN
      /\ hurt' = (hurt \/ ~ok) /\ UNCHANGED <<version, dirty, holder>>
  BY ProcFacts DEF Migrate, Step
<1>2. dirty /\ hurt' \in BOOLEAN
  BY <1>1 DEF ProcOK
<1>3. CASE ok
  <2> DEFINE q == [proc[p] EXCEPT !.phase = "clean"]
  <2>1. /\ q \in ProcRecord /\ q.phase = "clean"
        /\ q.result = proc[p].result /\ q.stop = proc[p].stop
        /\ q.watcher = proc[p].watcher /\ q.cancelled = proc[p].cancelled
    BY <1>1 DEF ProcRecord, Phases
  <2>2. proc' = [proc EXCEPT ![p] = q]
    BY <1>3 DEF Migrate, Step
  <2> HIDE DEF q
  <2> QED BY <1>1, <1>2, <2>1, <2>2, HolderStep DEF Inside
<1>4. CASE ~ok
  <2> DEFINE q == [proc[p] EXCEPT !.phase = "unlock", !.err = "error"]
  <2>1. /\ q \in ProcRecord /\ q.phase = "unlock" /\ q.err = "error"
        /\ q.result = proc[p].result /\ q.stop = proc[p].stop
        /\ q.watcher = proc[p].watcher /\ q.cancelled = proc[p].cancelled
    BY <1>1 DEF ProcRecord, Phases
  <2>2. proc' = [proc EXCEPT ![p] = q]
    BY <1>4 DEF Migrate, Step
  <2> HIDE DEF q
  <2> QED BY <1>1, <1>2, <1>4, <2>1, <2>2, HolderStep DEF Inside
<1> QED BY <1>3, <1>4

LEMMA InvClean ==
  ASSUME IInv, NEW p \in Procs, Clean(p)
  PROVE  IInv'
<1> DEFINE q == [proc[p] EXCEPT !.phase = "loop"]
<1>1. /\ proc[p] \in ProcRecord /\ proc[p].phase = "clean"
      /\ version \in 0 .. Latest /\ hurt \in BOOLEAN
      /\ dirty' = FALSE /\ UNCHANGED <<version, holder, hurt>>
  BY ProcFacts DEF Clean, Step
<1>2. /\ q \in ProcRecord /\ q.phase = "loop"
      /\ q.result = proc[p].result /\ q.stop = proc[p].stop
      /\ q.watcher = proc[p].watcher /\ q.cancelled = proc[p].cancelled
  BY <1>1 DEF ProcRecord, Phases
<1>3. proc' = [proc EXCEPT ![p] = q]
  BY DEF Clean, Step
<1> HIDE DEF q
<1> QED BY <1>1, <1>2, <1>3, HolderStep DEF Inside

\* A process gives the lock back, with the version clean or somebody hurt.
LEMMA InvUnlock ==
  ASSUME IInv, NEW p \in Procs, Unlock(p)
  PROVE  IInv'
<1> DEFINE q == [proc[p] EXCEPT !.phase = "result"]
<1>1. /\ proc[p] \in ProcRecord /\ ProcOK(p) /\ proc[p].phase = "unlock"
      /\ version \in 0 .. Latest /\ dirty \in BOOLEAN /\ hurt \in BOOLEAN
      /\ holder' = Nobody /\ UNCHANGED <<version, dirty, hurt>>
  BY ProcFacts DEF Unlock, Step
<1>2. holder = p /\ (dirty => hurt) /\ proc[p].result = "none"
  BY <1>1 DEF ProcOK, Inside
<1>3. /\ q \in ProcRecord /\ q.phase = "result" /\ q.err = proc[p].err /\ q.done = proc[p].done
      /\ q.result = proc[p].result /\ q.stop = proc[p].stop
      /\ q.watcher = proc[p].watcher /\ q.cancelled = proc[p].cancelled
  BY <1>1 DEF ProcRecord, Phases
<1>4. proc' = [proc EXCEPT ![p] = q]
  BY DEF Unlock, Step
<1> HIDE DEF q
<1>5. proc'[p] = q
  BY <1>4, ProcFacts
<1>6. ProcOK(p)'
  BY <1>1, <1>2, <1>3, <1>5 DEF ProcOK, Inside
<1>7. StopIsSafe'
  BY <1>1, <1>2 DEF StopIsSafe
<1> QED BY <1>1, <1>2, <1>3, <1>4, <1>6, <1>7, ProcessStep

LEMMA InvKill ==
  ASSUME IInv, NEW p \in Procs, Kill(p)
  PROVE  IInv'
<1>1. /\ proc[p] \in ProcRecord /\ ProcOK(p) /\ proc' = [proc EXCEPT ![p] = Idle]
      /\ version \in 0 .. Latest /\ dirty \in BOOLEAN /\ hurt \in BOOLEAN
      /\ UNCHANGED <<version, dirty>>
  BY ProcFacts DEF Kill
<1>2. /\ Idle \in ProcRecord /\ Idle.phase = "idle" /\ Idle.result = "none" /\ ~Idle.stop
      /\ Idle.watcher = "none"
  BY DEF Idle, ProcRecord, Phases, Results
<1>3. hurt' \in BOOLEAN /\ (UNCHANGED hurt \/ hurt')
  BY <1>1 DEF Kill
<1>4. \/ holder' = holder /\ holder # p
      \/ holder = p /\ holder' = Nobody
  BY DEF Kill
<1>5. holder' # p
  BY <1>4
<1>6. ProcOK(p)'
  BY <1>1, <1>2, <1>5, ProcFacts DEF ProcOK, Inside
<1>7. StopIsSafe'
  <2>1. CASE holder # p
    BY <1>1, <1>3, <1>4, <2>1 DEF IInv, StopIsSafe
  <2>2. CASE holder = p
    <3>1. dirty => hurt \/ proc[p].phase \in {"migrating", "clean"}
      BY <1>1, <2>2 DEF ProcOK, Inside
    <3>2. hurt' = (hurt \/ proc[p].phase \in {"migrating", "clean"}) /\ dirty' = dirty
      BY DEF Kill
    <3>3. dirty' => hurt'
      BY <3>1, <3>2, Zenon
    <3> QED BY <3>3, Zenon DEF StopIsSafe
  <2> QED BY <2>1, <2>2
<1> QED BY <1>1, <1>2, <1>3, <1>4, <1>6, <1>7, ProcessStep

LEMMA InvRepair ==
  ASSUME IInv, Repair
  PROVE  IInv'
<1>1. TypeOK' /\ SuccessMeansDone' /\ StopIsSafe'
  BY DEF IInv, Repair, TypeOK, SuccessMeansDone, StopIsSafe
<1>2. ASSUME NEW p \in Procs
      PROVE  ProcOK(p)'
  BY DEF IInv, Repair, ProcOK, Inside
<1> QED BY <1>1, <1>2 DEF IInv

-----------------------------------------------------------------------------
(* Theorems                                                                *)

LEMMA StepInv == IInv /\ [Next]_vars => IInv'
<1> SUFFICES ASSUME IInv, [Next]_vars PROVE IInv'
  OBVIOUS
<1>1. CASE UNCHANGED vars
  BY <1>1 DEF vars, IInv, TypeOK, SuccessMeansDone, StopIsSafe, ProcOK
<1>2. ASSUME NEW p \in Procs, Progress(p) PROVE IInv'
  BY <1>2, InvLock, InvLockTimeout, InvLoopEnds, InvBegin, InvClean, InvUnlock, InvResult,
     InvReadVersion, InvMigrate, InvClose DEF Progress
<1>3. ASSUME NEW p \in Procs, Watcher(p) PROVE IInv'
  BY <1>3, InvWatch, InvSend DEF Watcher
<1>4. ASSUME NEW p \in Procs, NEW steps \in 0 .. MaxSteps, NEW opened \in BOOLEAN,
             Start(p, "down", steps, opened) \/ Start(p, "up", 0, opened) \/ Current(p, opened)
      PROVE  IInv'
  BY <1>4, BoundsAssumption, InvStart, InvCurrent
<1> QED BY <1>1, <1>2, <1>3, <1>4, InvCancel, InvKill, InvRepair DEF Next

\* The invariant holds throughout, whatever the number of processes, of
\* migrations and of versions that down is asked to go back.
THEOREM Invariant == Spec => []IInv
<1> QED BY InitInv, StepInv, PTL DEF Spec

\* Every variable keeps within its values; the version never leaves 0 .. Latest.
THEOREM TypeCorrect == Spec => []TypeOK
<1>1. IInv => TypeOK
  BY DEF IInv
<1> QED BY Invariant, <1>1, PTL

\* A command that says it succeeded did all it was asked to; an operation that
\* returned no error gives the lock back on a clean version, and that of an up
\* that was not cancelled is the latest (migration.go:137-144).
THEOREM SuccessIsTrue == Spec => []SuccessMeansDone
<1>1. IInv => SuccessMeansDone
  BY DEF IInv
<1> QED BY Invariant, <1>1, PTL

\* A cancelled command stops between two migrations (migration.go:34).
THEOREM CancellingIsSafe == Spec => []StopIsSafe
<1>1. IInv => StopIsSafe
  BY DEF IInv
<1> QED BY Invariant, <1>1, PTL

-----------------------------------------------------------------------------
(* The steps of the server                                                 *)

USE DEF WithPool, WithCache, Accepting

\* The process takes a step and leaves the requests alone.
LEMMA ServerStep ==
  ASSUME ServerInv, UNCHANGED req,
         step' \in App!Steps, cancelled' \in BOOLEAN, Opened',
         shutdown' \in {"none", "waiting", "done", "lost"},
         pool' \in App!Resource, cache' \in App!Resource,
         pg' \in App!Conditions, rd' \in App!Conditions,
         step \in Accepting => step' \in Accepting
  PROVE  ServerInv'
BY DEF ServerInv, App!TypeOK, RequestOK

\* One request takes a step and leaves everything else alone.
LEMMA RequestStep ==
  ASSUME ServerInv, NEW q \in Requests, NEW x \in App!RequestRecord,
         req' = [req EXCEPT ![q] = x], UNCHANGED <<App!process, pg, rd>>, RequestOK(x)
  PROVE  ServerInv'
<1>1. App!TypeOK' /\ Opened'
  BY DEF ServerInv, App!TypeOK, Opened, App!process
<1>2. ASSUME NEW p \in Requests PROVE RequestOK(req[p])'
  BY DEF ServerInv, App!TypeOK, RequestOK, App!process
<1> QED BY <1>1, <1>2 DEF ServerInv

LEMMA ServerInit == App!Init => ServerInv
<1> SUFFICES ASSUME App!Init PROVE ServerInv
  OBVIOUS
<1>1. [stage |-> "idle", kind |-> "none", saw |-> {}, answer |-> "none"] \in App!RequestRecord
  BY DEF App!RequestRecord, App!Kinds
<1>2. req \in [Requests -> App!RequestRecord]
  BY <1>1 DEF App!Init
<1>3. App!TypeOK /\ Opened
  BY <1>2 DEF App!Init, App!TypeOK, Opened, App!Steps, App!Resource, App!Conditions
<1>4. \A q \in Requests : RequestOK(req[q])
  BY DEF App!Init, RequestOK
<1> QED BY <1>3, <1>4 DEF ServerInv

-----------------------------------------------------------------------------
(* The process                                                             *)

\* On the way up.
LEMMA ServerStarting ==
  ASSUME ServerInv, NEW ok \in BOOLEAN,
         \/ App!Load(ok) \/ App!CreatePool(ok) \/ App!PingPool(ok) \/ App!CreateClient
         \/ App!PingClient(ok) \/ App!Assemble(ok) \/ App!Listen \/ App!Bind(ok)
  PROVE  ServerInv'
<1> USE DEF ServerInv, App!TypeOK, Opened, App!Steps, App!Resource, App!Close
<1>1. CASE App!Load(ok)
  BY <1>1, ServerStep DEF App!Load
<1>2. CASE App!CreatePool(ok)
  BY <1>2, ServerStep DEF App!CreatePool
<1>3. CASE App!PingPool(ok)
  BY <1>3, ServerStep DEF App!PingPool
<1>4. CASE App!CreateClient
  BY <1>4, ServerStep DEF App!CreateClient
<1>5. CASE App!PingClient(ok)
  BY <1>5, ServerStep DEF App!PingClient
<1>6. CASE App!Assemble(ok)
  BY <1>6, ServerStep DEF App!Assemble
<1>7. CASE App!Listen
  BY <1>7, ServerStep DEF App!Listen
<1>8. CASE App!Bind(ok)
  BY <1>8, ServerStep DEF App!Bind
<1> QED BY <1>1, <1>2, <1>3, <1>4, <1>5, <1>6, <1>7, <1>8

\* On the way down, up to the last step.
LEMMA ServerStopping ==
  ASSUME ServerInv, App!Shutdown \/ App!Return \/ App!CloseRedis
  PROVE  ServerInv'
<1> USE DEF ServerInv, App!TypeOK, Opened, App!Steps, App!Resource, App!Close
<1>1. CASE App!Shutdown
  BY <1>1, ServerStep DEF App!Shutdown
<1>2. CASE App!Return
  BY <1>2, ServerStep DEF App!Return
<1>3. CASE App!CloseRedis
  BY <1>3, ServerStep DEF App!CloseRedis
<1> QED BY <1>1, <1>2, <1>3

\* The pool is closed and whatever is still served ends with the process.
LEMMA ServerClosePool ==
  ASSUME ServerInv, App!ClosePool
  PROVE  ServerInv'
<1>1. /\ step' = "exited" /\ pool' = "closed" /\ cache' = "closed"
      /\ UNCHANGED <<cancelled, shutdown, pg, rd>>
  BY DEF ServerInv, Opened, App!ClosePool, App!Close
<1>2. Opened'
  BY <1>1 DEF Opened
<1>3. req' = [q \in Requests |-> [req[q] EXCEPT !.stage = "idle"]]
  BY DEF App!ClosePool
<1>4. ASSUME NEW q \in Requests
      PROVE  /\ [req[q] EXCEPT !.stage = "idle"] \in App!RequestRecord
             /\ RequestOK(req[q])'
  <2>1. req[q] \in App!RequestRecord /\ RequestOK(req[q])
    BY DEF ServerInv, App!TypeOK
  <2> DEFINE x == [req[q] EXCEPT !.stage = "idle"]
  <2>2. /\ x \in App!RequestRecord /\ x.stage = "idle" /\ x.kind = req[q].kind
        /\ x.saw = req[q].saw /\ x.answer = req[q].answer
    BY <2>1 DEF App!RequestRecord
  <2>3. req'[q] = x
    BY <1>3
  <2> HIDE DEF x
  <2>4. RequestOK(req[q])'
    BY <2>1, <2>2, <2>3 DEF RequestOK
  <2> QED BY <2>2, <2>4 DEF x
<1>5. App!TypeOK'
  BY <1>1, <1>3, <1>4 DEF ServerInv, App!TypeOK, App!Steps, App!Resource
<1> QED BY <1>2, <1>4, <1>5 DEF ServerInv

-----------------------------------------------------------------------------
(* The requests                                                            *)

LEMMA RequestBegin ==
  ASSUME ServerInv, NEW q \in Requests, NEW kind \in App!Kinds, App!Begin(q, kind)
  PROVE  ServerInv'
<1> DEFINE x == [stage |-> "postgres", kind |-> kind, saw |-> {}, answer |-> "none"]
<1>1. x \in App!RequestRecord /\ RequestOK(x)
  BY DEF App!RequestRecord, RequestOK, App!Begin
<1> QED BY <1>1, RequestStep DEF App!Begin

\* A request ends: with no answer that is wrong.
LEMMA RequestEnd ==
  ASSUME ServerInv, NEW q \in Requests, NEW saw \in SUBSET {"postgres", "redis"},
         NEW answer \in {"ok", "unavailable"},
         req[q].kind = "readyz" /\ answer = "ok" => saw = {"postgres", "redis"},
         req' = [req EXCEPT ![q] = [req[q] EXCEPT !.saw = saw, !.stage = "idle",
                                                  !.answer = answer]],
         UNCHANGED <<App!process, pg, rd>>
  PROVE  ServerInv'
<1>1. PICK x \in App!RequestRecord :
        x = [req[q] EXCEPT !.saw = saw, !.stage = "idle", !.answer = answer]
  BY ZenonT(40) DEF ServerInv, App!TypeOK, App!RequestRecord
<1>2. x.stage = "idle" /\ x.kind = req[q].kind /\ x.saw = saw /\ x.answer = answer
  BY <1>1 DEF ServerInv, App!TypeOK, App!RequestRecord
<1>3. RequestOK(x)
  BY <1>2 DEF RequestOK
<1> QED BY <1>1, <1>3, RequestStep

LEMMA RequestUnavailable ==
  ASSUME ServerInv, NEW q \in Requests,
         req' = [req EXCEPT ![q] = [req[q] EXCEPT !.stage = "idle", !.answer = "unavailable"]],
         UNCHANGED <<App!process, pg, rd>>
  PROVE  ServerInv'
<1>1. req[q] \in App!RequestRecord
  BY DEF ServerInv, App!TypeOK
<1>2. [req[q] EXCEPT !.stage = "idle", !.answer = "unavailable"]
        = [req[q] EXCEPT !.saw = req[q].saw, !.stage = "idle", !.answer = "unavailable"]
  BY <1>1 DEF App!RequestRecord
<1>3. req[q].saw \in SUBSET {"postgres", "redis"}
  BY <1>1 DEF App!RequestRecord
<1> QED BY <1>2, <1>3, RequestEnd

LEMMA RequestAskPostgres ==
  ASSUME ServerInv, NEW q \in Requests, App!AskPostgres(q)
  PROVE  ServerInv'
<1>1. req[q] \in App!RequestRecord /\ RequestOK(req[q]) /\ req[q].stage = "postgres"
      /\ UNCHANGED <<App!process, pg, rd>>
  BY DEF ServerInv, App!TypeOK, App!AskPostgres
<1>2. CASE req' = [req EXCEPT ![q] = [req[q] EXCEPT !.stage = "idle", !.answer = "unavailable"]]
  BY <1>1, <1>2, RequestUnavailable
<1>3. CASE /\ req[q].kind = "readyz"
           /\ req' = [req EXCEPT ![q] = [req[q] EXCEPT !.saw = {"postgres"}, !.stage = "redis"]]
  <2>1. PICK x \in App!RequestRecord : x = [req[q] EXCEPT !.saw = {"postgres"}, !.stage = "redis"]
    BY <1>1 DEF App!RequestRecord
  <2>2. x.stage = "redis" /\ x.kind = "readyz" /\ x.saw = {"postgres"} /\ x.answer = req[q].answer
    BY <1>1, <1>3, <2>1 DEF App!RequestRecord
  <2>3. RequestOK(x)
    BY <1>1, <2>2 DEF RequestOK
  <2> QED BY <1>1, <1>3, <2>1, <2>3, RequestStep
<1>4. CASE /\ req[q].kind # "readyz"
           /\ req' = [req EXCEPT ![q] = [req[q] EXCEPT !.saw = {"postgres"}, !.stage = "idle",
                                                      !.answer = "ok"]]
  BY <1>1, <1>4, RequestEnd
<1> QED BY <1>2, <1>3, <1>4 DEF App!AskPostgres

LEMMA RequestAskRedis ==
  ASSUME ServerInv, NEW q \in Requests, App!AskRedis(q)
  PROVE  ServerInv'
<1>1. req[q].saw \cup {"redis"} = {"postgres", "redis"} /\ UNCHANGED <<App!process, pg, rd>>
  BY DEF ServerInv, RequestOK, App!AskRedis
<1>2. CASE req' = [req EXCEPT ![q] = [req[q] EXCEPT !.stage = "idle", !.answer = "unavailable"]]
  BY <1>1, <1>2, RequestUnavailable
<1>3. CASE req' = [req EXCEPT ![q] = [req[q] EXCEPT !.saw = {"postgres", "redis"},
                                                   !.stage = "idle", !.answer = "ok"]]
  BY <1>1, <1>3, RequestEnd
<1> QED BY <1>1, <1>2, <1>3 DEF App!AskRedis

-----------------------------------------------------------------------------
(* The server as a whole                                                   *)

LEMMA ServerNext == ServerInv /\ [App!Next]_(App!vars) => ServerInv'
<1> SUFFICES ASSUME ServerInv, [App!Next]_(App!vars) PROVE ServerInv'
  OBVIOUS
<1>1. CASE UNCHANGED App!vars
  BY <1>1 DEF App!vars, App!process, ServerInv, App!TypeOK, Opened, RequestOK
<1>2. CASE App!Run
  BY <1>2, ServerStarting, ServerStopping, ServerClosePool DEF App!Run
<1>3. CASE App!Signal
  BY <1>3, ServerStep DEF App!Signal, ServerInv, App!TypeOK, Opened
<1>4. CASE App!Change
  BY <1>4, ServerStep DEF App!Change, ServerInv, App!TypeOK, Opened, App!process
<1>5. ASSUME NEW q \in Requests, App!Handle(q) PROVE ServerInv'
  BY <1>5, RequestAskPostgres, RequestAskRedis, RequestUnavailable DEF App!Handle, App!Expire
<1> QED BY <1>1, <1>2, <1>3, <1>4, <1>5, RequestBegin DEF App!Next

-----------------------------------------------------------------------------
(* The program                                                             *)

\* A step of the program is one of the migration commands or of none of them.
LEMMA MainRunsMigrations == MainSpec => Spec
<1>1. MainInit => Init
  BY DEF MainInit
<1>2. [MainNext]_mainVars => [Next]_vars
  BY DEF MainNext, mainVars, Run, Migrating, Serving
<1> QED BY <1>1, <1>2, PTL DEF MainSpec, Spec

\* And one of the server or of nothing in it.
LEMMA MainRunsServer == MainSpec => App!Spec
<1>1. MainInit => App!Init
  BY DEF MainInit
<1>2. [MainNext]_mainVars => [App!Next]_(App!vars)
  BY DEF MainNext, mainVars, Run, Migrating, Serving, server, App!vars, App!process
<1> QED BY <1>1, <1>2, PTL DEF MainSpec, App!Spec

\* The invariant of the server holds throughout, whatever the number of requests.
THEOREM ServerInvariant == MainSpec => []ServerInv
<1>1. App!Spec => []ServerInv
  BY ServerInit, ServerNext, PTL DEF App!Spec
<1> QED BY <1>1, MainRunsServer, PTL

\* Every variable of the program keeps within its values, those of the migration
\* commands and those of the server.
THEOREM ProgramTypes == MainSpec => []TypesOK
<1>1. TypeOK /\ ServerInv => TypesOK
  BY DEF TypesOK, ServerInv
<1> QED BY <1>1, TypeCorrect, MainRunsMigrations, ServerInvariant, PTL

\* The program's migration commands tell the truth and stop between migrations
\* (migration.go:34, 137-144; main.go:62-78).
THEOREM ProgramMigrates == MainSpec => [](SuccessMeansDone /\ StopIsSafe)
BY SuccessIsTrue, CancellingIsSafe, MainRunsMigrations, PTL

\* The program closes what it has opened, once, however it ends (data.go:32-34,
\* app.go:32-36).
THEOREM ProgramClosesOnce == MainSpec => []ClosedExactlyOnce
<1>1. ServerInv => ClosedExactlyOnce
  BY DEF ServerInv, App!TypeOK, Opened, App!Resource, ClosedExactlyOnce,
         App!ClosedExactlyOnce
<1> QED BY <1>1, ServerInvariant, PTL

\* Until a signal stops its server, whoever it serves has both resources open
\* (app.go:28-52).
THEOREM ProgramServesOpen == MainSpec => []ServesOnlyOpen
<1>1. ServerInv => ServesOnlyOpen
  BY DEF ServerInv, Opened, RequestOK, ServesOnlyOpen, App!ServesOnlyOpen
<1> QED BY <1>1, ServerInvariant, PTL

\* A readyz that the program answers with ok has asked both services
\* (data.go:58-67).
THEOREM ProgramReadyTruth == MainSpec => []ReadyIsTrue
<1>1. ServerInv => ReadyIsTrue
  BY DEF ServerInv, RequestOK, ReadyIsTrue, App!ReadyIsTrue
<1> QED BY <1>1, ServerInvariant, PTL
=============================================================================
