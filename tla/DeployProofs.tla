---------------------------- MODULE DeployProofs ----------------------------
(***************************************************************************)
(* Proofs about Deploy: whatever fails or is cut off, and in whatever      *)
(* order releases are deployed, the invariant holds and every step is one  *)
(* that Rollout allows.                                                    *)
(***************************************************************************)
EXTENDS Deploy, TLAPS

-----------------------------------------------------------------------------
(* The inductive invariant                                                 *)

\* Where the script is: its release's directory, its port and its migrations.
ScriptOK ==
    /\ step # "idle" => sha \in Shas /\ port \in Ports /\ outcome = "none"
    /\ step \in {"unpack", "install"} => dirs[sha].files = "absent"
    /\ step \notin {"idle", "unpack", "install"} => dirs[sha].files = "complete"
    /\ step \notin {"idle", "unpack", "install", "port"} => dirs[sha].port \in Ports
    /\ step \in {"up", "wait", "link", "record", "rollback", "rollbackWait"} =>
         schema >= Needs[sha]
    /\ step \in {"link", "record"} => sha \in ready
    /\ step \in {"unpack", "install", "port", "build", "migrate", "up"} => running = before
    /\ step = "rollback" => running \in {None, before, [sha |-> sha, port |-> port]}
    /\ step = "record" => current = sha
    /\ step \in {"build", "migrate", "up", "wait", "link", "record"} => dirs[sha].port = port
    /\ step # "idle" =>
         previous = IF step = "record" THEN previous ELSE IF current = sha THEN None ELSE current
    /\ step \in {"wait", "link", "record"} => running = [sha |-> sha, port |-> port]
    /\ step = "rollbackWait" =>
         /\ previous # None /\ current = previous
         /\ running = [sha |-> previous, port |-> dirs[previous].port]

IInv ==
    /\ TypeOK
    /\ CurrentIsSound
    /\ \A s \in ready : dirs[s].files = "complete" /\ schema >= Needs[s]
    /\ SchemaSuffices
    /\ OutcomeIsTrue
    /\ ScriptOK

-----------------------------------------------------------------------------
\* The server, apart from the script that is at work on it.
site == <<dirs, current, lastSha, running, schema, ready>>

LEMMA NoneFacts == None \notin Shas /\ None \notin Ports /\ None \notin Service
  BY NoneAssumption DEF Service

LEMMA InitInv == Init => IInv
<1> SUFFICES ASSUME Init PROVE IInv
  OBVIOUS
<1> USE DEF Init
<1>1. TypeOK
  BY DEF TypeOK, Dir, Steps, Outcomes
<1>2. CurrentIsSound /\ SchemaSuffices /\ OutcomeIsTrue /\ ScriptOK
  BY DEF CurrentIsSound, SchemaSuffices, OutcomeIsTrue, OldKeepsRunning,
         RestoredIsCurrent, SuccessIsCurrent, NoOtherIsCurrent, ScriptOK
<1> QED BY <1>1, <1>2 DEF IInv

-----------------------------------------------------------------------------
(* Each step keeps the invariant                                           *)

LEMMA InvStart ==
  ASSUME IInv, NEW s \in Shas, NEW p \in Ports, Start(s, p)
  PROVE  IInv'
<1> USE NoneFacts
<1>1. TypeOK'
  BY DEF IInv, TypeOK, Start, Steps, Outcomes, Dir
<1>2. ScriptOK'
  BY DEF IInv, TypeOK, ScriptOK, Start, Dir, CurrentIsSound
<1> QED BY <1>1, <1>2 DEF IInv, TypeOK, Start, CurrentIsSound, SchemaSuffices,
        OutcomeIsTrue, OldKeepsRunning, RestoredIsCurrent,
        SuccessIsCurrent, NoOtherIsCurrent

LEMMA InvUnpack ==
  ASSUME IInv, Unpack
  PROVE  IInv'
<1> USE NoneFacts DEF Unpack, Goto
<1>1. TypeOK'
  BY DEF IInv, TypeOK, Steps
<1>2. ScriptOK'
  BY DEF IInv, ScriptOK
<1> QED BY <1>1, <1>2 DEF IInv, CurrentIsSound, SchemaSuffices,
        OutcomeIsTrue, OldKeepsRunning, RestoredIsCurrent,
        SuccessIsCurrent, NoOtherIsCurrent

LEMMA InvInstall ==
  ASSUME IInv, NEW complete \in BOOLEAN, Install(complete)
  PROVE  IInv'
<1> USE NoneFacts
<1>0. /\ sha \in Shas /\ port \in Ports /\ dirs[sha].files = "absent"
      /\ step = "install" /\ dirs[sha] \in Dir /\ running = before
      /\ previous = IF current = sha THEN None ELSE current
  BY DEF IInv, TypeOK, ScriptOK, Install
<1>1. /\ dirs' \in [Shas -> Dir]
      /\ \A s \in Shas : /\ dirs[s].files = "complete" => dirs'[s] = dirs[s]
                         /\ dirs'[s].port = dirs[s].port
      /\ step' = "port" => dirs'[sha].files = "complete"
  BY <1>0 DEF IInv, TypeOK, Install, Goto, End, Dir
<1>2. /\ step' \in {"port", "idle"} /\ outcome' \in Outcomes
      /\ step' = "port" => outcome' = "none"
      /\ step' = "idle" => outcome' = "refused"
      /\ UNCHANGED <<current, lastSha, running, schema, ready,
                     sha, port, previous, before>>
  BY <1>0 DEF IInv, ScriptOK, Install, Goto, End, Outcomes
<1>3. TypeOK'
  BY <1>1, <1>2 DEF IInv, TypeOK, Steps
<1>4. ScriptOK'
  BY <1>0, <1>1, <1>2 DEF ScriptOK
<1>5. CurrentIsSound' /\ \A s \in ready' : dirs'[s].files = "complete" /\ schema' >= Needs[s]
  BY <1>1, <1>2 DEF IInv, TypeOK, CurrentIsSound
<1>6. SchemaSuffices' /\ OutcomeIsTrue'
  BY <1>0, <1>1, <1>2 DEF IInv, SchemaSuffices, OutcomeIsTrue, OldKeepsRunning,
     RestoredIsCurrent, SuccessIsCurrent, NoOtherIsCurrent
<1> QED BY <1>3, <1>4, <1>5, <1>6 DEF IInv

LEMMA InvWritePort ==
  ASSUME IInv, NEW paired \in BOOLEAN, WritePort(paired)
  PROVE  IInv'
<1> USE NoneFacts
<1>0. /\ sha \in Shas /\ port \in Ports /\ dirs[sha].files = "complete"
      /\ step = "port" /\ dirs[sha] \in Dir /\ running = before
      /\ previous = IF current = sha THEN None ELSE current
  BY DEF IInv, TypeOK, ScriptOK, WritePort
<1>1. /\ dirs' \in [Shas -> Dir]
      /\ \A s \in Shas : /\ dirs'[s].files = dirs[s].files
                         /\ dirs[s].port # None => dirs'[s].port # None
      /\ step' = "build" => dirs'[sha].port = port
  BY <1>0 DEF IInv, TypeOK, WritePort, Goto, End, Dir
<1>2. /\ step' \in {"build", "idle"}
      /\ step' = "build" => outcome' = "none"
      /\ step' = "idle" => outcome' = "refused"
      /\ UNCHANGED <<current, lastSha, running, schema, ready,
                     sha, port, previous, before>>
  BY <1>0 DEF IInv, ScriptOK, WritePort, Goto, End
<1>3. TypeOK'
  BY <1>1, <1>2 DEF IInv, TypeOK, Steps, Outcomes
<1>4. ScriptOK'
  BY <1>0, <1>1, <1>2 DEF ScriptOK
<1>5. CurrentIsSound' /\ \A s \in ready' : dirs'[s].files = "complete" /\ schema' >= Needs[s]
  BY <1>1, <1>2 DEF IInv, TypeOK, CurrentIsSound
<1>6. SchemaSuffices' /\ OutcomeIsTrue'
  BY <1>0, <1>1, <1>2 DEF IInv, SchemaSuffices, OutcomeIsTrue, OldKeepsRunning,
     RestoredIsCurrent, SuccessIsCurrent, NoOtherIsCurrent
<1> QED BY <1>3, <1>4, <1>5, <1>6 DEF IInv

LEMMA InvBuild ==
  ASSUME IInv, NEW ok \in BOOLEAN, Build(ok)
  PROVE  IInv'
<1> USE NoneFacts
<1>1. /\ step = "build" /\ step' \in {"migrate", "idle"}
      /\ step' = "migrate" => outcome' = "none"
      /\ step' = "idle" => outcome' = "kept"
      /\ UNCHANGED <<site, sha, port, previous, before>>
  BY DEF IInv, ScriptOK, Build, Goto, End, site
<1>2. TypeOK'
  BY <1>1 DEF IInv, TypeOK, Steps, Outcomes, site
<1>3. ScriptOK'
  BY <1>1 DEF IInv, ScriptOK, site
<1>4. OutcomeIsTrue'
  BY <1>1 DEF IInv, ScriptOK, OutcomeIsTrue, OldKeepsRunning,
     RestoredIsCurrent, SuccessIsCurrent, NoOtherIsCurrent, site
<1> QED BY <1>1, <1>2, <1>3, <1>4 DEF IInv, CurrentIsSound, SchemaSuffices, site

LEMMA InvMigrate ==
  ASSUME IInv, NEW reached, Migrate(reached)
  PROVE  IInv'
<1> USE NoneFacts
<1>0. /\ step = "migrate" /\ sha \in Shas /\ schema \in Nat /\ Needs[sha] \in Nat
      /\ running = before
  BY NeedsAssumption DEF IInv, TypeOK, ScriptOK, Migrate
<1>1. schema' \in Nat /\ schema' >= schema
  BY <1>0 DEF Migrate
<1>2. /\ step' \in {"up", "idle"}
      /\ step' = "up" => outcome' = "none" /\ schema' >= Needs[sha]
      /\ step' = "idle" => outcome' = "kept"
      /\ UNCHANGED <<dirs, current, lastSha, running, ready, sha, port, previous, before>>
  BY <1>0 DEF IInv, ScriptOK, Migrate, Goto, End
<1>3. TypeOK'
  BY <1>1, <1>2 DEF IInv, TypeOK, Steps, Outcomes
<1>4. ScriptOK'
  BY <1>0, <1>2 DEF IInv, ScriptOK
<1>5. SchemaSuffices' /\ \A s \in ready' : dirs'[s].files = "complete" /\ schema' >= Needs[s]
  <2>1. \A s \in Shas : schema >= Needs[s] => schema' >= Needs[s]
    BY <1>0, <1>1, NeedsAssumption
  <2>2. running # None => running.sha \in Shas
    BY DEF IInv, TypeOK, Service
  <2> QED BY <1>2, <2>1, <2>2 DEF IInv, TypeOK, SchemaSuffices
<1>6. OutcomeIsTrue'
  BY <1>0, <1>2 DEF OutcomeIsTrue, OldKeepsRunning, RestoredIsCurrent,
     SuccessIsCurrent, NoOtherIsCurrent
<1> QED BY <1>2, <1>3, <1>4, <1>5, <1>6 DEF IInv, CurrentIsSound

\* Where the release of the script and the current one may be run.
LEMMA Runnable ==
  ASSUME IInv
  PROVE  /\ step \in {"up", "wait", "link", "record", "rollback", "rollbackWait"}
              => [sha |-> sha, port |-> port] \in Service /\ schema >= Needs[sha]
         /\ current # None
              => /\ [sha |-> current, port |-> dirs[current].port] \in Service
                 /\ schema >= Needs[current]
  <1>1. step \in {"up", "wait", "link", "record", "rollback", "rollbackWait"}
              => [sha |-> sha, port |-> port] \in Service /\ schema >= Needs[sha]
    BY DEF IInv, ScriptOK, Service
  <1>2. ASSUME current # None
        PROVE  /\ [sha |-> current, port |-> dirs[current].port] \in Service
               /\ schema >= Needs[current]
    <2>1. current \in ready /\ current \in Shas /\ dirs[current].port # None
      BY <1>2 DEF IInv, TypeOK, CurrentIsSound
    <2>2. dirs[current].port \in Ports
      BY <2>1 DEF IInv, TypeOK, Dir
    <2> QED BY <2>1, <2>2 DEF IInv, Service
  <1> QED BY <1>1, <1>2

LEMMA InvUp ==
  ASSUME IInv, NEW ok \in BOOLEAN, Up(ok)
  PROVE  IInv'
<1> USE NoneFacts
<1> DEFINE new == [sha |-> sha, port |-> port]
<1>0. /\ step = "up" /\ new \in Service /\ schema >= Needs[new.sha]
  BY Runnable DEF Up
<1>1. /\ step' \in {"wait", "rollback"} /\ running' \in {running, None, new}
      /\ step' = "wait" => running' = new
      /\ UNCHANGED <<dirs, current, lastSha, schema, ready,
                     sha, port, previous, outcome, before>>
  BY DEF Up, Goto
<1>2. outcome = "none"
  BY <1>0 DEF IInv, ScriptOK
<1>3. TypeOK'
  BY <1>0, <1>1 DEF IInv, TypeOK, Steps
<1>4. ScriptOK'
  BY <1>0, <1>1 DEF IInv, ScriptOK
<1>5. SchemaSuffices'
  <2> HIDE DEF new
  <2> QED BY <1>0, <1>1 DEF IInv, SchemaSuffices
<1>6. OutcomeIsTrue'
  BY <1>1, <1>2 DEF OutcomeIsTrue, OldKeepsRunning, RestoredIsCurrent,
     SuccessIsCurrent, NoOtherIsCurrent
<1> QED BY <1>1, <1>3, <1>4, <1>5, <1>6 DEF IInv, CurrentIsSound

LEMMA InvWait ==
  ASSUME IInv, NEW ok \in BOOLEAN, Wait(ok)
  PROVE  IInv'
<1> USE NoneFacts
<1>0. /\ step = "wait" /\ sha \in Shas /\ schema >= Needs[sha] /\ dirs[sha].files = "complete"
      /\ outcome = "none"
  BY DEF IInv, ScriptOK, Wait
<1>1. /\ step' \in {"link", "rollback"}
      /\ step' = "link" => ready' = ready \cup {sha}
      /\ ready' \in {ready, ready \cup {sha}}
      /\ UNCHANGED <<dirs, current, lastSha, running, schema,
                     sha, port, previous, outcome, before>>
  BY DEF Wait, Goto
<1>2. TypeOK'
  BY <1>0, <1>1 DEF IInv, TypeOK, Steps
<1>3. ScriptOK'
  BY <1>0, <1>1 DEF IInv, ScriptOK
<1>4. CurrentIsSound' /\ \A s \in ready' : dirs'[s].files = "complete" /\ schema' >= Needs[s]
  BY <1>0, <1>1 DEF IInv, CurrentIsSound
<1>5. SchemaSuffices' /\ OutcomeIsTrue'
  BY <1>0, <1>1 DEF IInv, SchemaSuffices, OutcomeIsTrue, OldKeepsRunning,
     RestoredIsCurrent, SuccessIsCurrent, NoOtherIsCurrent
<1> QED BY <1>2, <1>3, <1>4, <1>5 DEF IInv

LEMMA InvLink ==
  ASSUME IInv, Link
  PROVE  IInv'
<1> USE NoneFacts DEF Link, Goto
<1>0. /\ sha \in Shas /\ sha \in ready /\ outcome = "none"
      /\ dirs[sha].files = "complete" /\ dirs[sha].port \in Ports
  BY DEF IInv, ScriptOK
<1>1. TypeOK'
  BY <1>0 DEF IInv, TypeOK, Steps
<1>2. ScriptOK'
  BY <1>0 DEF IInv, ScriptOK
<1>3. CurrentIsSound' /\ SchemaSuffices'
  BY <1>0 DEF IInv, CurrentIsSound, SchemaSuffices
<1>4. OutcomeIsTrue'
  BY <1>0 DEF OutcomeIsTrue, OldKeepsRunning, RestoredIsCurrent,
     SuccessIsCurrent, NoOtherIsCurrent
<1> QED BY <1>1, <1>2, <1>3, <1>4 DEF IInv

LEMMA InvRecord ==
  ASSUME IInv, Record
  PROVE  IInv'
<1> USE NoneFacts DEF Record, End
<1>1. TypeOK'
  BY DEF IInv, TypeOK, Steps, Outcomes, ScriptOK
<1>2. ScriptOK'
  BY DEF ScriptOK
<1>3. CurrentIsSound' /\ SchemaSuffices'
  BY DEF IInv, CurrentIsSound, SchemaSuffices
<1>4. OutcomeIsTrue'
  BY DEF IInv, ScriptOK, OutcomeIsTrue, OldKeepsRunning, RestoredIsCurrent,
     SuccessIsCurrent, NoOtherIsCurrent
<1> QED BY <1>1, <1>2, <1>3, <1>4 DEF IInv

\* What the script may go back to is the current release, where that is.
LEMMA PreviousIsCurrent ==
  ASSUME IInv, step = "rollback"
  PROVE  /\ previous # None => previous = current
         /\ previous = None => current \in {None, sha}
         /\ previous # None => dirs[previous].files # "absent" /\ dirs[previous].port # None
<1>1. previous = IF current = sha THEN None ELSE current
  BY DEF IInv, ScriptOK
<1>2. current # None => dirs[current].files # "absent" /\ dirs[current].port # None
  BY DEF IInv, CurrentIsSound
<1> QED BY <1>1, <1>2

LEMMA InvRollback ==
  ASSUME IInv, NEW ok \in BOOLEAN, Rollback(ok)
  PROVE  IInv'
<1> USE NoneFacts
<1> DEFINE old == [sha |-> previous, port |-> dirs[previous].port]
<1>0. step = "rollback" /\ UNCHANGED <<dirs, current, lastSha, schema, ready,
                                       sha, port, previous, before>>
  BY DEF Rollback, Goto, End
<1>1. CASE previous # None
  <2>1. /\ current = previous /\ current # None
        /\ old \in Service /\ schema >= Needs[old.sha]
    BY <1>0, <1>1, PreviousIsCurrent, Runnable
  <2>2. /\ running' \in {running, None, old}
        /\ \/ step' = "rollbackWait" /\ running' = old /\ outcome' = outcome
           \/ step' = "idle" /\ outcome' = "unrestored"
    BY <1>0, <1>1, PreviousIsCurrent DEF Rollback, Goto, End
  <2>3. outcome = "none"
    BY <1>0 DEF IInv, ScriptOK
  <2>4. TypeOK'
    BY <1>0, <2>1, <2>2 DEF IInv, TypeOK, Steps, Outcomes
  <2>5. ScriptOK'
    BY <1>0, <1>1, <2>1, <2>2, <2>3 DEF IInv, ScriptOK
  <2>6. SchemaSuffices'
    <3> HIDE DEF old
    <3> QED BY <1>0, <2>1, <2>2 DEF IInv, SchemaSuffices
  <2>7. OutcomeIsTrue'
    BY <2>2, <2>3 DEF OutcomeIsTrue, OldKeepsRunning, RestoredIsCurrent,
       SuccessIsCurrent, NoOtherIsCurrent
  <2> QED BY <1>0, <2>4, <2>5, <2>6, <2>7 DEF IInv, CurrentIsSound
<1>2. CASE previous = None
  <2>1. /\ running' \in {running, None} /\ step' = "idle" /\ outcome' = "stopped"
        /\ running \in {None, before, [sha |-> sha, port |-> port]}
    BY <1>0, <1>2 DEF Rollback, End, IInv, ScriptOK
  <2>2. current \in {None, sha}
    BY <1>0, <1>2, PreviousIsCurrent
  <2>3. TypeOK'
    BY <1>0, <2>1 DEF IInv, TypeOK, Steps, Outcomes
  <2>4. ScriptOK'
    BY <1>0, <2>1 DEF ScriptOK
  <2>5. SchemaSuffices'
    BY <1>0, <2>1 DEF IInv, SchemaSuffices
  <2>6. OutcomeIsTrue'
    BY <1>0, <2>1, <2>2 DEF OutcomeIsTrue, OldKeepsRunning, RestoredIsCurrent,
       SuccessIsCurrent, NoOtherIsCurrent
  <2> QED BY <1>0, <2>3, <2>4, <2>5, <2>6 DEF IInv, CurrentIsSound
<1> QED BY <1>1, <1>2

LEMMA InvRollbackWait ==
  ASSUME IInv, NEW ok \in BOOLEAN, RollbackWait(ok)
  PROVE  IInv'
<1> USE NoneFacts DEF RollbackWait, End
<1>0. current # None /\ running = [sha |-> current, port |-> dirs[current].port]
  BY DEF IInv, ScriptOK
<1>1. TypeOK'
  BY DEF IInv, TypeOK, Steps, Outcomes
<1>2. ScriptOK'
  BY DEF ScriptOK
<1>3. CurrentIsSound' /\ SchemaSuffices'
  BY DEF IInv, CurrentIsSound, SchemaSuffices
<1>4. OutcomeIsTrue'
  BY <1>0 DEF OutcomeIsTrue, OldKeepsRunning, RestoredIsCurrent,
     SuccessIsCurrent, NoOtherIsCurrent
<1> QED BY <1>1, <1>2, <1>3, <1>4 DEF IInv

\* A cut leaves what ran, nothing, or a release that the schema suffices for.
LEMMA KillEffect ==
  ASSUME IInv, Kill
  PROVE  /\ schema' \in Nat /\ schema' >= schema
         /\ schema' # schema => running' = running
         /\ \/ running' = running
            \/ running' = None
            \/ running' \in Service /\ schema >= Needs[running'.sha]
<1> USE NoneFacts
<1>1. schema' \in Nat /\ schema' >= schema
  <2>1. schema \in Nat /\ (step # "idle" => Needs[sha] \in Nat)
    BY NeedsAssumption DEF IInv, TypeOK, ScriptOK
  <2> QED BY <2>1 DEF Kill
<1>2. CASE step = "up"
  BY <1>1, <1>2, Runnable DEF Kill
<1>3. CASE step = "rollback"
  <2>1. \/ running' \in {running, None}
        \/ previous # None /\ running' = [sha |-> previous, port |-> dirs[previous].port]
    BY <1>3 DEF Kill
  <2>2. previous # None => previous = current
    BY <1>3, PreviousIsCurrent
  <2>3. previous # None => /\ [sha |-> previous, port |-> dirs[previous].port] \in Service
                           /\ schema >= Needs[previous]
    BY <2>2, Runnable
  <2>4. schema' = schema
    BY <1>3 DEF Kill
  <2> QED BY <1>1, <2>1, <2>3, <2>4
<1>4. CASE step \notin {"up", "rollback"}
  BY <1>1, <1>4 DEF Kill
<1> QED BY <1>2, <1>3, <1>4

LEMMA InvKill ==
  ASSUME IInv, Kill
  PROVE  IInv'
<1> USE NoneFacts
<1>0. /\ step' = "idle" /\ outcome' = "killed"
      /\ UNCHANGED <<dirs, current, lastSha, ready, sha, port, previous, before>>
  BY DEF Kill, End
<1>1. TypeOK'
  BY <1>0, KillEffect DEF IInv, TypeOK, Steps, Outcomes
<1>2. ScriptOK'
  BY <1>0 DEF ScriptOK
<1>3. \A s \in Shas : schema >= Needs[s] => schema' >= Needs[s]
  BY KillEffect, NeedsAssumption DEF IInv, TypeOK
<1>4. SchemaSuffices'
  <2>1. running # None => running.sha \in Shas
    BY DEF IInv, TypeOK, Service
  <2>2. running' \in Service => running'.sha \in Shas
    BY DEF Service
  <2> QED BY <1>3, <2>1, <2>2, KillEffect DEF IInv, SchemaSuffices
<1>5. OutcomeIsTrue'
  BY <1>0 DEF OutcomeIsTrue, OldKeepsRunning, RestoredIsCurrent,
     SuccessIsCurrent, NoOtherIsCurrent
<1>6. CurrentIsSound' /\ \A s \in ready' : dirs'[s].files = "complete" /\ schema' >= Needs[s]
  BY <1>0, <1>3 DEF IInv, TypeOK, CurrentIsSound
<1> QED BY <1>1, <1>2, <1>4, <1>5, <1>6 DEF IInv

THEOREM Invariant == Spec => []IInv
<1>1. Init => IInv
  BY InitInv
<1>2. IInv /\ [Next]_vars => IInv'
  <2> SUFFICES ASSUME IInv, [Next]_vars PROVE IInv'
    OBVIOUS
  <2>1. CASE UNCHANGED vars
    BY <2>1 DEF vars, script, IInv, TypeOK, CurrentIsSound, SchemaSuffices, OutcomeIsTrue,
       OldKeepsRunning, RestoredIsCurrent, SuccessIsCurrent, NoOtherIsCurrent, ScriptOK
  <2>2. CASE Next
    BY <2>2, InvStart, InvUnpack, InvInstall, InvWritePort, InvBuild, InvMigrate, InvUp,
       InvWait, InvLink, InvRecord, InvRollback, InvRollbackWait, InvKill DEF Next
  <2> QED BY <2>1, <2>2
<1> QED BY <1>1, <1>2, PTL DEF Spec

\* Every variable stays in its type.
THEOREM TypeCorrect == Spec => []TypeOK
<1>1. IInv => TypeOK
  BY DEF IInv
<1> QED BY <1>1, Invariant, PTL

\* The link points to a release that can be gone back to (:158, :171, :199).
THEOREM CurrentSound == Spec => []CurrentIsSound
<1>1. IInv => CurrentIsSound
  BY DEF IInv
<1> QED BY <1>1, Invariant, PTL

\* No container lacks a migration of its release (:184, :192).
THEOREM SchemaEnough == Spec => []SchemaSuffices
<1>1. IInv => SchemaSuffices
  BY DEF IInv
<1> QED BY <1>1, Invariant, PTL

\* What a run reports of the service is so (:97-112, :179, :185).
THEOREM ReportsTrue == Spec => []OutcomeIsTrue
<1>1. IInv => OutcomeIsTrue
  BY DEF IInv
<1> QED BY <1>1, Invariant, PTL

-----------------------------------------------------------------------------
(* The refinement                                                          *)

\* Each step of the script is one of Rollout, or changes nothing there.
LEMMA StepIsAllowed ==
  ASSUME IInv, IInv', Next
  PROVE  [Promise!Next]_Promise!vars
<1> USE NoneFacts DEF Promise!vars
<1>0. \A s \in Service : /\ s.sha \in Shas /\ s.port \in Ports
                          /\ s = [sha |-> s.sha, port |-> s.port]
  BY DEF Service
<1>1. ASSUME UNCHANGED <<current, schema>>, running' # running, running' # None,
             schema >= Needs[running'.sha]
      PROVE  Promise!Next
  <2>1. running' \in Service
    BY <1>1 DEF IInv, TypeOK
  <2>2. running' = [sha |-> running'.sha, port |-> running'.port]
        /\ running'.sha \in Shas /\ running'.port \in Ports
    BY <1>0, <2>1
  <2>3. Promise!Run(running'.sha, running'.port)
    BY <1>1, <2>2 DEF Promise!Run
  <2> QED BY <2>2, <2>3 DEF Promise!Next
<1>2. ASSUME UNCHANGED <<current, schema>>
      PROVE  [Promise!Next]_Promise!vars
  <2>1. running' # None => schema >= Needs[running'.sha]
    BY <1>2 DEF IInv, SchemaSuffices
  <2>2. CASE running' = None
    BY <1>2, <2>2 DEF Promise!Next, Promise!Down
  <2>3. CASE running' # None
    BY <1>1, <1>2, <2>1, <2>3
  <2> QED BY <2>2, <2>3
<1>3. ASSUME UNCHANGED <<current, running>>, schema' \in Nat, schema' >= schema
      PROVE  [Promise!Next]_Promise!vars
  BY <1>3 DEF Promise!Next, Promise!Upgrade, IInv, TypeOK
<1>4. CASE Kill
  <2>1. UNCHANGED current
    BY <1>4 DEF Kill
  <2> QED BY <1>2, <1>3, <1>4, <2>1, KillEffect
<1>5. CASE Link
  <2>1. running = [sha |-> sha, port |-> port]
    BY <1>5 DEF Link, IInv, ScriptOK
  <2>2. running # None
    BY <1>5, <2>1 DEF Link, IInv, ScriptOK, Service
  <2> QED BY <1>5, <2>1, <2>2 DEF Link, Promise!Next, Promise!Publish
<1>6. CASE \E reached \in {schema} \cup UNION {schema .. Needs[s] : s \in Shas} : Migrate(reached)
  <2>1. PICK reached : Migrate(reached)
    BY <1>6
  <2>2. UNCHANGED <<current, running>>
    BY <2>1 DEF Migrate
  <2>3. schema' \in Nat /\ schema' >= schema
    BY <2>1, NeedsAssumption DEF Migrate, IInv, TypeOK, ScriptOK
  <2> QED BY <1>3, <2>2, <2>3
<1>7. CASE \/ \E s \in Shas, p \in Ports : Start(s, p)
           \/ Unpack \/ Record
           \/ \E ok \in BOOLEAN : \/ Install(ok) \/ WritePort(ok) \/ Build(ok) \/ Up(ok)
                                  \/ Wait(ok) \/ Rollback(ok) \/ RollbackWait(ok)
  <2>1. UNCHANGED <<current, schema>>
    BY <1>7 DEF Start, Unpack, Record, Install, WritePort, Build, Up, Wait, Rollback, RollbackWait
  <2> QED BY <1>2, <2>1
<1> QED BY <1>4, <1>5, <1>6, <1>7 DEF Next

\* A deployment that fails or is cut off anywhere does no more to the link, the
\* containers and the schema than Rollout allows (:182-201).
THEOREM RolloutImplemented == Spec => ImplementsRollout
<1>1. Init => Promise!Init
  BY DEF Init, Promise!Init
<1>2. IInv /\ IInv' /\ [Next]_vars => [Promise!Next]_Promise!vars
  <2>1. ASSUME UNCHANGED vars PROVE UNCHANGED Promise!vars
    BY <2>1 DEF vars, Promise!vars
  <2> QED BY <2>1, StepIsAllowed
<1> QED BY <1>1, <1>2, Invariant, PTL DEF Spec, ImplementsRollout, Promise!Spec
=============================================================================
