---------------------------- MODULE ConfigStore ----------------------------
(***************************************************************************)
(* The system configs (internal/modules/config): an upsert that stamps the *)
(* row before it is sent and reads it back in a statement of its own, the  *)
(* administrators' read and the public read.                               *)
(*                                                                         *)
(* A value stands for the JSON and its description.  The table is external *)
(* and every statement on it is atomic.                                    *)
(***************************************************************************)
EXTENDS Naturals

CONSTANTS
    Spellings,   \* keys as clients type them
    Fold,        \* lower case, trimmed
    Keys,        \* the folded keys that keyPattern takes
    Values,      \* what a client may send as a value
    JSON,        \* the values that are JSON with a description short enough
    Requests, None,
    MaxClock     \* bounds the clock

ASSUME KeyAssumption ==
    /\ Fold \in [Spellings -> Spellings]
    /\ Keys \subseteq Spellings
    /\ JSON \subseteq Values
    /\ MaxClock \in Nat

Row == [value : JSON, public : BOOLEAN, created : Nat, updated : Nat]
SaveRecord == [key : Keys, value : JSON, public : BOOLEAN, stamp : Nat]

ASSUME NoneAssumption == None \notin Spellings \cup Values \cup Row

Kinds == {"none", "getPublic", "get", "upsert"}
Stages == {"idle", "find", "save", "readBack"}
\* No property tells apart why an answer has no item: no session, bad input, not
\* found, not public or a failed statement.
Answers == {"none", "item", "refused"}

RequestRecord ==
    [stage  : Stages,
     kind   : Kinds,
     admin  : BOOLEAN,               \* it came with an administrator's session
     key    : Keys \cup {None},
     value  : JSON \cup {None},
     public : BOOLEAN,
     now    : Nat,
     answer : Answers,
     item   : Row \cup {None},       \* the row in the answer
     overtaken : BOOLEAN]            \* history: between its two statements there was another Save

VARIABLES
    clock,
    rows,    \* the table system_configs
    req,     \* the requests being served; an answered item keeps what was asked
    saves    \* history: what every Save that was begun was to write

vars == <<clock, rows, req, saves>>

-----------------------------------------------------------------------------

Fresh(kind, admin) ==
    [stage |-> "idle", kind |-> kind, admin |-> admin, key |-> None, value |-> None,
     public |-> FALSE, now |-> 0, answer |-> "none", item |-> None, overtaken |-> FALSE]

NoAnswer == Fresh("none", FALSE)
Refused == [NoAnswer EXCEPT !.answer = "refused"]

Refuse(r) == req' = [req EXCEPT ![r] = Refused]

ReplyItem(r, row) ==
    req' = [req EXCEPT ![r] = [@ EXCEPT !.stage = "idle", !.now = 0,
                                        !.answer = "item", !.item = row]]

\* Faulty: the administrators' read is registered without its middleware.
ReadRouteOpen(r, kind, admin, s) ==
    LET q == Fresh(kind, admin) IN
    /\ req[r].stage = "idle"
    /\ req' = [req EXCEPT ![r] =
                 IF Fold[s] \notin Keys THEN Refused
                 ELSE [q EXCEPT !.stage = "find", !.key = Fold[s]]]
    /\ UNCHANGED <<clock, rows, saves>>

\* The two read routes, up to FindByKey: the middleware, the binding of the key
\* and the service's test of it.
ReadRoute(r, kind, admin, s) ==
    LET q == Fresh(kind, admin) IN
    /\ req[r].stage = "idle"
    /\ req' = [req EXCEPT ![r] =
                 IF (kind = "get" /\ ~admin) \/ Fold[s] \notin Keys THEN Refused
                 ELSE [q EXCEPT !.stage = "find", !.key = Fold[s]]]
    /\ UNCHANGED <<clock, rows, saves>>

\* FindByKey and, for the public route, the test of the row that was read.
Find(r, ok) ==
    LET q == req[r]
        row == rows[q.key] IN
    /\ q.stage = "find"
    /\ IF ~ok \/ row = None \/ (q.kind = "getPublic" /\ ~row.public)
       THEN Refuse(r) ELSE ReplyItem(r, row)
    /\ UNCHANGED <<clock, rows, saves>>

\* Faulty: the value is stored as it comes.
UpsertAnyValue(r, admin, s, v, public) ==
    LET q == Fresh("upsert", admin) IN
    /\ req[r].stage = "idle"
    /\ IF ~admin \/ Fold[s] \notin Keys
       THEN Refuse(r) /\ UNCHANGED saves
       ELSE /\ req' = [req EXCEPT ![r] =
                         [q EXCEPT !.stage = "save", !.key = Fold[s], !.value = v,
                                   !.public = public, !.now = clock]]
            /\ saves' = saves \cup
                 {[key |-> Fold[s], value |-> v, public |-> public, stamp |-> clock]}
    /\ UNCHANGED <<clock, rows>>

\* The upsert route, up to the statement: Save takes the time first.
Upsert(r, admin, s, v, public) ==
    LET q == Fresh("upsert", admin) IN
    /\ req[r].stage = "idle"
    /\ IF ~admin \/ Fold[s] \notin Keys \/ v \notin JSON
       THEN Refuse(r) /\ UNCHANGED saves
       ELSE /\ req' = [req EXCEPT ![r] =
                         [q EXCEPT !.stage = "save", !.key = Fold[s], !.value = v,
                                   !.public = public, !.now = clock]]
            /\ saves' = saves \cup
                 {[key |-> Fold[s], value |-> v, public |-> public, stamp |-> clock]}
    /\ UNCHANGED <<clock, rows>>

Inserted(q) == [value |-> q.value, public |-> q.public, created |-> q.now, updated |-> q.now]

\* Faulty: updated_at is not among them.
StoredKeepsStamp(q) ==
    IF rows[q.key] = None THEN Inserted(q)
    ELSE [rows[q.key] EXCEPT !.value = q.value, !.public = q.public]

\* INSERT ... ON CONFLICT (config_key) DO UPDATE.
Stored(q) ==
    IF rows[q.key] = None THEN Inserted(q)
    ELSE [rows[q.key] EXCEPT !.value = q.value, !.public = q.public, !.updated = q.now]

\* The other requests, when r's statement has changed the row.
Overtake(r, new) ==
    [s \in Requests |->
       IF s = r THEN new
       ELSE IF req[s].stage = "readBack" /\ req[s].key = req[r].key
       THEN [req[s] EXCEPT !.overtaken = TRUE] ELSE req[s]]

\* Faulty: the row is read back whatever became of the statement.
SaveRegardless(r, o) ==
    LET q == req[r] IN
    /\ q.stage = "save"
    /\ rows' = IF o = "fail" THEN rows ELSE [rows EXCEPT ![q.key] = Stored(q)]
    /\ req' = IF o = "fail" THEN [req EXCEPT ![r].stage = "readBack"]
              ELSE Overtake(r, [q EXCEPT !.stage = "readBack"])
    /\ UNCHANGED <<clock, saves>>

\* Save's statement is carried out and answered, carried out without an answer,
\* or not carried out.
Save(r, o) ==
    LET q == req[r] IN
    /\ q.stage = "save"
    /\ rows' = IF o = "fail" THEN rows ELSE [rows EXCEPT ![q.key] = Stored(q)]
    /\ req' = CASE o = "ok" -> Overtake(r, [q EXCEPT !.stage = "readBack"])
                [] o = "lost" -> Overtake(r, Refused)
                [] o = "fail" -> [req EXCEPT ![r] = Refused]
    /\ UNCHANGED <<clock, saves>>

\* Save answers with what FindByKey finds.
ReadBack(r, ok) ==
    LET q == req[r] IN
    /\ q.stage = "readBack"
    /\ IF ~ok \/ rows[q.key] = None
       THEN Refuse(r) ELSE ReplyItem(r, rows[q.key])
    /\ UNCHANGED <<clock, rows, saves>>

Tick ==
    /\ clock < MaxClock
    /\ clock' = clock + 1
    /\ UNCHANGED <<rows, req, saves>>

Init ==
    /\ clock = 0
    /\ rows = [k \in Keys |-> None]
    /\ req = [r \in Requests |-> NoAnswer]
    /\ saves = {}

Next ==
    \/ \E r \in Requests, admin \in BOOLEAN, s \in Spellings :
         \/ \E kind \in {"getPublic", "get"} : ReadRoute(r, kind, admin, s)
         \/ \E v \in Values, public \in BOOLEAN : Upsert(r, admin, s, v, public)
    \/ \E r \in Requests, ok \in BOOLEAN : Find(r, ok) \/ ReadBack(r, ok)
    \/ \E r \in Requests, o \in {"ok", "lost", "fail"} : Save(r, o)
    \/ Tick

Spec == Init /\ [][Next]_vars

-----------------------------------------------------------------------------
(* Properties                                                              *)

\* Every variable stays within the values the code can give it.
TypeOK ==
    /\ clock \in Nat
    /\ rows \in [Keys -> Row \cup {None}]
    /\ req \in [Requests -> RequestRecord]
    /\ saves \subseteq SaveRecord

\* What is in the table under a key, the value with its visibility and its time
\* stamp, is what one Save was to write there, never a mix of two that raced
\* (repository.go:56-64).
RowOfOneSave ==
    \A k \in Keys : rows[k] # None =>
        [key |-> k, value |-> rows[k].value, public |-> rows[k].public,
         stamp |-> rows[k].updated] \in saves

\* Whoever has no administrator's session sees only values that somebody saved
\* as public under that key (api.go:17-19, service.go:44).
PrivateIsForAdmins ==
    \A r \in Requests : req[r].answer = "item" /\ ~req[r].admin =>
        \E w \in saves : /\ w.key = req[r].key
                         /\ w.value = req[r].item.value
                         /\ w.public

\* Save answers with the item that it saved, as tests/persistence_test.go:257
\* asserts of it, unless another Save of the key came between its two statements
\* (repository.go:64-68).
AnswerIsOwn ==
    \A r \in Requests :
        req[r].kind = "upsert" /\ req[r].answer = "item" /\ ~req[r].overtaken =>
            /\ req[r].item.value = req[r].value
            /\ req[r].item.public = req[r].public
=============================================================================
