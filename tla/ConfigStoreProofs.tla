-------------------------- MODULE ConfigStoreProofs --------------------------
(***************************************************************************)
(* Proofs about ConfigStore: for any keys, values and requests, however    *)
(* their statements interleave, a row is what one Save was to write, what  *)
(* is private stays with administrators, and an answer is the row that was *)
(* saved unless another Save came in between.                              *)
(***************************************************************************)
EXTENDS ConfigStore, TLAPS

-----------------------------------------------------------------------------
(* The inductive invariant                                                 *)

\* A request that has a key asks for it, and what it carries was announced.
RequestOK(q) ==
    /\ q.stage # "idle" => q.key \in Keys
    /\ q.stage = "find" => q.kind \in {"get", "getPublic"} /\ (q.kind = "get" => q.admin)
    /\ q.stage \in {"save", "readBack"} => q.admin /\ q.kind = "upsert"
    /\ q.stage = "save" =>
         [key |-> q.key, value |-> q.value, public |-> q.public, stamp |-> q.now] \in saves
    /\ q.stage = "readBack" /\ ~q.overtaken =>
         /\ rows[q.key] # None
         /\ rows[q.key].value = q.value /\ rows[q.key].public = q.public
    /\ q.stage # "idle" => q.answer = "none"
    /\ q.answer = "item" => q.item \in Row

IInv ==
    /\ TypeOK
    /\ RowOfOneSave
    /\ PrivateIsForAdmins
    /\ AnswerIsOwn
    /\ \A r \in Requests : RequestOK(req[r])

-----------------------------------------------------------------------------
NewSave(q) == [key |-> q.key, value |-> q.value, public |-> q.public, stamp |-> q.now]

\* What the properties ask of one request.
AnswerOK(q) ==
    /\ q.answer = "item" /\ ~q.admin =>
         \E w \in saves : w.key = q.key /\ w.value = q.item.value /\ w.public
    /\ q.kind = "upsert" /\ q.answer = "item" /\ ~q.overtaken =>
         q.item.value = q.value /\ q.item.public = q.public

LEMMA NoAnswerFacts ==
  /\ NoAnswer \in RequestRecord /\ Refused \in RequestRecord
  /\ NoAnswer.stage = "idle" /\ NoAnswer.answer = "none"
  /\ Refused.stage = "idle" /\ Refused.answer = "refused"
BY DEF NoAnswer, Refused, Fresh, RequestRecord, Kinds, Stages, Answers

LEMMA ReqFacts ==
  ASSUME IInv, NEW r \in Requests
  PROVE  req[r] \in RequestRecord /\ RequestOK(req[r]) /\ AnswerOK(req[r])
BY DEF IInv, TypeOK, PrivateIsForAdmins, AnswerIsOwn, AnswerOK

LEMMA FoldInKeys ==
  ASSUME NEW s \in Spellings
  PROVE  Fold[s] \in Spellings
BY KeyAssumption

\* The invariant in the form in which the steps are proved.
LEMMA Assemble ==
  ASSUME TypeOK', RowOfOneSave',
         \A r \in Requests : RequestOK(req[r])' /\ AnswerOK(req[r])'
  PROVE  IInv'
<1>1. PrivateIsForAdmins'
  BY DEF AnswerOK, PrivateIsForAdmins
<1>2. AnswerIsOwn'
  BY DEF AnswerOK, AnswerIsOwn
<1> QED BY <1>1, <1>2 DEF IInv

\* A step of one request that leaves the table alone; a Save may be announced.
LEMMA LocalStep ==
  ASSUME IInv, NEW r \in Requests, NEW q \in RequestRecord,
         req' = [req EXCEPT ![r] = q], UNCHANGED <<clock, rows>>,
         saves \subseteq saves', saves' \subseteq SaveRecord,
         RequestOK(q)', AnswerOK(q)'
  PROVE  IInv'
<1>1. TypeOK'
  BY DEF IInv, TypeOK
<1>2. RowOfOneSave'
  BY DEF IInv, RowOfOneSave
<1>3. ASSUME NEW s \in Requests
      PROVE  RequestOK(req[s])' /\ AnswerOK(req[s])'
  <2>1. CASE s = r
    BY <2>1 DEF IInv, TypeOK
  <2>2. CASE s # r
    <3>1. req'[s] = req[s] /\ RequestOK(req[s]) /\ AnswerOK(req[s])
      BY <2>2, ReqFacts DEF IInv, TypeOK
    <3>2. RequestOK(req[s])'
      BY <3>1 DEF RequestOK
    <3>3. AnswerOK(req[s])'
      BY <3>1 DEF AnswerOK
    <3> QED BY <3>2, <3>3
  <2> QED BY <2>1, <2>2
<1> QED BY <1>1, <1>2, <1>3, Assemble

\* An ended request without an item promises nothing.
LEMMA EndedStep ==
  ASSUME IInv, NEW r \in Requests, NEW q \in RequestRecord,
         req' = [req EXCEPT ![r] = q], UNCHANGED <<clock, rows, saves>>,
         q.stage = "idle", q.answer # "item"
  PROVE  IInv'
<1>1. RequestOK(q)'
  BY DEF RequestOK
<1>2. AnswerOK(q)'
  BY DEF AnswerOK
<1> QED BY <1>1, <1>2, LocalStep DEF IInv, TypeOK

LEMMA InvRefuse ==
  ASSUME IInv, NEW r \in Requests, Refuse(r), UNCHANGED <<clock, rows, saves>>
  PROVE  IInv'
BY NoAnswerFacts, EndedStep DEF Refuse

\* The row that a request reads is of one Save, and is handed out as it is.
LEMMA InvReply ==
  ASSUME IInv, NEW r \in Requests, req[r].stage \in {"find", "readBack"},
         rows[req[r].key] # None, ReplyItem(r, rows[req[r].key]),
         req[r].kind = "getPublic" => rows[req[r].key].public,
         UNCHANGED <<clock, rows, saves>>
  PROVE  IInv'
<1> DEFINE row == rows[req[r].key]
<1>1. req[r] \in RequestRecord /\ RequestOK(req[r]) /\ req[r].key \in Keys
  BY ReqFacts DEF RequestOK
<1>2. row \in Row
  BY <1>1 DEF IInv, TypeOK
<1>3. \E w \in saves : w.key = req[r].key /\ w.value = row.value /\ w.public = row.public
  BY <1>1 DEF IInv, RowOfOneSave
<1>4. PICK q \in RequestRecord :
        q = [req[r] EXCEPT !.stage = "idle", !.now = 0, !.answer = "item", !.item = row]
  BY <1>1, <1>2 DEF RequestRecord, Stages, Answers
<1>5. req' = [req EXCEPT ![r] = q]
  BY <1>4 DEF ReplyItem
<1> HIDE DEF row
<1>6. /\ q.stage = "idle" /\ q.item = row /\ q.key = req[r].key
      /\ q.kind = req[r].kind /\ q.admin = req[r].admin /\ q.value = req[r].value
      /\ q.public = req[r].public /\ q.overtaken = req[r].overtaken
  BY <1>1, <1>4 DEF RequestRecord
<1>7. RequestOK(q)'
  BY <1>2, <1>6 DEF RequestOK
<1>8. AnswerOK(q)'
  <2>1. CASE req[r].stage = "find"
    <3>1. req[r].kind \in {"get", "getPublic"} /\ (req[r].kind = "get" => req[r].admin)
      BY <1>1, <2>1 DEF RequestOK
    <3>2. req[r].kind = "getPublic" => row.public
      BY DEF row
    <3> QED BY <1>3, <1>6, <3>1, <3>2 DEF AnswerOK
  <2>2. CASE req[r].stage = "readBack"
    <3>1. /\ req[r].admin
          /\ ~req[r].overtaken => row.value = req[r].value /\ row.public = req[r].public
      BY <1>1, <2>2 DEF RequestOK, row
    <3> QED BY <1>6, <3>1 DEF AnswerOK
  <2> QED BY <2>1, <2>2
<1> QED BY <1>5, <1>7, <1>8, LocalStep DEF IInv, TypeOK

-----------------------------------------------------------------------------
(* One lemma per operation                                                 *)

LEMMA InvReadRoute ==
  ASSUME IInv, NEW r \in Requests, NEW kind \in {"get", "getPublic"}, NEW admin \in BOOLEAN,
         NEW s \in Spellings, ReadRoute(r, kind, admin, s)
  PROVE  IInv'
<1>1. UNCHANGED <<clock, rows, saves>>
  BY DEF ReadRoute
<1>2. CASE (kind = "get" /\ ~admin) \/ Fold[s] \notin Keys
  BY <1>1, <1>2, NoAnswerFacts, EndedStep DEF ReadRoute
<1>3. CASE ~((kind = "get" /\ ~admin) \/ Fold[s] \notin Keys)
  <2> DEFINE q == [Fresh(kind, admin) EXCEPT !.stage = "find", !.key = Fold[s]]
  <2>1. /\ q \in RequestRecord /\ q.stage = "find" /\ q.key \in Keys /\ q.kind = kind
        /\ q.admin = admin /\ q.answer = "none"
    BY <1>3 DEF Fresh, RequestRecord, Kinds, Stages, Answers
  <2>2. req' = [req EXCEPT ![r] = q]
    BY <1>3 DEF ReadRoute
  <2> HIDE DEF q
  <2>3. RequestOK(q)'
    BY <1>3, <2>1 DEF RequestOK
  <2>4. AnswerOK(q)'
    BY <2>1 DEF AnswerOK
  <2> QED BY <1>1, <2>1, <2>2, <2>3, <2>4, LocalStep DEF IInv, TypeOK
<1> QED BY <1>2, <1>3

LEMMA InvFind ==
  ASSUME IInv, NEW r \in Requests, NEW ok \in BOOLEAN, Find(r, ok)
  PROVE  IInv'
<1>1. UNCHANGED <<clock, rows, saves>> /\ req[r].stage = "find"
  BY DEF Find
<1>2. CASE Refuse(r)
  BY <1>1, <1>2, InvRefuse
<1>3. CASE ~Refuse(r)
  BY <1>1, <1>3, InvReply DEF Find
<1> QED BY <1>2, <1>3

LEMMA InvReadBack ==
  ASSUME IInv, NEW r \in Requests, NEW ok \in BOOLEAN, ReadBack(r, ok)
  PROVE  IInv'
<1>1. UNCHANGED <<clock, rows, saves>> /\ req[r].stage = "readBack"
  BY DEF ReadBack
<1>2. req[r].kind # "getPublic"
  BY <1>1, ReqFacts DEF RequestOK
<1>3. CASE Refuse(r)
  BY <1>1, <1>3, InvRefuse
<1>4. CASE ~Refuse(r)
  BY <1>1, <1>2, <1>4, InvReply DEF ReadBack
<1> QED BY <1>3, <1>4

LEMMA InvUpsert ==
  ASSUME IInv, NEW r \in Requests, NEW admin \in BOOLEAN, NEW s \in Spellings,
         NEW v \in Values, NEW public \in BOOLEAN, Upsert(r, admin, s, v, public)
  PROVE  IInv'
<1>1. UNCHANGED <<clock, rows>> /\ clock \in Nat
  BY DEF Upsert, IInv, TypeOK
<1>2. CASE ~admin \/ Fold[s] \notin Keys \/ v \notin JSON
  BY <1>1, <1>2, InvRefuse DEF Upsert
<1>3. CASE ~(~admin \/ Fold[s] \notin Keys \/ v \notin JSON)
  <2>0. PICK now \in Nat : now = clock
    BY <1>1
  <2> DEFINE q == [Fresh("upsert", admin) EXCEPT !.stage = "save", !.key = Fold[s], !.value = v,
                                                 !.public = public, !.now = now]
             w == [key |-> Fold[s], value |-> v, public |-> public, stamp |-> now]
  <2>1. /\ q \in RequestRecord /\ q.stage = "save" /\ q.kind = "upsert" /\ q.admin
        /\ q.answer = "none" /\ q.key \in Keys /\ NewSave(q) = w
    BY <1>3 DEF Fresh, RequestRecord, Kinds, Stages, Answers, NewSave
  <2>2. req' = [req EXCEPT ![r] = q] /\ saves' = saves \cup {w}
    BY <1>3, <2>0 DEF Upsert
  <2>3. w \in SaveRecord
    BY <1>3 DEF SaveRecord
  <2> HIDE DEF q, w
  <2>4. saves' \subseteq SaveRecord
    BY <2>2, <2>3 DEF IInv, TypeOK
  <2>5. RequestOK(q)'
    BY <2>1, <2>2 DEF RequestOK, NewSave
  <2>6. AnswerOK(q)'
    BY <2>1 DEF AnswerOK
  <2> QED BY <1>1, <2>1, <2>2, <2>4, <2>5, <2>6, LocalStep
<1> QED BY <1>2, <1>3

\* What the statement leaves in the row.
LEMMA StoredFacts ==
  ASSUME IInv, NEW r \in Requests, req[r].stage = "save"
  PROVE  /\ Stored(req[r]) \in Row
         /\ Stored(req[r]).value = req[r].value /\ Stored(req[r]).public = req[r].public
         /\ Stored(req[r]).updated = req[r].now
<1>1. /\ req[r] \in RequestRecord /\ req[r].key \in Keys
      /\ NewSave(req[r]) \in SaveRecord
  BY ReqFacts DEF RequestOK, NewSave, IInv, TypeOK
<1>2. req[r].value \in JSON /\ req[r].public \in BOOLEAN /\ req[r].now \in Nat
  BY <1>1 DEF NewSave, SaveRecord, RequestRecord
<1>3. CASE rows[req[r].key] = None
  BY <1>2, <1>3 DEF Stored, Inserted, Row
<1>4. CASE rows[req[r].key] # None
  <2>1. rows[req[r].key] \in Row
    BY <1>1, <1>4 DEF IInv, TypeOK
  <2> QED BY <1>2, <1>4, <2>1 DEF Stored, Row
<1> QED BY <1>3, <1>4

\* The statement is carried out, whether or not its answer arrives.
LEMMA StatementStep ==
  ASSUME IInv, NEW r \in Requests, req[r].stage = "save", NEW new \in RequestRecord,
         \/ new.stage = "idle" /\ new.answer = "refused"
         \/ new = [req[r] EXCEPT !.stage = "readBack"],
         rows' = [rows EXCEPT ![req[r].key] = Stored(req[r])],
         req' = Overtake(r, new), UNCHANGED <<clock, saves>>
  PROVE  IInv'
<1>1. req[r] \in RequestRecord /\ RequestOK(req[r]) /\ req[r].key \in Keys
  BY ReqFacts DEF RequestOK
<1> DEFINE row == Stored(req[r])
<1>2. /\ row \in Row /\ row.value = req[r].value /\ row.public = req[r].public
      /\ row.updated = req[r].now
  BY StoredFacts
<1>3. rows' = [rows EXCEPT ![req[r].key] = row]
  OBVIOUS
<1> HIDE DEF row
<1>4. rows' \in [Keys -> Row \cup {None}] /\ rows'[req[r].key] = row
      /\ \A k \in Keys : k # req[r].key => rows'[k] = rows[k]
  BY <1>1, <1>2, <1>3 DEF IInv, TypeOK
<1>5. ASSUME NEW s \in Requests, s # r
      PROVE  /\ req'[s] \in RequestRecord
             /\ RequestOK(req[s])' /\ AnswerOK(req[s])'
  <2>1. req[s] \in RequestRecord /\ RequestOK(req[s]) /\ AnswerOK(req[s])
    BY ReqFacts
  <2>2. CASE req[s].stage = "readBack" /\ req[s].key = req[r].key
    <3>0. PICK q \in RequestRecord : q = [req[s] EXCEPT !.overtaken = TRUE]
      BY <2>1 DEF RequestRecord
    <3>1. req'[s] = q
      BY <1>5, <2>2, <3>0 DEF Overtake
    <3>2. /\ q.stage = "readBack" /\ q.overtaken /\ q.key = req[s].key
          /\ q.kind = req[s].kind /\ q.admin = req[s].admin /\ q.answer = req[s].answer
      BY <2>1, <2>2, <3>0 DEF RequestRecord
    <3>3. RequestOK(q)'
      BY <2>1, <2>2, <3>2 DEF RequestOK
    <3>4. AnswerOK(q)'
      BY <2>1, <2>2, <3>2 DEF RequestOK, AnswerOK
    <3> QED BY <3>1, <3>2, <3>3, <3>4
  <2>3. CASE ~(req[s].stage = "readBack" /\ req[s].key = req[r].key)
    <3>1. req'[s] = req[s]
      BY <1>5, <2>3 DEF Overtake
    <3>2. req[s].stage = "readBack" => rows'[req[s].key] = rows[req[s].key]
      BY <1>4, <2>1, <2>3 DEF RequestOK
    <3>3. RequestOK(req[s])'
      BY <2>1, <3>1, <3>2 DEF RequestOK
    <3>4. AnswerOK(req[s])'
      BY <2>1, <3>1 DEF AnswerOK
    <3> QED BY <2>1, <3>1, <3>3, <3>4
  <2> QED BY <2>2, <2>3
<1>6. req'[r] = new
  BY DEF Overtake
<1>7. RequestOK(new)' /\ AnswerOK(new)'
  <2>1. CASE new.stage = "idle" /\ new.answer = "refused"
    BY <2>1 DEF RequestOK, AnswerOK
  <2>2. CASE new = [req[r] EXCEPT !.stage = "readBack"]
    <3>1. /\ new.stage = "readBack" /\ new.key = req[r].key /\ new.value = req[r].value
          /\ new.public = req[r].public /\ new.kind = req[r].kind /\ new.admin = req[r].admin
          /\ new.answer = req[r].answer
      BY <1>1, <2>2 DEF RequestRecord
    <3>2. row # None
      BY <1>2, NoneAssumption
    <3>3. RequestOK(new)'
      BY <1>1, <1>2, <1>4, <3>1, <3>2 DEF RequestOK
    <3>4. new.answer = "none"
      BY <1>1, <3>1 DEF RequestOK
    <3> QED BY <3>3, <3>4 DEF AnswerOK
  <2> QED BY <2>1, <2>2
<1>8. TypeOK'
  <2>1. req' \in [Requests -> RequestRecord]
    <3>1. req' = [s \in Requests |-> req'[s]]
      BY DEF Overtake
    <3>2. \A s \in Requests : req'[s] \in RequestRecord
      BY <1>5, <1>6
    <3> QED BY <3>1, <3>2
  <2> QED BY <1>4, <2>1 DEF IInv, TypeOK
<1>9. RowOfOneSave'
  <2>1. NewSave(req[r]) \in saves
    BY <1>1 DEF RequestOK, NewSave
  <2>2. ASSUME NEW k \in Keys, rows'[k] # None
        PROVE  [key |-> k, value |-> rows'[k].value, public |-> rows'[k].public,
                stamp |-> rows'[k].updated] \in saves
    <3>1. CASE k = req[r].key
      BY <1>2, <1>4, <2>1, <3>1 DEF NewSave
    <3>2. CASE k # req[r].key
      BY <1>4, <2>2, <3>2 DEF IInv, RowOfOneSave
    <3> QED BY <3>1, <3>2
  <2> QED BY <2>2 DEF RowOfOneSave
<1> QED BY <1>5, <1>6, <1>7, <1>8, <1>9, Assemble

LEMMA InvSave ==
  ASSUME IInv, NEW r \in Requests, NEW o \in {"ok", "lost", "fail"}, Save(r, o)
  PROVE  IInv'
<1>1. req[r].stage = "save" /\ UNCHANGED <<clock, saves>> /\ req[r] \in RequestRecord
  BY ReqFacts DEF Save
<1>2. CASE o = "fail"
  <2>1. req' = [req EXCEPT ![r] = Refused] /\ UNCHANGED rows
    BY <1>2 DEF Save
  <2> QED BY <1>1, <2>1, NoAnswerFacts, EndedStep
<1>3. CASE o = "ok"
  <2> DEFINE new == [req[r] EXCEPT !.stage = "readBack"]
  <2>1. new \in RequestRecord
    BY <1>1 DEF RequestRecord, Stages
  <2>2. rows' = [rows EXCEPT ![req[r].key] = Stored(req[r])] /\ req' = Overtake(r, new)
    BY <1>3 DEF Save
  <2> QED BY <1>1, <2>1, <2>2, StatementStep
<1>4. CASE o = "lost"
  <2>1. rows' = [rows EXCEPT ![req[r].key] = Stored(req[r])] /\ req' = Overtake(r, Refused)
    BY <1>4 DEF Save
  <2> QED BY <1>1, <2>1, NoAnswerFacts, StatementStep
<1> QED BY <1>2, <1>3, <1>4

-----------------------------------------------------------------------------
(* Theorems                                                                *)

LEMMA InitInv == Init => IInv
<1> SUFFICES ASSUME Init PROVE IInv
  OBVIOUS
<1>1. TypeOK
  BY NoAnswerFacts DEF Init, TypeOK
<1>2. \A r \in Requests : req[r].stage = "idle" /\ req[r].answer = "none"
  BY NoAnswerFacts DEF Init
<1>3. RowOfOneSave
  BY DEF Init, RowOfOneSave
<1> QED BY <1>1, <1>2, <1>3 DEF IInv, PrivateIsForAdmins, AnswerIsOwn, RequestOK

LEMMA StepInv == IInv /\ [Next]_vars => IInv'
<1> SUFFICES ASSUME IInv, [Next]_vars PROVE IInv'
  OBVIOUS
<1>1. ASSUME UNCHANGED <<rows, req, saves>>, clock' \in Nat
      PROVE  IInv'
  BY <1>1 DEF IInv, TypeOK, RowOfOneSave, PrivateIsForAdmins, AnswerIsOwn, RequestOK
<1>2. CASE UNCHANGED vars
  BY <1>1, <1>2 DEF vars, IInv, TypeOK
<1>3. CASE Tick
  BY <1>1, <1>3 DEF Tick, IInv, TypeOK
<1> QED BY <1>2, <1>3, InvReadRoute, InvUpsert, InvFind, InvReadBack, InvSave DEF Next

\* The invariant holds throughout, for any keys, values and number of requests.
THEOREM Invariant == Spec => []IInv
<1> QED BY InitInv, StepInv, PTL DEF Spec

\* Every variable keeps within its values: what is stored and answered is JSON.
THEOREM TypeCorrect == Spec => []TypeOK
<1>1. IInv => TypeOK
  BY DEF IInv
<1> QED BY Invariant, <1>1, PTL

\* A row is what one Save was to write, whichever of them raced
\* (repository.go:56-64).
THEOREM RowsAreWhole == Spec => []RowOfOneSave
<1>1. IInv => RowOfOneSave
  BY DEF IInv
<1> QED BY Invariant, <1>1, PTL

\* Without an administrator's session only public values are seen
\* (api.go:17-19, service.go:44).
THEOREM PrivateStaysPrivate == Spec => []PrivateIsForAdmins
<1>1. IInv => PrivateIsForAdmins
  BY DEF IInv
<1> QED BY Invariant, <1>1, PTL

\* An upsert that nobody overtook answers with what it saved
\* (repository.go:64-68).
THEOREM OwnAnswer == Spec => []AnswerIsOwn
<1>1. IInv => AnswerIsOwn
  BY DEF IInv
<1> QED BY Invariant, <1>1, PTL
=============================================================================
