--------------------------- MODULE AccountsProofs ---------------------------
(* Theorems about Accounts, for every set of spellings, passwords, accounts *)
(* and requests.                                                           *)
EXTENDS Accounts, TLAPS

-----------------------------------------------------------------------------
(* The inductive invariant                                                 *)

\* What a request carries from one call to the next.
RequestOK(q) ==
    /\ q.stage # "idle" => q.answer = "none"
    /\ q.stage \in {"create", "find"} =>
         q.name \in Spellings /\ q.password \in Passwords /\ Fold[q.name] = q.name
    /\ q.stage = "issue" =>
         q.id \in Ids /\ q.row \in Row /\ q.row.enabled /\ rows[q.id] # None

IInv ==
    /\ TypeOK
    /\ \A i \in Ids : rows[i] # None => Fold[rows[i].username] = rows[i].username
    /\ OneAccountPerName
    /\ \A r \in Requests : RequestOK(req[r])
    /\ \A i \in swept : rows[i] # None /\ ~rows[i].enabled
    /\ DisabledIsOut

-----------------------------------------------------------------------------
LEMMA InitInv == Init => IInv
BY NoneAssumption
   DEF Init, IInv, TypeOK, OneAccountPerName, DisabledIsOut, RequestOK, Idle,
       RequestRecord, Stages, Answers

\* A request that has been answered carries nothing.
LEMMA IdleOK ==
    ASSUME NEW a \in Answers
    PROVE  LET q == [Idle EXCEPT !.answer = a] IN
           q \in RequestRecord /\ q.stage = "idle"
BY DEF Idle, RequestRecord, Stages, Answers

\* Only the stepping request changes, so its new record is all there is to
\* prove as long as no row vanishes.
LEMMA RequestsOK ==
    ASSUME IInv,
           NEW r \in Requests, NEW q \in RequestRecord,
           req' = [req EXCEPT ![r] = q],
           \A i \in Ids : rows[i] # None => rows'[i] # None,
           RequestOK(q)'
    PROVE  /\ req' \in [Requests -> RequestRecord]
           /\ \A x \in Requests : RequestOK(req[x])'
BY DEF IInv, TypeOK, RequestOK

LEMMA InvRegister ==
    ASSUME IInv, NEW r \in Requests, NEW s \in Spellings, NEW p \in Passwords,
           Register(r, s, p) \/ Login(r, s, p)
    PROVE  IInv'
<1>1. UNCHANGED <<rows, sessions, swept, overtaken>>
  BY DEF Register, Login
<1>2. PICK st \in {"create", "find"} :
        req' = [req EXCEPT ![r] = [Idle EXCEPT !.stage = st,
                                               !.name = Fold[s],
                                               !.password = p]]
  BY DEF Register, Login, normalizeUsername
<1> DEFINE q == [Idle EXCEPT !.stage = st, !.name = Fold[s], !.password = p]
<1>3. Fold[s] \in Spellings /\ Fold[Fold[s]] = Fold[s]
  BY FoldAssumption
<1>4. q \in RequestRecord /\ RequestOK(q)'
  BY <1>3 DEF RequestOK, Idle, RequestRecord, Stages, Answers
<1>5. \A i \in Ids : rows[i] # None => rows'[i] # None
  BY <1>1
<1> HIDE DEF q
<1>6. req' = [req EXCEPT ![r] = q]
  BY <1>2 DEF q
<1>7. /\ req' \in [Requests -> RequestRecord]
      /\ \A x \in Requests : RequestOK(req[x])'
  BY <1>4, <1>5, <1>6, RequestsOK
<1> QED
  BY <1>1, <1>7 DEF IInv, TypeOK, OneAccountPerName, DisabledIsOut

\* The answer of a request is all that it leaves behind.
LEMMA ReplyOK ==
    ASSUME IInv, NEW r \in Requests, NEW a \in Answers, Reply(r, a),
           \A i \in Ids : rows[i] # None => rows'[i] # None
    PROVE  /\ req' \in [Requests -> RequestRecord]
           /\ \A x \in Requests : RequestOK(req[x])'
<1> DEFINE q == [Idle EXCEPT !.answer = a]
<1>1. q \in RequestRecord /\ q.stage = "idle"
  BY IdleOK
<1>2. RequestOK(q)'
  BY <1>1 DEF RequestOK
<1>3. req' = [req EXCEPT ![r] = q]
  BY DEF Reply
<1> HIDE DEF q
<1> QED
  BY <1>1, <1>2, <1>3, RequestsOK

LEMMA InvCreate ==
    ASSUME IInv, NEW r \in Requests, NEW o \in Outcomes, Create(r, o)
    PROVE  IInv'
<1> DEFINE q == req[r]
<1>1. /\ q.name \in Spellings
      /\ q.password \in Passwords
      /\ Fold[q.name] = q.name
  BY DEF IInv, RequestOK, Create
<1>2. PICK a \in Answers : Reply(r, a)
  BY DEF Create, Answers
<1>3. UNCHANGED <<sessions, swept, overtaken>>
  BY DEF Create
<1>4. CASE UNCHANGED rows
  <2>1. /\ req' \in [Requests -> RequestRecord]
        /\ \A x \in Requests : RequestOK(req[x])'
    BY <1>2, <1>4, ReplyOK
  <2> QED
    BY <1>3, <1>4, <2>1 DEF IInv, TypeOK, OneAccountPerName, DisabledIsOut
<1>5. CASE ~UNCHANGED rows
  <2> DEFINE row == [username |-> q.name, password |-> q.password,
                     enabled |-> TRUE]
  <2>1. Named(q.name) = {}
    BY <1>5 DEF Create
  <2>2. PICK i \in Ids : rows[i] = None /\ rows' = [rows EXCEPT ![i] = row]
    BY <1>5 DEF Create
  <2>3. row \in Row /\ row.username = q.name
    BY <1>1 DEF Row
  <2> HIDE DEF row
  <2>3a. row # None
    BY <2>3, NoneAssumption
  <2>4. rows' \in [Ids -> Row \cup {None}]
    BY <2>2, <2>3 DEF IInv, TypeOK
  <2>5. /\ rows'[i] = row
        /\ \A j \in Ids : j # i => rows'[j] = rows[j]
    BY <2>2 DEF IInv, TypeOK
  <2>6. \A j \in Ids : rows[j] # None => rows'[j] # None
    BY <2>2, <2>5
  <2>7. /\ req' \in [Requests -> RequestRecord]
        /\ \A x \in Requests : RequestOK(req[x])'
    BY <1>2, <2>6, ReplyOK
  <2>8. \A j \in Ids : rows'[j] # None =>
          Fold[rows'[j].username] = rows'[j].username
    BY <1>1, <2>3, <2>5 DEF IInv
  <2>9. \A j \in Ids : rows[j] # None => rows[j].username # q.name
    BY <2>1 DEF Named
  <2>10. OneAccountPerName'
    BY <1>1, <2>3, <2>5, <2>9 DEF IInv, OneAccountPerName
  <2>11. \A j \in swept' : rows'[j] # None /\ ~rows'[j].enabled
    BY <1>3, <2>2, <2>5 DEF IInv, TypeOK
  <2> QED
    BY <1>3, <2>4, <2>7, <2>8, <2>10, <2>11 DEF IInv, TypeOK, DisabledIsOut
<1> QED
  BY <1>4, <1>5

LEMMA InvFind ==
    ASSUME IInv, NEW r \in Requests, NEW o \in Outcomes, Find(r, o)
    PROVE  IInv'
<1>1. UNCHANGED <<rows, sessions, swept, overtaken>>
  BY DEF Find
<1>2. \A i \in Ids : rows[i] # None => rows'[i] # None
  BY <1>1
<1>3. /\ req' \in [Requests -> RequestRecord]
      /\ \A x \in Requests : RequestOK(req[x])'
  <2>1. CASE \E a \in Answers : Reply(r, a)
    BY <1>2, <2>1, ReplyOK
  <2>2. CASE ~\E a \in Answers : Reply(r, a)
    <3>1. "error" \in Answers /\ "denied" \in Answers /\ "disabled" \in Answers
      BY DEF Answers
    <3>2. PICK i \in Named(req[r].name) :
            /\ rows[i].enabled
            /\ req' = [req EXCEPT ![r] = [req[r] EXCEPT !.stage = "issue",
                                                        !.id = i,
                                                        !.row = rows[i]]]
      BY <2>2, <3>1 DEF Find
    <3>3. i \in Ids /\ rows[i] # None /\ rows[i] \in Row
      BY DEF Named, IInv, TypeOK
    <3>4. req[r] \in RequestRecord
      BY DEF IInv, TypeOK
    <3>5. PICK q \in RequestRecord :
            q = [req[r] EXCEPT !.stage = "issue", !.id = i, !.row = rows[i]]
      BY <3>3, <3>4 DEF RequestRecord, Stages
    <3>6. q.stage = "issue" /\ q.id = i /\ q.row = rows[i]
      BY <3>4, <3>5 DEF RequestRecord
    <3>9. q.answer = "none"
      BY <3>4, <3>5 DEF RequestRecord, Find, IInv, RequestOK
    <3>7. req' = [req EXCEPT ![r] = q]
      BY <3>2, <3>5
    <3>8. RequestOK(q)'
      BY <1>1, <3>2, <3>3, <3>6, <3>9 DEF RequestOK
    <3> QED
      BY <1>2, <3>7, <3>8, RequestsOK
  <2> QED
    BY <2>1, <2>2
<1> QED
  BY <1>1, <1>3 DEF IInv, TypeOK, OneAccountPerName, DisabledIsOut

LEMMA InvIssue ==
    ASSUME IInv, NEW r \in Requests, NEW o \in Outcomes, Issue(r, o)
    PROVE  IInv'
<1> DEFINE q == req[r]
<1>1. q.id \in Ids /\ q.row \in Row /\ q.row.enabled /\ rows[q.id] # None
  BY DEF IInv, RequestOK, Issue
<1>2. UNCHANGED <<rows, swept>>
  BY DEF Issue
<1>3. PICK a \in Answers : Reply(r, a)
  BY DEF Issue, Answers
<1>4. /\ req' \in [Requests -> RequestRecord]
      /\ \A x \in Requests : RequestOK(req[x])'
  BY <1>2, <1>3, ReplyOK
<1>5. /\ sessions' \subseteq Ids
      /\ overtaken' \subseteq Ids
      /\ overtaken \subseteq overtaken'
  BY <1>1 DEF Issue, IInv, TypeOK
<1>6. q.id \in swept => rows[q.id] # q.row
  BY <1>1 DEF IInv
<1>7. DisabledIsOut'
  BY <1>2, <1>5, <1>6 DEF Issue, IInv, DisabledIsOut
<1> QED
  BY <1>2, <1>4, <1>5, <1>7 DEF IInv, TypeOK, OneAccountPerName

LEMMA InvChangeRow ==
    ASSUME IInv, NEW i \in Ids, ChangeRow(i)
    PROVE  IInv'
<1>1. PICK e \in BOOLEAN, p \in Passwords :
        rows' = [rows EXCEPT ![i] = [@ EXCEPT !.enabled = e, !.password = p]]
  BY DEF ChangeRow
<1> DEFINE row == [rows[i] EXCEPT !.enabled = e, !.password = p]
<1>2. rows[i] # None /\ rows[i] \in Row
  BY DEF ChangeRow, IInv, TypeOK
<1>3. row \in Row /\ row # None /\ row.username = rows[i].username
  BY <1>2, NoneAssumption DEF Row
<1>4. rows' = [rows EXCEPT ![i] = row]
  BY <1>1
<1> HIDE DEF row
<1>5. /\ rows' \in [Ids -> Row \cup {None}]
      /\ rows'[i] = row
      /\ \A j \in Ids : j # i => rows'[j] = rows[j]
  BY <1>3, <1>4 DEF IInv, TypeOK
<1>6. \A j \in Ids :
        /\ rows[j] # None <=> rows'[j] # None
        /\ rows[j] # None => rows'[j].username = rows[j].username
  BY <1>2, <1>3, <1>5
<1>7. UNCHANGED <<sessions, req, overtaken>>
  BY DEF ChangeRow
<1>8. \A x \in Requests : RequestOK(req[x])'
  BY <1>6, <1>7 DEF IInv, RequestOK
<1>9. OneAccountPerName'
  BY <1>6 DEF IInv, OneAccountPerName
<1>10. \A j \in Ids : rows'[j] # None => Fold[rows'[j].username] = rows'[j].username
  BY <1>6 DEF IInv
<1>11. swept' \subseteq swept /\ (i \in swept' => ~rows'[i].enabled)
  BY DEF ChangeRow
<1>12. \A j \in swept' : rows'[j] # None /\ ~rows'[j].enabled
  BY <1>5, <1>6, <1>11 DEF IInv, TypeOK
<1>13. DisabledIsOut'
  BY <1>7, <1>11 DEF IInv, DisabledIsOut
<1> QED
  BY <1>5, <1>7, <1>8, <1>9, <1>10, <1>11, <1>12, <1>13 DEF IInv, TypeOK

LEMMA InvLogoutUser ==
    ASSUME IInv, NEW i \in Ids, LogoutUser(i)
    PROVE  IInv'
<1>1. UNCHANGED <<rows, req>>
  BY DEF LogoutUser
<1>2. DisabledIsOut'
  BY DEF LogoutUser, IInv, DisabledIsOut
<1>3. \A j \in swept' : rows'[j] # None /\ ~rows'[j].enabled
  BY <1>1 DEF LogoutUser, IInv
<1>4. sessions' \subseteq Ids /\ swept' \subseteq Ids /\ overtaken' \subseteq Ids
  BY DEF LogoutUser, IInv, TypeOK
<1> QED
  BY <1>1, <1>2, <1>3, <1>4 DEF IInv, TypeOK, OneAccountPerName, RequestOK

LEMMA InvNext ==
    ASSUME IInv, [Next]_vars
    PROVE  IInv'
<1>1. CASE UNCHANGED vars
  BY <1>1 DEF IInv, TypeOK, OneAccountPerName, DisabledIsOut, RequestOK, vars
<1>2. CASE Next
  BY <1>2, InvRegister, InvCreate, InvFind, InvIssue, InvChangeRow,
     InvLogoutUser DEF Next
<1> QED
  BY <1>1, <1>2

\* The inductive invariant.
THEOREM Invariant == Spec => []IInv
BY InitInv, InvNext, PTL DEF Spec

\* Every variable keeps its type.
THEOREM TypeCorrect == Spec => []TypeOK
<1>1. IInv => TypeOK
  BY DEF IInv
<1> QED
  BY <1>1, Invariant, PTL

\* Two accounts never share a name, in any spelling.
THEOREM UniqueNames == Spec => []OneAccountPerName
<1>1. IInv => OneAccountPerName
  BY DEF IInv
<1> QED
  BY <1>1, Invariant, PTL

\* A disabled and logged-out account has a session only if a login overtook it.
THEOREM DisabledOut == Spec => []DisabledIsOut
<1>1. IInv => DisabledIsOut
  BY DEF IInv
<1> QED
  BY <1>1, Invariant, PTL

\* A login is told "wrong name or password" only when it is.
THEOREM Denied == Spec => DeniedForCause
<1> DEFINE A == \A r \in Requests :
         req[r].stage = "find" /\ req'[r].answer = "denied"
            => \A i \in Ids :
                 rows[i] # None /\ Fold[rows[i].username] = Fold[req[r].name]
                    => rows[i].password # req[r].password
<1>1. ASSUME IInv, [Next]_vars PROVE A
  <2> SUFFICES ASSUME NEW r \in Requests, NEW i \in Ids,
                      req[r].stage = "find", req'[r].answer = "denied",
                      rows[i] # None,
                      Fold[rows[i].username] = Fold[req[r].name]
               PROVE  rows[i].password # req[r].password
    OBVIOUS
  <2>1. /\ req \in [Requests -> RequestRecord]
        /\ req[r].answer = "none"
        /\ rows[i].username = req[r].name
    BY <1>1 DEF IInv, TypeOK, RequestOK
  <2>2. req'[r] # req[r]
    BY <2>1
  <2>3. PICK o \in Outcomes : Find(r, o)
    <3>1. \A x \in Requests : \A q : req' = [req EXCEPT ![x] = q] => x = r
      BY <2>1, <2>2
    <3>2. ~UNCHANGED req
      BY <2>2
    <3>3. ASSUME NEW x \in Requests, NEW a, Reply(x, a) PROVE x = r
      BY <3>1, <3>3 DEF Reply
    <3>4. CASE \E x \in Requests, t \in Spellings, p \in Passwords :
                 Register(x, t, p) \/ Login(x, t, p)
      BY <3>1, <3>4 DEF Register, Login
    <3>5. CASE \E x \in Requests, o \in Outcomes : Create(x, o)
      BY <3>3, <3>5 DEF Create
    <3>6. CASE \E x \in Requests, o \in Outcomes : Issue(x, o)
      BY <3>3, <3>6 DEF Issue
    <3>7. CASE \E x \in Requests, o \in Outcomes : Find(x, o)
      BY ZenonT(40), <3>1, <3>3, <3>7 DEF Find
    <3>8. ~\E j \in Ids : ChangeRow(j) \/ LogoutUser(j)
      BY <3>2 DEF ChangeRow, LogoutUser
    <3> QED
      BY <1>1, <3>2, <3>4, <3>5, <3>6, <3>7, <3>8 DEF Next, vars
  <2>4. req'[r].answer # "denied" \/ {j \in Named(req[r].name) :
                                       rows[j].password = req[r].password} = {}
    BY <2>1, <2>3 DEF Find, Reply, Idle, RequestRecord
  <2> QED
    BY <2>1, <2>4 DEF Named
<1> QED
  BY <1>1, Invariant, PTL DEF Spec, DeniedForCause
=============================================================================
