------------------------------ MODULE Accounts ------------------------------
(***************************************************************************)
(* The account service of one realm (internal/modules/user; adminuser is   *)
(* the same with other names): registration and login, each several calls  *)
(* that interleave with other requests and with what an operator does.     *)
(*                                                                         *)
(* The realm is abstract here: the accounts that have a live session, and  *)
(* a LogoutUser that is one step.  SessionRealm has its races.             *)
(***************************************************************************)
EXTENDS Naturals, FiniteSets

CONSTANTS
    Spellings,   \* usernames as clients type them
    Fold,        \* lower case, trimmed: the spelling that usernamePattern takes
    Passwords,   \* a password stands for its hash, too
    Ids, Requests, None

ASSUME FoldAssumption ==
    /\ Fold \in [Spellings -> Spellings]
    /\ \A s \in Spellings : Fold[Fold[s]] = Fold[s]

Row == [username : Spellings, password : Passwords, enabled : BOOLEAN]

Stages == {"idle", "create", "find", "issue"}
Answers == {"none", "created", "exists", "token", "denied", "disabled", "error"}

RequestRecord ==
    [stage    : Stages,
     name     : Spellings \cup {None},
     password : Passwords \cup {None},
     id       : Ids \cup {None},    \* the account that login found,
     row      : Row \cup {None},    \* and its row
     answer   : Answers]

ASSUME NoneAssumption == None \notin Spellings \cup Passwords \cup Ids \cup Row

VARIABLES
    rows,      \* the users table
    sessions,  \* the accounts that have a live session
    req,       \* the requests being served
    swept,     \* history: disabled accounts that LogoutUser has logged out since
    overtaken  \* history: accounts whose row changed during a login that
               \* then got a session

vars == <<rows, sessions, req, swept, overtaken>>

Idle == [stage |-> "idle", name |-> None, password |-> None, id |-> None,
         row |-> None, answer |-> "none"]

Reply(r, a) == req' = [req EXCEPT ![r] = [Idle EXCEPT !.answer = a]]

\* A call is carried out and answered ("ok"), carried out without an answer
\* ("lost"), or not carried out ("fail").
Outcomes == {"ok", "lost", "fail"}

Named(name) == {i \in Ids : rows[i] # None /\ rows[i].username = name}

-----------------------------------------------------------------------------
(* Register and Login                                                      *)

\* Faulty: the name is kept as typed.
NormalizeNot(s) == s

normalizeUsername(s) == Fold[s]

\* Register, up to the hash of the password.
Register(r, s, p) ==
    /\ req[r].stage = "idle"
    /\ req' = [req EXCEPT ![r] = [Idle EXCEPT !.stage = "create",
                                              !.name = normalizeUsername(s),
                                              !.password = p]]
    /\ UNCHANGED <<rows, sessions, swept, overtaken>>

\* INSERT under the UNIQUE constraint on the name, with a fresh UUID.
Create(r, o) ==
    LET q == req[r] IN
    /\ q.stage = "create"
    /\ IF o = "fail" \/ Named(q.name) # {}
       THEN UNCHANGED rows
       ELSE \E i \in {i \in Ids : rows[i] = None} :
              rows' = [rows EXCEPT ![i] = [username |-> q.name,
                                           password |-> q.password,
                                           enabled |-> TRUE]]
    /\ Reply(r, IF o # "ok" THEN "error"
                ELSE IF Named(q.name) # {} THEN "exists" ELSE "created")
    /\ UNCHANGED <<sessions, swept, overtaken>>

\* Faulty: login looks for the name as typed.
LoginAsTyped(r, s, p) ==
    /\ req[r].stage = "idle"
    /\ req' = [req EXCEPT ![r] = [Idle EXCEPT !.stage = "find",
                                              !.name = s,
                                              !.password = p]]
    /\ UNCHANGED <<rows, sessions, swept, overtaken>>

Login(r, s, p) ==
    /\ req[r].stage = "idle"
    /\ req' = [req EXCEPT ![r] = [Idle EXCEPT !.stage = "find",
                                              !.name = normalizeUsername(s),
                                              !.password = p]]
    /\ UNCHANGED <<rows, sessions, swept, overtaken>>

\* Faulty: the status is not looked at.
FindAnyStatus(r, o) ==
    LET q == req[r]
        match == {i \in Named(q.name) : rows[i].password = q.password} IN
    /\ q.stage = "find"
    /\ IF o # "ok" THEN Reply(r, "error")
       ELSE IF match = {} THEN Reply(r, "denied")
       ELSE \E i \in match :
              req' = [req EXCEPT ![r] = [q EXCEPT !.stage = "issue",
                                                  !.id = i,
                                                  !.row = rows[i]]]
    /\ UNCHANGED <<rows, sessions, swept, overtaken>>

\* Login reads the credential, then compares the password, then the status, all
\* of the row it has read.
Find(r, o) ==
    LET q == req[r]
        match == {i \in Named(q.name) : rows[i].password = q.password} IN
    /\ q.stage = "find"
    /\ IF o # "ok" THEN Reply(r, "error")
       ELSE IF match = {} THEN Reply(r, "denied")
       ELSE \E i \in match :
              IF ~rows[i].enabled THEN Reply(r, "disabled")
              ELSE req' = [req EXCEPT ![r] = [q EXCEPT !.stage = "issue",
                                                       !.id = i,
                                                       !.row = rows[i]]]
    /\ UNCHANGED <<rows, sessions, swept, overtaken>>

\* Faulty: the session is issued for the name.
IssueByName(r, o) ==
    /\ req[r].stage = "issue"
    /\ sessions' = IF o = "fail" THEN sessions ELSE sessions \cup {req[r].name}
    /\ Reply(r, IF o = "ok" THEN "token" ELSE "error")
    /\ UNCHANGED <<rows, swept, overtaken>>

\* Issue: Realm.Login with the ID that was read.
Issue(r, o) ==
    LET q == req[r] IN
    /\ q.stage = "issue"
    /\ sessions' = IF o = "fail" THEN sessions ELSE sessions \cup {q.id}
    /\ overtaken' = IF o # "fail" /\ rows[q.id] # q.row
                    THEN overtaken \cup {q.id} ELSE overtaken
    /\ Reply(r, IF o = "ok" THEN "token" ELSE "error")
    /\ UNCHANGED <<rows, swept>>

-----------------------------------------------------------------------------
(* What an application does to accounts; src/ has no operation for it      *)

\* Enable, disable or give a new password.
ChangeRow(i) ==
    /\ rows[i] # None
    /\ \E e \in BOOLEAN, p \in Passwords :
         rows' = [rows EXCEPT ![i] = [@ EXCEPT !.enabled = e, !.password = p]]
    /\ rows' # rows
    /\ swept' = IF rows'[i].enabled THEN swept \ {i} ELSE swept
    /\ UNCHANGED <<sessions, req, overtaken>>

\* The LogoutUser that README.md:217 asks for.
LogoutUser(i) ==
    /\ rows[i] # None
    /\ sessions' = sessions \ {i}
    /\ swept' = IF rows[i].enabled THEN swept ELSE swept \cup {i}
    /\ overtaken' = overtaken \ {i}
    /\ UNCHANGED <<rows, req>>

-----------------------------------------------------------------------------

Init ==
    /\ rows = [i \in Ids |-> None]
    /\ sessions = {}
    /\ req = [r \in Requests |-> Idle]
    /\ swept = {}
    /\ overtaken = {}

Next ==
    \/ \E r \in Requests, s \in Spellings, p \in Passwords :
         Register(r, s, p) \/ Login(r, s, p)
    \/ \E r \in Requests, o \in Outcomes : Create(r, o) \/ Find(r, o) \/ Issue(r, o)
    \/ \E i \in Ids : ChangeRow(i) \/ LogoutUser(i)

Spec == Init /\ [][Next]_vars

-----------------------------------------------------------------------------
(* Properties                                                              *)

\* Every variable stays within the values the code can give it.
TypeOK ==
    /\ rows \in [Ids -> Row \cup {None}]
    /\ sessions \subseteq Ids
    /\ req \in [Requests -> RequestRecord]
    /\ swept \subseteq Ids
    /\ overtaken \subseteq Ids

\* Two accounts never have names that a client could take for the same, however
\* the registrations interleave and however the names were typed: the service
\* folds the name and the table takes each folded name once
\* (service.go:43, repository.go:39).
OneAccountPerName ==
    \A i, j \in {i \in Ids : rows[i] # None} :
        Fold[rows[i].username] = Fold[rows[j].username] => i = j

\* Login says "wrong name or password" only when no account of that name, in
\* any spelling, has that password (service.go:73, 82, 91).
DeniedForCause ==
    [][\A r \in Requests :
         req[r].stage = "find" /\ req'[r].answer = "denied"
            => \A i \in Ids :
                 rows[i] # None /\ Fold[rows[i].username] = Fold[req[r].name]
                    => rows[i].password # req[r].password]_vars

\* A disabled account that was logged out has no session, unless a login had
\* read its row before it was disabled and was issued the session after the
\* logout (service.go:94, 99).
DisabledIsOut ==
    \A i \in swept \cap sessions : i \in overtaken
=============================================================================
