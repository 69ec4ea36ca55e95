--------------------------- MODULE RequestContext ---------------------------
(***************************************************************************)
(* What one request context may see of both login realms: the calls of     *)
(* Realm on a context in any order, with whatever else happens in Redis    *)
(* between them.                                                           *)
(*                                                                         *)
(* A Go context is a value; what it shares are the SCS session data, one   *)
(* pointer per realm.  The request session (token and principal) has one   *)
(* key for both realms, so the realm that authenticates last holds it.     *)
(*                                                                         *)
(* SessionRealm has the interleaving of the Redis calls; here a call of    *)
(* Realm is one step, with the place where it fails as a parameter.        *)
(***************************************************************************)
EXTENDS Naturals, FiniteSets

CONSTANTS Realms, Users, Devices, Tokens, None

Identity == [user : Users, device : Devices]

\* SCS data in a context; token and who are None after Destroy.
Data == [token : Tokens \cup {None}, who : Identity \cup {None}]
Empty == [token |-> None, who |-> None]

RequestSession == [realm : Realms, token : Tokens, principal : Identity]

\* The realm and the identity of a login.
Made == [realm : Realms, who : Identity]

ASSUME NoneAssumption ==
    None \notin Realms \cup Tokens \cup Identity \cup Data \cup RequestSession \cup Made

VARIABLES
    store,    \* per realm, the identity that each stored session carries
    index,    \* per realm, the reverse index: tokens and their identities
    data,     \* per realm, the SCS data of the context
    session,  \* the request session of the context
    owner,    \* history: the realm and identity of each login
    issued,   \* history: the tokens that a login returned
    reused    \* history: tokens of an Authenticate that Redis would refuse or
              \* answer otherwise

context == <<data, session>>
history == <<owner, issued, reused>>
vars == <<store, index, context, history>>

Fresh == {t \in Tokens : owner[t] = None}

Entry(t, who) == [token |-> t, who |-> who]

\* data changes in place, if the context holds any.
Update(r, d) ==
    data' = IF data[r] = None THEN data ELSE [data EXCEPT ![r] = d]

-----------------------------------------------------------------------------

\* Faulty: session data without an identity is taken for a login.
AuthenticateUnchecked(r, t, answered) ==
    /\ session # None => session.realm # r
    /\ answered
    /\ LET d == IF data[r] # None THEN data[r] ELSE Entry(t, store[r][t]) IN
       /\ d.token # None
       /\ store' = [store EXCEPT ![r][d.token] = d.who]
       /\ data' = [data EXCEPT ![r] = d]
       /\ session' = [realm |-> r, token |-> t, principal |-> d.who]
       /\ reused' = reused
    /\ UNCHANGED <<index, owner, issued>>

\* Authenticate, unless the request session is the realm's own: then it is
\* compared with the token and nothing changes.  Load returns what the context
\* holds of the realm, whatever the token, and asks Redis only when there is
\* nothing.  Commit writes back what Load returned; when its answer is lost,
\* the context stays as it was.  (A Commit that is not carried out changes
\* nothing at all.)
Authenticate(r, t, answered) ==
    /\ session # None => session.realm # r
    /\ LET d == IF data[r] # None THEN data[r] ELSE Entry(t, store[r][t]) IN
       /\ d.who # None
       /\ store' = [store EXCEPT ![r][d.token] = d.who]
       /\ data' = IF answered THEN [data EXCEPT ![r] = d] ELSE data
       /\ session' = IF answered THEN [realm |-> r, token |-> t, principal |-> d.who]
                     ELSE session
       /\ reused' = IF t # d.token \/ store[r][t] = None
                    THEN reused \cup {d.token} \cup {x \in {t} : answered} ELSE reused
    /\ UNCHANGED <<index, owner, issued>>

\* Where a Login fails: "renew", "commit", "index" (then the session is
\* destroyed), "destroy" (then that fails, too), or "no".  An error of the last
\* call, which unindexes the old token, is dropped ("unindex").
LoginFaults == {"no", "renew", "commit", "index", "destroy", "unindex"}

\* Faulty: an authenticated context logs in under the token it has.
NewTokensInPlace(old) == IF old.token = None THEN Fresh ELSE {old.token}

\* RenewToken and Commit make up a token; the old one is not used again.
NewTokens(old) == Fresh

\* Faulty: the new token leaves the index.
ReindexedWrong(E, old, new) == IF old.who = None THEN E \cup {new} ELSE E \ {new}

ReIndexed(E, old, new) == (E \cup {new}) \ {old}

\* A call that failed may have been carried out all the same, so a failed Login
\* leaves one of several stores, indexes, and session data.
StoresAfter(fault, before, kept, stored) ==
    CASE fault = "renew" -> {before, kept}
      [] fault \in {"commit", "destroy"} -> {kept, stored}
      [] fault = "index" -> {kept}
      [] OTHER -> {stored}

IndexesAfter(fault, before, added, reindexed) ==
    CASE fault \in {"renew", "commit"} -> {before}
      [] fault \in {"index", "destroy"} -> {before, added}
      [] fault = "unindex" -> {added, reindexed}
      [] OTHER -> {reindexed}

DataAfter(fault, old, new) ==
    CASE fault = "renew" -> old [] fault = "index" -> Empty [] OTHER -> new

Login(r, u, d, fault) ==
    LET old == IF data[r] = None THEN Empty ELSE data[r]
        who == [user |-> u, device |-> d]
        kept == IF old.token = None THEN store[r]
                ELSE [store[r] EXCEPT ![old.token] = None]
    IN
    /\ fault = "renew" => old.token # None
    /\ fault = "unindex" => old.who # None
    /\ \E t \in NewTokens(old) :
         LET new == Entry(t, who) IN
         /\ \E st \in StoresAfter(fault, store[r], kept, [kept EXCEPT ![t] = who]) :
              store' = [store EXCEPT ![r] = st]
         /\ \E ix \in IndexesAfter(fault, index[r], index[r] \cup {new},
                                   ReIndexed(index[r], old, new)) :
              index' = [index EXCEPT ![r] = ix]
         /\ Update(r, DataAfter(fault, old, new))
         /\ owner' = IF fault = "renew" THEN owner
                     ELSE [owner EXCEPT ![t] = [realm |-> r, who |-> who]]
         /\ issued' = IF fault \in {"no", "unindex"} THEN issued \cup {t}
                      ELSE issued
    /\ UNCHANGED <<session, reused>>

\* Faulty: the token leaves the index, the session stays.
LogoutCurrentIndexOnly(r, fault) ==
    /\ session # None /\ session.realm = r
    /\ fault = "no"
    /\ index' = [index EXCEPT
                   ![r] = @ \ {Entry(session.token, session.principal)}]
    /\ UNCHANGED <<store, context, history>>

\* LogoutCurrent destroys the SCS session of the context, and unindexes the
\* token of the request session.  Either call may fail.
LogoutCurrent(r, fault) ==
    LET gone == IF data[r].token = None THEN store
                ELSE [store EXCEPT ![r][data[r].token] = None]
        unindexed == [index EXCEPT
                        ![r] = @ \ {Entry(session.token, session.principal)}]
    IN
    /\ session # None /\ session.realm = r
    /\ fault \in {"no", "destroy", "unindex"}
    /\ store' \in (IF fault = "destroy" THEN {store, gone} ELSE {gone})
    /\ data' = IF fault = "destroy" THEN data ELSE [data EXCEPT ![r] = Empty]
    /\ index' \in (CASE fault = "destroy" -> {index}
                     [] fault = "unindex" -> {index, unindexed}
                     [] OTHER -> {unindexed})
    /\ UNCHANGED <<session, history>>

\* The next request starts with a bare context.
NextRequest ==
    /\ session # None
    /\ data' = [r \in Realms |-> None]
    /\ session' = None
    /\ UNCHANGED <<store, index, history>>

\* Another request logs in.
LoginElsewhere(r, u, d) ==
    LET who == [user |-> u, device |-> d] IN
    \E t \in Fresh :
       /\ store' = [store EXCEPT ![r][t] = who]
       /\ index' = [index EXCEPT ![r] = @ \cup {Entry(t, who)}]
       /\ owner' = [owner EXCEPT ![t] = [realm |-> r, who |-> who]]
       /\ issued' = issued \cup {t}
       /\ UNCHANGED <<context, reused>>

\* Realms.LogoutUser in each realm R whose Redis calls succeed: the other one
\* is tried, too, when the first fails.
LogoutUser(R, u) ==
    LET of(r) == {e \in index[r] : e.who.user = u} IN
    /\ store' = [r \in Realms |-> [t \in Tokens |->
                   IF r \in R /\ \E e \in of(r) : e.token = t THEN None
                   ELSE store[r][t]]]
    /\ index' = [r \in Realms |-> IF r \in R THEN index[r] \ of(r)
                                  ELSE index[r]]
    /\ UNCHANGED <<context, history>>

Init ==
    /\ store = [r \in Realms |-> [t \in Tokens |-> None]]
    /\ index = [r \in Realms |-> {}]
    /\ data = [r \in Realms |-> None]
    /\ session = None
    /\ owner = [t \in Tokens |-> None]
    /\ issued = {}
    /\ reused = {}

Next ==
    \/ \E r \in Realms, t \in Tokens, answered \in BOOLEAN : Authenticate(r, t, answered)
    \/ \E r \in Realms, u \in Users, d \in Devices :
         \/ LoginElsewhere(r, u, d)
         \/ \E f \in LoginFaults : Login(r, u, d, f)
    \/ \E r \in Realms, f \in LoginFaults : LogoutCurrent(r, f)
    \/ \E R \in SUBSET Realms, u \in Users : LogoutUser(R, u)
    \/ NextRequest

Spec == Init /\ [][Next]_vars

-----------------------------------------------------------------------------
(* Properties                                                              *)

\* Every variable stays within the values the code can give it.
TypeOK ==
    /\ store \in [Realms -> [Tokens -> Identity \cup {None}]]
    /\ index \in [Realms -> SUBSET [token : Tokens, who : Identity]]
    /\ data \in [Realms -> Data \cup {None}]
    /\ session \in RequestSession \cup {None}
    /\ owner \in [Tokens -> Made \cup {None}]
    /\ issued \subseteq Tokens
    /\ reused \subseteq Tokens

\* The request session names the login that made its token: in its realm, for
\* its user and device, whatever Login, LogoutCurrent or the other realm did on
\* the context before (realm.go:143, 151, 177).  Excepted are tokens for which
\* Authenticate took the data of another token that the context held.
PrincipalOfToken ==
    session # None /\ session.token \notin reused
        => owner[session.token] =
             [realm |-> session.realm, who |-> session.principal]

\* What a Login returned stays in the index of its realm while it is stored,
\* though Login and LogoutCurrent take the token to unindex from different
\* places, the SCS data and the request session (realm.go:126, 195).
Indexed ==
    \A r \in Realms, t \in issued \ reused :
        store[r][t] # None => Entry(t, store[r][t]) \in index[r]

\* A LogoutCurrent that succeeds ends the session that the request came with
\* and drops it from the index, also when a Login on the same context has
\* replaced that session since (realm.go:184).
LogoutEndsCurrent ==
    [][\A r \in Realms :
         LogoutCurrent(r, "no") /\ session.token \notin reused
            => /\ store'[r][session.token] = None
               /\ \A e \in index'[r] : e.token # session.token]_vars
=============================================================================
