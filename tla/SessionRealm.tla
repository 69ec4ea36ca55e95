---------------------------- MODULE SessionRealm ----------------------------
(***************************************************************************)
(* One login realm of internal/auth: the SCS sessions it keeps in Redis,   *)
(* the reverse index from users and devices to those sessions, and the     *)
(* requests that log in, authenticate and revoke them at the same time.    *)
(*                                                                         *)
(* A request makes one Redis call at a time; a MULTI/EXEC pipeline is one  *)
(* call.  Every call that writes is an action of its own, so the calls of  *)
(* different requests interleave in every order.  A call may fail, may     *)
(* take effect and lose its reply, and may be sent twice (go-redis retries *)
(* by default, and data/redis.go leaves that default alone).               *)
(*                                                                         *)
(* A token stands for itself and for its SHA-256 digest (tokenDigest).     *)
(***************************************************************************)
EXTENDS Naturals, FiniteSets

CONSTANTS
    Users, Devices, Tokens,  \* values of trimmed, non-empty identifiers
    Requests,                \* the requests that may be served at once
    Lifetime, IdleTimeout,   \* Config.SessionLifetime, Config.IdleTimeout
    None,                    \* no value
    MaxClock, MaxFaults      \* bounds of the model

ASSUME TimeoutsAssumption == Lifetime \in Nat /\ IdleTimeout \in 1..Lifetime
ASSUME BoundsAssumption == MaxClock \in Nat \ {0} /\ MaxFaults \in Nat

VARIABLES
    clock,           \* the wall clock of the service and of Redis
    store,           \* prefix + "session:" + digest: the SCS blob and its TTL
    userSessions,    \* prefix + "user:U:sessions"
    userDevices,     \* prefix + "user:U:devices"
    deviceSessions,  \* prefix + "user:U:device:D:sessions"
    userTTL,         \* when the two user sets expire
    deviceTTL,       \* when a device set expires
    req,             \* what each request has read so far, and where it is
    faults,          \* calls that have gone wrong so far
    issued,          \* history: tokens whose login was indexed, hence returned
    owner,           \* history: what was first stored under each token
    escape,          \* history: the races that befell each token
    revoked          \* history: tokens that a successful logout covered

index == <<userSessions, userDevices, deviceSessions, userTTL, deviceTTL>>
history == <<issued, owner, escape, revoked>>
vars == <<clock, store, index, req, faults, history>>

-----------------------------------------------------------------------------
(* Session data                                                            *)

\* What SCS encodes: the values that Login puts and the absolute deadline.
Payload == [user : Users, device : Devices, at : Nat, deadline : Nat]

\* A Redis string and its expiry; 0 is go-redis for "no TTL is set".
Stored == [data : Payload, expiry : Nat]

\* A request context that holds SCS session data; Token(ctx) is empty before
\* the first Commit.
Session == [token : Tokens \cup {None}, data : Payload]

ASSUME NoneAssumption ==
    None \notin Users \cup Devices \cup Tokens \cup Payload \cup Stored \cup Session

\* What a request is about to do next (which Redis call, but for "idle" and
\* "authed", where the handler has control).
LoginStages == {"commit", "add", "undo"}
CarryStages == {"removeOld", "touch", "authed", "renew", "destroy", "unindex"}
RevokeStages == {"deviceTx", "userDevices", "userTx"}
Stages == {"idle"} \cup LoginStages \cup CarryStages \cup RevokeStages

RequestRecord ==
    [stage    : Stages,
     session  : Session \cup {None},     \* SCS data in the request context
     old      : Session \cup {None},     \* the session that a rotation replaces
     user     : Users \cup {None},       \* arguments of a revocation or rotation
     device   : Devices \cup {None},
     hashes   : SUBSET Tokens,           \* SMEMBERS snapshots
     devices  : SUBSET Devices,
     promised : SUBSET Tokens]           \* history: sessions the logout covers

\* q has what the call of stage s needs.
Ready(q, s) ==
    /\ s \in LoginStages \cup CarryStages => q.session # None
    /\ s \in {"add", "undo"} \cup CarryStages => q.session.token # None
    /\ q.old # None => q.old.token # None
    /\ s = "removeOld" => q.old # None
    /\ s \in RevokeStages => q.user # None
    /\ s = "deviceTx" => q.device # None
    /\ s \in RevokeStages \ {"deviceTx"} => q.device = None
    /\ s \notin RevokeStages => q.hashes = {} /\ q.promised = {}

Request == {q \in RequestRecord : Ready(q, q.stage)}

Idle == [stage |-> "idle", session |-> None, old |-> None, user |-> None,
         device |-> None, hashes |-> {}, devices |-> {}, promised |-> {}]

Causes == {"revived", "late", "userRace", "deviceRace"}

\* Login stores the identity and the time it was proved (realm.go:111-115);
\* SCS sets the deadline when it makes or renews the session data.
NewPayload(u, d) ==
    [user |-> u, device |-> d, at |-> clock, deadline |-> clock + Lifetime]

\* SCS Commit: the idle expiry, cut at the deadline.  goredisstore passes the
\* time that is left to SET, and go-redis sends no TTL when none is left.
Expiry(p) ==
    IF p.deadline <= clock THEN 0
    ELSE IF clock + IdleTimeout < p.deadline THEN clock + IdleTimeout
    ELSE p.deadline

StoredNow(p) == [data |-> p, expiry |-> Expiry(p)]

\* Tokens that crypto/rand may still produce.
Fresh == {t \in Tokens :
            /\ owner[t] = None
            /\ \A r \in Requests :
                 req[r].session # None => req[r].session.token # t}

\* Bound of the model: every login that has begun finds a token.
TokensLeft ==
    Cardinality(Fresh) > Cardinality({r \in Requests :
                              /\ req[r].session # None
                              /\ req[r].session.token = None})

\* DEL of session keys (deleteStoredSessions, SCS Destroy and RenewToken).
Without(S) == [t \in Tokens |-> IF t \in S THEN None ELSE store[t]]

Escaping(S, cause) ==
    [t \in Tokens |-> IF t \in S THEN escape[t] \cup {cause} ELSE escape[t]]

-----------------------------------------------------------------------------
(* Calls to Redis                                                          *)

\* "ok": done and answered.  "again": done, the answer lost, and the client
\* sends it again.  "lost": done, an error is returned.  "fail": not done.
Outcomes == {"ok", "again", "lost", "fail"}

Call(r, stages, o) ==
    /\ req[r].stage \in stages
    /\ IF o = "ok" THEN UNCHANGED faults
       ELSE faults < MaxFaults /\ faults' = faults + 1
    /\ UNCHANGED clock

\* The request goes on to next when the call is answered, repeats the call
\* when the client retries it, and takes the error path otherwise.
Answer(r, o, pending, next, error) ==
    req' = [req EXCEPT ![r] = IF o = "ok" THEN next
                              ELSE IF o = "again" THEN pending
                              ELSE error]

Done(o) == o # "fail"
-----------------------------------------------------------------------------
(* Login                                                                   *)

\* Login in a context without a session.
LoginBegin(r, u, d) ==
    /\ req[r].stage = "idle"
    /\ TokensLeft
    /\ req' = [req EXCEPT ![r] =
                 [Idle EXCEPT !.stage = "commit",
                              !.session = [token |-> None,
                                           data |-> NewPayload(u, d)]]]
    /\ UNCHANGED <<clock, store, index, faults, history>>

\* Faulty: the token of the old session is used again.
LoginRotateInPlace(r, u, d, o) ==
    /\ Call(r, {"authed"}, o)
    /\ Answer(r, o, req[r],
              [Idle EXCEPT !.stage = "commit",
                           !.session = [token |-> req[r].session.token,
                                        data |-> NewPayload(u, d)]],
              Idle)
    /\ UNCHANGED <<store, index, history>>

\* Login in an authenticated context: RenewToken deletes the old session key,
\* takes a new token and resets the deadline.
LoginRotate(r, u, d, o) ==
    /\ Call(r, {"authed", "renew"}, o)
    /\ req[r].stage = "renew" => req[r].user = u /\ req[r].device = d
    /\ TokensLeft
    /\ \E t \in Fresh :
         Answer(r, o,
                [req[r] EXCEPT !.stage = "renew", !.user = u, !.device = d],
                [Idle EXCEPT !.stage = "commit",
                             !.session = [token |-> t,
                                          data |-> NewPayload(u, d)],
                             !.old = req[r].session],
                Idle)
    /\ store' = IF Done(o) THEN Without({req[r].session.token}) ELSE store
    /\ UNCHANGED <<index, history>>

\* SCS Commit; it makes up the token of a new session.
LoginCommit(r, o) ==
    /\ Call(r, {"commit"}, o)
    /\ \E t \in IF req[r].session.token = None THEN Fresh
                ELSE {req[r].session.token} :
         LET p == req[r].session.data
             s == [req[r] EXCEPT !.session.token = t] IN
         /\ Answer(r, o, s, [s EXCEPT !.stage = "add"], Idle)
         /\ IF Done(o)
            THEN /\ store' = [store EXCEPT ![t] = StoredNow(p)]
                 /\ owner' = [owner EXCEPT ![t] = p]
                 /\ escape' = IF Expiry(p) = 0 THEN Escaping({t}, "late")
                              ELSE escape
            ELSE UNCHANGED <<store, owner, escape>>
    /\ UNCHANGED <<index, issued, revoked>>

\* Faulty: the sets of sessions and of devices are mixed up.
AddToIndexMixedUp(s) ==
    LET u == s.data.user  d == s.data.device IN
    /\ userSessions' = [userSessions EXCEPT ![u] = @ \cup {s.token}]
    /\ userDevices' = [userDevices EXCEPT ![u] = @ \cup {s.token}]
    /\ deviceSessions' = [deviceSessions EXCEPT ![u][d] = @ \cup {s.token}]
    /\ userTTL' = [userTTL EXCEPT ![u] = clock + 2 * Lifetime]
    /\ deviceTTL' = [deviceTTL EXCEPT ![u][d] = clock + 2 * Lifetime]

\* Faulty: the index is kept for the idle timeout only.
AddToIndexBriefly(s) ==
    LET u == s.data.user  d == s.data.device IN
    /\ userSessions' = [userSessions EXCEPT ![u] = @ \cup {s.token}]
    /\ userDevices' = [userDevices EXCEPT ![u] = @ \cup {d}]
    /\ deviceSessions' = [deviceSessions EXCEPT ![u][d] = @ \cup {s.token}]
    /\ userTTL' = [userTTL EXCEPT ![u] = clock + IdleTimeout]
    /\ deviceTTL' = [deviceTTL EXCEPT ![u][d] = clock + IdleTimeout]

\* index.add: one transaction.
AddToIndex(s) ==
    LET u == s.data.user  d == s.data.device IN
    /\ userSessions' = [userSessions EXCEPT ![u] = @ \cup {s.token}]
    /\ userDevices' = [userDevices EXCEPT ![u] = @ \cup {d}]
    /\ deviceSessions' = [deviceSessions EXCEPT ![u][d] = @ \cup {s.token}]
    /\ userTTL' = [userTTL EXCEPT ![u] = clock + 2 * Lifetime]
    /\ deviceTTL' = [deviceTTL EXCEPT ![u][d] = clock + 2 * Lifetime]

\* Login indexes the session; from here on it returns the token.
LoginAdd(r, o) ==
    LET s == req[r].session IN
    /\ Call(r, {"add"}, o)
    /\ Answer(r, o, req[r],
              IF req[r].old = None THEN Idle
              ELSE [req[r] EXCEPT !.stage = "removeOld"],
              [req[r] EXCEPT !.stage = "undo"])
    /\ IF Done(o) THEN AddToIndex(s) ELSE UNCHANGED index
    /\ issued' = IF o = "ok" THEN issued \cup {s.token} ELSE issued
    /\ UNCHANGED <<store, owner, escape, revoked>>

\* The index could not be written: Destroy, whose error is dropped.
LoginUndo(r, o) ==
    /\ Call(r, {"undo"}, o)
    /\ Answer(r, o, req[r], Idle, Idle)
    /\ store' = IF Done(o) THEN Without({req[r].session.token}) ELSE store
    /\ UNCHANGED <<index, history>>

\* Faulty: the device goes with the session.
RemoveFromIndexAll(s) ==
    LET u == s.data.user  d == s.data.device IN
    /\ userSessions' = [userSessions EXCEPT ![u] = @ \ {s.token}]
    /\ deviceSessions' = [deviceSessions EXCEPT ![u][d] = @ \ {s.token}]
    /\ userDevices' = [userDevices EXCEPT ![u] = @ \ {d}]
    /\ UNCHANGED <<userTTL, deviceTTL>>

\* index.remove: one transaction that leaves the device in userDevices.
RemoveFromIndex(s) ==
    LET u == s.data.user  d == s.data.device IN
    /\ userSessions' = [userSessions EXCEPT ![u] = @ \ {s.token}]
    /\ deviceSessions' = [deviceSessions EXCEPT ![u][d] = @ \ {s.token}]
    /\ UNCHANGED <<userDevices, userTTL, deviceTTL>>

\* The rotated token leaves the index; the error is dropped.
LoginRemoveOld(r, o) ==
    /\ Call(r, {"removeOld"}, o)
    /\ Answer(r, o, req[r], Idle, Idle)
    /\ IF Done(o) THEN RemoveFromIndex(req[r].old) ELSE UNCHANGED index
    /\ revoked' = IF o = "again" THEN revoked
                  ELSE revoked \cup {req[r].old.token}
    /\ UNCHANGED <<store, issued, owner, escape>>

-----------------------------------------------------------------------------
(* Authenticate and LogoutCurrent                                          *)

\* Load finds the session of the bearer token.  When it finds none, the
\* request is rejected and nothing has changed.
AuthenticateLoad(r, t) ==
    /\ req[r].stage = "idle"
    /\ t \in issued
    /\ store[t] # None
    /\ req' = [req EXCEPT ![r] =
                 [Idle EXCEPT !.stage = "touch",
                              !.session = [token |-> t,
                                           data |-> store[t].data]]]
    /\ UNCHANGED <<clock, store, index, faults, history>>

\* Faulty: every use renews the absolute deadline, too.
AuthenticateCommitSliding(r, o) ==
    LET t == req[r].session.token
        p == [req[r].session.data EXCEPT !.deadline = clock + Lifetime] IN
    /\ Call(r, {"touch"}, o)
    /\ Answer(r, o, req[r], [req[r] EXCEPT !.stage = "authed"], Idle)
    /\ store' = IF Done(o) THEN [store EXCEPT ![t] = StoredNow(p)] ELSE store
    /\ UNCHANGED <<index, history>>

\* With an idle timeout the loaded data always counts as modified, so it is
\* committed again: an unconditional SET of what Load had read.
AuthenticateCommit(r, o) ==
    LET t == req[r].session.token
        p == req[r].session.data IN
    /\ Call(r, {"touch"}, o)
    /\ Answer(r, o, req[r], [req[r] EXCEPT !.stage = "authed"], Idle)
    /\ store' = IF Done(o) THEN [store EXCEPT ![t] = StoredNow(p)] ELSE store
    /\ escape' = IF ~Done(o) THEN escape
                 ELSE IF Expiry(p) = 0 THEN Escaping({t}, "late")
                 ELSE IF store[t] = None THEN Escaping({t}, "revived")
                 ELSE escape
    /\ UNCHANGED <<index, issued, owner, revoked>>

\* The handler behind the middleware ends without touching the session.
EndRequest(r) ==
    /\ req[r].stage = "authed"
    /\ req' = [req EXCEPT ![r] = Idle]
    /\ UNCHANGED <<clock, store, index, faults, history>>

\* LogoutCurrent: Destroy first, ...
LogoutCurrentDestroy(r, o) ==
    /\ Call(r, {"authed", "destroy"}, o)
    /\ Answer(r, o, [req[r] EXCEPT !.stage = "destroy"],
              [req[r] EXCEPT !.stage = "unindex"], Idle)
    /\ store' = IF Done(o) THEN Without({req[r].session.token}) ELSE store
    /\ UNCHANGED <<index, history>>

\* ... then index.remove.
LogoutCurrentUnindex(r, o) ==
    /\ Call(r, {"unindex"}, o)
    /\ Answer(r, o, req[r], Idle, Idle)
    /\ IF Done(o) THEN RemoveFromIndex(req[r].session) ELSE UNCHANGED index
    /\ revoked' = IF o = "ok" THEN revoked \cup {req[r].session.token}
                  ELSE revoked
    /\ UNCHANGED <<store, issued, owner, escape>>

-----------------------------------------------------------------------------
(* LogoutDevice and LogoutUser                                             *)

\* The sessions that the caller wants dead: those a client holds and Redis
\* keeps when the call starts (device None: on all devices).
Covered(u, d) ==
    {t \in issued : /\ store[t] # None
                    /\ store[t].data.user = u
                    /\ d \in {None, store[t].data.device}}

\* Faulty: SMEMBERS of the wrong set.
LogoutDeviceWholeUser(r, u, d) ==
    /\ req[r].stage = "idle"
    /\ req' = [req EXCEPT ![r] =
                 [Idle EXCEPT !.stage = "deviceTx", !.user = u, !.device = d,
                              !.hashes = userSessions[u],
                              !.promised = Covered(u, d)]]
    /\ UNCHANGED <<clock, store, index, faults, history>>

\* LogoutDevice: SMEMBERS of the device set.
LogoutDevice(r, u, d) ==
    /\ req[r].stage = "idle"
    /\ req' = [req EXCEPT ![r] =
                 [Idle EXCEPT !.stage = "deviceTx", !.user = u, !.device = d,
                              !.hashes = deviceSessions[u][d],
                              !.promised = Covered(u, d)]]
    /\ UNCHANGED <<clock, store, index, faults, history>>

\* Faulty: the error of the transaction is dropped.
ReturnAlways(r, o) ==
    /\ Answer(r, o, req[r], Idle, Idle)
    /\ revoked' = IF o = "again" THEN revoked
                  ELSE revoked \cup req[r].promised

\* The revocation answers; "ok" promises that its sessions are gone.
Return(r, o) ==
    /\ Answer(r, o, req[r], Idle, Idle)
    /\ revoked' = IF o = "ok" THEN revoked \cup req[r].promised ELSE revoked

\* deleteDevice: one transaction over what SMEMBERS had returned.
DeleteDeviceTx(r, o) ==
    LET u == req[r].user  d == req[r].device  H == req[r].hashes IN
    /\ Call(r, {"deviceTx"}, o)
    /\ Return(r, o)
    /\ IF Done(o)
       THEN /\ store' = Without(H)
            /\ userSessions' = [userSessions EXCEPT ![u] = @ \ H]
            /\ deviceSessions' = [deviceSessions EXCEPT ![u][d] = {}]
            /\ userDevices' = [userDevices EXCEPT ![u] = @ \ {d}]
            /\ escape' = Escaping(deviceSessions[u][d] \ H, "deviceRace")
       ELSE UNCHANGED <<store, userSessions, deviceSessions, userDevices,
                        escape>>
    /\ UNCHANGED <<userTTL, deviceTTL, issued, owner>>

\* LogoutUser: SMEMBERS of the user's sessions, ...
LogoutUser(r, u) ==
    /\ req[r].stage = "idle"
    /\ req' = [req EXCEPT ![r] =
                 [Idle EXCEPT !.stage = "userDevices", !.user = u,
                              !.hashes = userSessions[u],
                              !.promised = Covered(u, None)]]
    /\ UNCHANGED <<clock, store, index, faults, history>>

\* ... SMEMBERS of the user's devices, ...
DeleteUserDevices(r, o) ==
    /\ Call(r, {"userDevices"}, o)
    /\ o \in {"ok", "fail"}
    /\ Answer(r, o, req[r],
              [req[r] EXCEPT !.stage = "userTx",
                             !.devices = userDevices[req[r].user]],
              Idle)
    /\ UNCHANGED <<store, index, history>>

\* ... and one transaction over what the two had returned.
DeleteUserTx(r, o) ==
    LET u == req[r].user  H == req[r].hashes  D == req[r].devices IN
    /\ Call(r, {"userTx"}, o)
    /\ Return(r, o)
    /\ IF Done(o)
       THEN /\ store' = Without(H)
            /\ userSessions' = [userSessions EXCEPT ![u] = {}]
            /\ userDevices' = [userDevices EXCEPT ![u] = {}]
            /\ deviceSessions' =
                 [deviceSessions EXCEPT
                    ![u] = [d \in Devices |-> IF d \in D THEN {} ELSE @[d]]]
            /\ escape' = Escaping(userSessions[u] \ H, "userRace")
       ELSE UNCHANGED <<store, userSessions, deviceSessions, userDevices,
                        escape>>
    /\ UNCHANGED <<userTTL, deviceTTL, issued, owner>>

-----------------------------------------------------------------------------
(* Time and crashes                                                        *)

\* Redis drops what has expired.
Tick ==
    /\ clock < MaxClock
    /\ clock' = clock + 1
    /\ store' = [t \in Tokens |->
                   IF store[t] # None /\ store[t].expiry \in 1..clock'
                   THEN None ELSE store[t]]
    /\ userSessions' = [u \in Users |->
                          IF userTTL[u] <= clock' THEN {} ELSE userSessions[u]]
    /\ userDevices' = [u \in Users |->
                         IF userTTL[u] <= clock' THEN {} ELSE userDevices[u]]
    /\ deviceSessions' =
         [u \in Users |-> [d \in Devices |->
            IF deviceTTL[u][d] <= clock' THEN {} ELSE deviceSessions[u][d]]]
    /\ UNCHANGED <<userTTL, deviceTTL, req, faults, history>>

\* The service dies with every request in it; Redis keeps its keys.
Crash ==
    /\ faults < MaxFaults
    /\ faults' = faults + 1
    /\ req' = [r \in Requests |-> Idle]
    /\ UNCHANGED <<clock, store, index, history>>

-----------------------------------------------------------------------------

Init ==
    /\ clock = 1
    /\ store = [t \in Tokens |-> None]
    /\ userSessions = [u \in Users |-> {}]
    /\ userDevices = [u \in Users |-> {}]
    /\ deviceSessions = [u \in Users |-> [d \in Devices |-> {}]]
    /\ userTTL = [u \in Users |-> 0]
    /\ deviceTTL = [u \in Users |-> [d \in Devices |-> 0]]
    /\ req = [r \in Requests |-> Idle]
    /\ faults = 0
    /\ issued = {}
    /\ owner = [t \in Tokens |-> None]
    /\ escape = [t \in Tokens |-> {}]
    /\ revoked = {}

Local(r) ==
    \/ EndRequest(r)
    \/ \E u \in Users, d \in Devices : LoginBegin(r, u, d)
    \/ \E u \in Users, d \in Devices : LogoutDevice(r, u, d)
    \/ \E u \in Users : LogoutUser(r, u)
    \/ \E t \in Tokens : AuthenticateLoad(r, t)

Write(r, o) ==
    \/ \E u \in Users, d \in Devices : LoginRotate(r, u, d, o)
    \/ LoginCommit(r, o)
    \/ LoginAdd(r, o)
    \/ LoginUndo(r, o)
    \/ LoginRemoveOld(r, o)
    \/ AuthenticateCommit(r, o)
    \/ LogoutCurrentDestroy(r, o)
    \/ LogoutCurrentUnindex(r, o)
    \/ DeleteDeviceTx(r, o)
    \/ DeleteUserDevices(r, o)
    \/ DeleteUserTx(r, o)

Next ==
    \/ \E r \in Requests : Local(r) \/ \E o \in Outcomes : Write(r, o)
    \/ Tick
    \/ Crash

Spec == Init /\ [][Next]_vars

-----------------------------------------------------------------------------
(* Properties                                                              *)

\* Every variable stays within the values the code can give it.
TypeOK ==
    /\ clock \in 1..MaxClock
    /\ faults \in 0..MaxFaults
    /\ store \in [Tokens -> Stored \cup {None}]
    /\ userSessions \in [Users -> SUBSET Tokens]
    /\ userDevices \in [Users -> SUBSET Devices]
    /\ deviceSessions \in [Users -> [Devices -> SUBSET Tokens]]
    /\ userTTL \in [Users -> Nat]
    /\ deviceTTL \in [Users -> [Devices -> Nat]]
    /\ req \in [Requests -> Request]
    /\ issued \subseteq Tokens
    /\ owner \in [Tokens -> Payload \cup {None}]
    /\ escape \in [Tokens -> SUBSET Causes]
    /\ revoked \subseteq Tokens

Live(t) == t \in issued /\ store[t] # None

\* A session that a client holds can be found by LogoutUser (index.go:94) as
\* long as it lives, except for three races: Authenticate wrote it back after
\* it was deleted or after its deadline, or LogoutUser read the index just
\* before the login was added to it.
ReachableByUser ==
    \A t \in Tokens :
        Live(t) /\ escape[t] \subseteq {"deviceRace"}
            => t \in userSessions[store[t].data.user]

\* It can be found by LogoutDevice (index.go:75), and LogoutUser knows of its
\* device (index.go:98), unless one of those or the like race of LogoutDevice
\* befell it.
ReachableByDevice ==
    \A t \in Tokens :
        Live(t) /\ escape[t] = {}
            => LET p == store[t].data IN
               /\ t \in deviceSessions[p.user][p.device]
               /\ p.device \in userDevices[p.user]

\* A session that a successful LogoutUser, LogoutDevice, LogoutCurrent or
\* rotation covered stays dead whatever the other requests do, unless one of
\* the races of escape befell it (realm.go:107, 184, 206, 219).
RevocationHolds ==
    \A t \in revoked : store[t] = None \/ escape[t] # {}

\* No session outlives the lifetime counted from its login, however often it
\* is used and whoever writes it last, unless an Authenticate or Login was
\* still to write it when the deadline passed (realm.go:118, 165).
DeadlineKept ==
    \A t \in Tokens :
        store[t] # None /\ "late" \notin escape[t]
            => /\ clock < store[t].expiry
               /\ store[t].expiry <= store[t].data.at + Lifetime

\* A token names one login for good: what is stored under it, also when it is
\* written back after a deletion, is the user, device and times of that login,
\* so a rotation never re-labels a token (realm.go:105-118).
TokenNamesOneLogin ==
    [][\A t \in Tokens : owner[t] # None =>
            /\ owner'[t] = owner[t]
            /\ store'[t] # None => store'[t].data = owner[t]]_vars

\* A session dies only by expiry, by the request that carries it, or by a
\* revocation of its own user and device; never by a revocation aimed at
\* someone else whose snapshot is stale (index.go:81, 109).
OnlyTargetsDie ==
    [][\A t \in Tokens : store[t] # None /\ store'[t] = None =>
            \/ store[t].expiry \in 1..clock'
            \/ \E r \in Requests :
                 /\ req[r].stage \in {"authed", "renew", "destroy", "undo"}
                 /\ req[r].session.token = t
            \/ \E r \in Requests :
                 /\ req[r].stage \in RevokeStages
                 /\ req[r].user = store[t].data.user
                 /\ req[r].device \in {None, store[t].data.device}]_vars

-----------------------------------------------------------------------------
(* What the comments and the README claim without the exceptions above     *)

\* "LogoutUser 使指定用户在当前登录域中的全部会话失效" (realm.go:219): what it
\* has ended stays ended.
RevokedStaysDead ==
    \A t \in revoked : store[t] = None

\* "原子删除当前登录域内指定用户的全部会话" (index.go:108): no session outlives
\* a revocation that starts after its login, other than by being written back.
RevocationFindsAll ==
    \A t \in revoked :
        store[t] = None \/ "revived" \in escape[t] \/ "late" \in escape[t]
=============================================================================
