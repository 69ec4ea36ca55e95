---------------------------- MODULE ConfigRules ----------------------------
(***************************************************************************)
(* The settings of the application (internal/config) and what the          *)
(* authentication realms make of them (NewRealms in internal/auth).        *)
(*                                                                         *)
(* A file is a function from the settings it names to their values; Blank  *)
(* is a file without a document.  A key of Redis is a sequence of tokens.  *)
(* Durations are the integers from -Limit to Limit - 1.                    *)
(***************************************************************************)
EXTENDS Integers, Sequences, FiniteSetsExt

CONSTANTS
    Defaults,   \* every setting and its default value
    Timeouts,   \* the settings that are durations
    Files,      \* the files that are tried
    Ids,        \* the encoded identifiers of users and devices
    Digest,     \* the digest of a token, which no word of a key equals
    Limit,      \* the first positive integer that is no duration
    Blank,
    None

VARIABLES
    file,       \* the file that was read
    loaded,     \* what Load makes of it: settings, or None if it is refused
    realms      \* what NewRealms makes of those: a record, or None

vars == <<file, loaded, realms>>

\* A text is [word, style]; only blanks and the case of letters can be changed.
Trimmed(text) == IF text.style = "padded" THEN [text EXCEPT !.style = "plain"] ELSE text

Lowered(text) == [text EXCEPT !.style = "plain"]

TrimSpace(text) ==
    LET kept == {i \in DOMAIN text : text[i] # " "}
    IN  IF kept = {} THEN <<>> ELSE SubSeq(text, Min(kept), Max(kept))

\* A prefix ends in a colon, unless it is empty.
NormalizeKeyPrefix(prefix) ==
    LET text == TrimSpace(prefix)
    IN  IF text # <<>> /\ text[Len(text)] # ":" THEN Append(text, ":") ELSE text

IsKeyPrefix(prefix) == prefix # <<>> /\ \A i \in DOMAIN prefix : prefix[i] # " "

IsPort(port) == port \in 1 .. 65535

Validate(c) ==
    /\ c.name.word # ""
    /\ c.env.word \in {"local", "stg", "production"}
    /\ c.host.word # ""
    /\ IsPort(c.port)
    /\ \A timeout \in Timeouts : c[timeout] > 0
    /\ c.url = "postgres"
    /\ c.maxOpen >= 1 /\ c.maxIdle \in 0 .. c.maxOpen
    /\ c.logLevel.word \in {"silent", "error", "warn", "info"}
    /\ c.redisHost # "" /\ IsPort(c.redisPort)
    /\ c.database >= 0
    /\ c.poolSize >= 1 /\ c.minIdle \in 0 .. c.poolSize
    /\ c.idleTimeout <= c.lifetime
    /\ IsKeyPrefix(c.app) /\ IsKeyPrefix(c.admin)
    /\ c.app # c.admin

\* What the file leaves out has its default value.
Filled(f) == [s \in DOMAIN Defaults |-> IF s \in DOMAIN f THEN f[s] ELSE Defaults[s]]

\* Then the texts are cleaned.
Normalize(f) ==
    [Filled(f) EXCEPT !.name = Trimmed(@), !.env = Lowered(@), !.host = Trimmed(@),
                      !.logLevel = Lowered(@),
                      !.app = NormalizeKeyPrefix(@), !.admin = NormalizeKeyPrefix(@)]

Load(f) ==
    IF f = Blank \/ ~ (DOMAIN f \subseteq DOMAIN Defaults) THEN None
    ELSE IF Validate(Normalize(f)) THEN Normalize(f) ELSE None

-----------------------------------------------------------------------------
(* The realms                                                              *)

\* A duration that is too large wraps.
Wrap(d) == ((d + Limit) % (2 * Limit)) - Limit

NormalizeRealmPrefix(prefix) ==
    IF IsKeyPrefix(TrimSpace(prefix)) THEN NormalizeKeyPrefix(prefix) ELSE None

NewRealms(c) ==
    LET app == NormalizeRealmPrefix(c.app)
        admin == NormalizeRealmPrefix(c.admin)
    IN  IF /\ c.lifetime > 0 /\ c.idleTimeout > 0 /\ c.idleTimeout <= c.lifetime
           /\ app # None /\ admin # None /\ app # admin
        THEN [app |-> app, admin |-> admin, retention |-> Wrap(2 * c.lifetime)]
        ELSE None

SessionKey(prefix, digest) == prefix \o <<"session", ":", digest>>

UserSessionsKey(prefix, user) == prefix \o <<"user", ":", user, ":", "sessions">>

UserDevicesKey(prefix, user) == prefix \o <<"user", ":", user, ":", "devices">>

\* Faulty: the key of a device does not say that it is one.
DeviceSessionsKeyBare(prefix, user, device) ==
    prefix \o <<"user", ":", user, ":", device, ":", "sessions">>

DeviceSessionsKey(prefix, user, device) ==
    prefix \o <<"user", ":", user, ":", "device", ":", device, ":", "sessions">>

\* The keys of a realm, each with what it is the key of.
Keys(prefix) ==
    {<<SessionKey(prefix, Digest), prefix, "session">>}
        \cup {<<UserSessionsKey(prefix, u), prefix, u, "sessions">> : u \in Ids}
        \cup {<<UserDevicesKey(prefix, u), prefix, u, "devices">> : u \in Ids}
        \cup {<<DeviceSessionsKey(prefix, u, d), prefix, u, d, "device">> : u \in Ids, d \in Ids}

Configure ==
    /\ file = None
    /\ \E f \in Files :
          /\ file' = f
          /\ loaded' = Load(f)
          /\ realms' = IF Load(f) = None THEN None ELSE NewRealms(Load(f))

Init == file = None /\ loaded = None /\ realms = None

-----------------------------------------------------------------------------
\* What Load accepts, NewRealms accepts as well, with the same prefixes: a
\* process that has opened its stores does not fail on its settings
\* (config.go:207-316, realm.go:52-79).  No key of a realm is the key of
\* anything else in it or in the other realm, even if the prefix of one realm
\* continues that of the other (index.go:117-131), and the index of a user
\* outlives the sessions it lists, unless twice their lifetime is no duration
\* (realm.go:278).
LoadSuffices ==
    loaded # None =>
        /\ realms # None
        /\ realms.app = loaded.app /\ realms.admin = loaded.admin
        /\ LET keys == Keys(realms.app) \cup Keys(realms.admin) IN
           \A k, l \in keys : k[1] = l[1] => k = l
        /\ realms.retention > loaded.lifetime \/ 2 * loaded.lifetime >= Limit
=============================================================================
