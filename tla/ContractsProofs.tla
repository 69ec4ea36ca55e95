--------------------------- MODULE ContractsProofs ---------------------------
(***************************************************************************)
(* Proofs about the rules of Contracts: for all codes, statuses and paths  *)
(* and for chains of any length a failure is answered by the convention;   *)
(* whatever a file says, settings that are accepted serve both realms,     *)
(* whose keys never meet; and for all module paths and names a renamed     *)
(* project reads as one of its new name.                                   *)
(***************************************************************************)
EXTENDS Contracts, TLAPS, NaturalsInduction, WellFoundedInduction,
        SequenceTheorems

\* Numbers have a least one in every set of them.
LEMMA LeastExists ==
  ASSUME NEW S, S \subseteq Nat, S # {}
  PROVE  \E x \in S : \A y \in S : x <= y
<1> DEFINE R == OpToRel(<, Nat)
<1>1. IsWellFoundedOn(R, Nat)
  BY NatLessThanWellFounded
<1>2. \E x \in S : \A y \in S : ~ (<<y, x>> \in R)
  <2> HIDE DEF R
  <2> QED BY <1>1, WFMin
<1>3. \A x, y \in Nat : <<y, x>> \notin R => x <= y
  BY DEF OpToRel
<1> HIDE DEF R
<1> QED BY <1>2, <1>3

-----------------------------------------------------------------------------
(* How errors are answered                                                 *)

FirstOfKind(errors, kind) == Error!SelectInSeq(errors, LAMBDA e : e.kind = kind)

FirstKind(errors) ==
  Error!SelectInSeq(Error!Kinds, LAMBDA kind : \E i \in DOMAIN errors : errors[i].kind = kind)

LEMMA LeastOf ==
  ASSUME NEW S, S \subseteq Nat, S # {}
  PROVE  Error!Min(S) \in S /\ \A y \in S : Error!Min(S) <= y
<1>1. \E x \in S : \A y \in S : x <= y
  BY LeastExists
<1> QED BY <1>1, Zenon DEF Error!Min

\* Of the errors of a kind, the outermost in the chain is taken.
LEMMA FirstOfKindIsIn ==
  ASSUME NEW errors \in Seq(Error!Errors), NEW kind, Error!Holds(errors, kind)
  PROVE  /\ FirstOfKind(errors, kind) \in DOMAIN errors
         /\ errors[FirstOfKind(errors, kind)].kind = kind
         /\ Error!Outermost(errors, FirstOfKind(errors, kind))
<1> DEFINE I == {i \in 1 .. Len(errors) : errors[i].kind = kind}
<1>1. I # {} /\ I \subseteq Nat
  BY DEF Error!Holds
<1>2. Error!Min(I) \in I /\ \A y \in I : Error!Min(I) <= y
  <2> HIDE DEF I
  <2> QED BY <1>1, LeastOf
<1>3. FirstOfKind(errors, kind) = Error!Min(I)
  BY <1>1 DEF FirstOfKind, Error!SelectInSeq
<1>4. PICK m \in 1 .. Len(errors) :
        m = Error!Min(I) /\ errors[m].kind = kind /\ \A y \in I : m <= y
  BY <1>2
<1>5. ASSUME NEW j \in 1 .. m - 1 PROVE errors[j].kind # kind
  <2>1. j \in 1 .. Len(errors) /\ ~ (m <= j)
    OBVIOUS
  <2> QED BY <1>4, <2>1
<1> QED BY <1>3, <1>4, <1>5 DEF Error!Outermost

\* The kind that is answered is the first that the chain holds.
LEMMA FirstKindIsHeld ==
  ASSUME NEW errors \in Seq(Error!Errors)
  PROVE  \/ FirstKind(errors) = 0 /\ \A l \in 1 .. 4 : ~ Error!Holds(errors, Error!Kinds[l])
         \/ /\ FirstKind(errors) \in 1 .. 4
            /\ Error!Holds(errors, Error!Kinds[FirstKind(errors)])
            /\ \A l \in 1 .. FirstKind(errors) - 1 : ~ Error!Holds(errors, Error!Kinds[l])
<1> DEFINE K == {k \in 1 .. Len(Error!Kinds) :
                    \E i \in DOMAIN errors : errors[i].kind = Error!Kinds[k]}
<1>1. FirstKind(errors) = IF K # {} THEN Error!Min(K) ELSE 0
  BY DEF FirstKind, Error!SelectInSeq
<1>2. K \subseteq 1 .. 4 /\ \A k \in 1 .. 4 : k \in K <=> Error!Holds(errors, Error!Kinds[k])
  BY DEF Error!Kinds, Error!Holds
<1>3. K \subseteq Nat
  BY DEF Error!Kinds
<1> HIDE DEF K
<1>4. CASE K # {}
  <2>1. PICK m \in 1 .. 4 : m = Error!Min(K) /\ m \in K /\ \A y \in K : m <= y
    BY <1>2, <1>3, <1>4, LeastOf
  <2>2. ASSUME NEW l \in 1 .. m - 1 PROVE l \in 1 .. 4 /\ l \notin K
    BY <2>1
  <2> QED BY <1>1, <1>2, <1>4, <2>1, <2>2
<1>5. CASE K = {}
  BY <1>1, <1>2, <1>5
<1> QED BY <1>4, <1>5

\* What is answered is the outermost error of its kind, unless none is of a known
\* kind; an application error goes before the others and one of the framework after.
LEMMA AnsweredIsIn ==
  ASSUME NEW errors \in Seq(Error!Errors)
  PROVE  LET e == Error!Answered(errors) IN
         /\ \/ e = [kind |-> "other"]
            \/ /\ e.kind \in {"app", "validation", "bind", "fiber"}
               /\ \E i \in DOMAIN errors : errors[i] = e /\ Error!Outermost(errors, i)
         /\ Error!Holds(errors, "app") => e.kind = "app"
         /\ e.kind = "fiber" =>
              \A kind \in {"app", "validation", "bind"} : ~ Error!Holds(errors, kind)
<1>1. PICK k : k = FirstKind(errors)
  OBVIOUS
<1>2. Error!Answered(errors)
        = IF k = 0 THEN [kind |-> "other"] ELSE errors[FirstOfKind(errors, Error!Kinds[k])]
  BY <1>1 DEF Error!Answered, FirstKind, FirstOfKind
<1>3. CASE k # 0
  <2>1. /\ k \in 1 .. 4 /\ Error!Holds(errors, Error!Kinds[k])
        /\ \A l \in 1 .. k - 1 : ~ Error!Holds(errors, Error!Kinds[l])
    BY <1>1, <1>3, FirstKindIsHeld
  <2>2. PICK i : i = FirstOfKind(errors, Error!Kinds[k])
    OBVIOUS
  <2>3. i \in DOMAIN errors /\ errors[i].kind = Error!Kinds[k] /\ Error!Outermost(errors, i)
    BY <2>1, <2>2, FirstOfKindIsIn
  <2>4. Error!Kinds[k] \in {"app", "validation", "bind", "fiber"}
    BY <2>1 DEF Error!Kinds
  <2>5. Error!Holds(errors, "app") => Error!Kinds[k] = "app"
    <3>1. k # 1 => ~ Error!Holds(errors, Error!Kinds[1])
      BY <2>1
    <3> QED BY <3>1, <2>1 DEF Error!Kinds
  <2>6. Error!Kinds[k] = "fiber" =>
          \A kind \in {"app", "validation", "bind"} : ~ Error!Holds(errors, kind)
    <3>1. k = 4 => /\ ~ Error!Holds(errors, Error!Kinds[1])
                   /\ ~ Error!Holds(errors, Error!Kinds[2])
                   /\ ~ Error!Holds(errors, Error!Kinds[3])
      BY <2>1
    <3> QED BY <3>1, <2>1 DEF Error!Kinds
  <2>7. Error!Answered(errors) = errors[i]
    BY <1>2, <1>3, <2>2
  <2> QED BY <2>3, <2>4, <2>5, <2>6, <2>7
<1>4. CASE k = 0
  <2>1. ~ Error!Holds(errors, "app")
    <3>1. \A l \in 1 .. 4 : ~ Error!Holds(errors, Error!Kinds[l])
      <4>1. k \notin 1 .. 4
        BY <1>4
      <4> QED BY <4>1, <1>1, FirstKindIsHeld, Zenon
    <3> QED BY <3>1 DEF Error!Kinds
  <2> QED BY <1>2, <1>4, <2>1
<1> QED BY <1>3, <1>4

\* The status is that of the code, or the code has none.
LEMMA StatusOfCode ==
  ASSUME NEW code \in Int
  PROVE  /\ Error!HTTPStatus(code) \in Int
         /\ Error!IsFailure(code \div 100) => Error!HTTPStatus(code) = code \div 100
  BY DEF Error!HTTPStatus, Error!IsFailure

LEMMA CodeOfStatus ==
  ASSUME NEW status \in Int, Error!IsFailure(status)
  PROVE  /\ Error!CodeFromHTTPStatus(status) \div 100 = status
         /\ Error!CodeFromHTTPStatus(status) >= 50000 => status >= 500
  BY DEF Error!CodeFromHTTPStatus, Error!IsFailure

\* A field is shown without the name of its type.
LEMMA FieldShown ==
  ASSUME NEW path \in Error!Paths
  PROVE  \/ Error!ValidationField(path) = Tail(path)
         \/ Head(path) = None /\ Len(path) > 2
<1>1. path \in Seq(Fields \cup {None}) /\ Len(path) > 1
  BY ErrorAssumption DEF Error!Paths, Error!SeqOf
<1>2. CASE Head(path) = None
  BY <1>1, <1>2 DEF Error!ValidationField, Error!Named
<1>3. CASE Head(path) # None
  BY <1>1, <1>3 DEF Error!ValidationField, Error!Named
<1> QED BY <1>2, <1>3

\* What is sent and logged of the errors of one chain.
Answer(errors) == [failure |-> Error!ResolveError(errors),
                   logged  |-> Error!ResolveError(errors).status >= 500]

\* A chain has been answered as a whole.
ErrorInv == chain # None => chain \in Seq(Error!Errors) /\ answer = Answer(chain)

LEMMA ResolveRight ==
  ASSUME NEW errors \in Seq(Error!Errors), chain = errors, answer = Answer(errors)
  PROVE  Error!StatusIsInCode
<1>1. PICK e : e = Error!Answered(errors)
  OBVIOUS
<1>2. PICK failure : failure = Error!ResolveError(errors)
  OBVIOUS
<1>3. /\ answer.failure = failure
      /\ answer.logged <=> failure.status >= 500
  BY ZenonT(40), <1>2 DEF Answer
<1>4. /\ \/ e = [kind |-> "other"]
         \/ \E i \in DOMAIN errors : errors[i] = e /\ Error!Outermost(errors, i)
      /\ Error!Holds(errors, "app") => e.kind = "app"
      /\ e.kind = "fiber" =>
           \A kind \in {"app", "validation", "bind"} : ~ Error!Holds(errors, kind)
  BY <1>1, AnsweredIsIn
<1>5. SUFFICES
        /\ failure.code \div 100 = failure.status \/ Error!Unconventional(errors)
        /\ failure.code >= 50000 /\ ~ Error!Unconventional(errors) => failure.status >= 500
        /\ e.kind = "app" =>
              \E i \in DOMAIN errors :
                  /\ errors[i].kind = "app" /\ Error!Outermost(errors, i)
                  /\ failure.code = errors[i].code
        /\ failure.message = <<"validation">> =>
              \E i \in DOMAIN errors :
                  /\ errors[i].kind = "validation"
                  /\ \/ failure.field = Tail(errors[i].path)
                     \/ Head(errors[i].path) = None /\ Len(errors[i].path) > 2
  BY <1>3, <1>4 DEF Error!StatusIsInCode
<1>6. e.kind \in {"other", "bind"} \/ e \in Error!Errors
  BY <1>4
<1>7. CASE e.kind = "app"
  <2>1. PICK i \in DOMAIN errors : errors[i] = e /\ Error!Outermost(errors, i)
    BY <1>4, <1>7
  <2>2. e.code \in Int
    BY <1>6, <1>7, ErrorAssumption DEF Error!Errors
  <2>3. /\ failure.status = Error!HTTPStatus(e.code) /\ failure.code = e.code
        /\ failure.message = <<"own">>
    BY <1>1, <1>2, <1>7 DEF Error!ResolveError, Error!Failure
  <2>4. Error!IsFailure(e.code \div 100) \/ Error!Unconventional(errors)
    BY <2>1, <1>7 DEF Error!Unconventional
  <2>5. failure.message # <<"validation">>
    BY <2>3
  <2>6. Error!IsFailure(failure.code \div 100) => failure.status = failure.code \div 100
    BY <2>2, <2>3, StatusOfCode
  <2>7. failure.code >= 50000 => failure.code \div 100 >= 500
    BY <2>2, <2>3
  <2>8. errors[i].kind = "app" /\ Error!Outermost(errors, i) /\ failure.code = errors[i].code
    BY <1>7, <2>1, <2>3
  <2>9. \/ Error!Unconventional(errors)
        \/ /\ failure.code \div 100 = failure.status
           /\ failure.code >= 50000 => failure.status >= 500
    BY <2>3, <2>4, <2>6, <2>7
  <2>10. \E j \in DOMAIN errors :
            /\ errors[j].kind = "app" /\ Error!Outermost(errors, j)
            /\ failure.code = errors[j].code
    BY <2>8, Zenon
  <2> QED BY <2>5, <2>9, <2>10
<1>8. CASE e.kind = "validation"
  <2>1. PICK i \in DOMAIN errors : errors[i] = e
    BY <1>4, <1>8
  <2>2. e.path \in Error!Paths
    BY <1>6, <1>8 DEF Error!Errors
  <2>3. /\ failure.status = 400 /\ failure.code = 40001
        /\ failure.field = Error!ValidationField(e.path)
    BY <1>1, <1>2, <1>8 DEF Error!ResolveError, Error!Failure
  <2>4. PICK path \in Error!Paths : path = e.path
    BY <2>2
  <2>5. \/ failure.field = Tail(path)
        \/ Head(path) = None /\ Len(path) > 2
    <3>1. \/ Error!ValidationField(path) = Tail(path)
          \/ Head(path) = None /\ Len(path) > 2
      BY FieldShown, Zenon
    <3>2. failure.field = Error!ValidationField(path)
      BY <2>3, <2>4
    <3> QED BY <3>1, <3>2, Zenon
  <2> QED BY <1>8, <2>1, <2>3, <2>4, <2>5
<1>9. CASE e.kind = "bind"
  <2>1. failure.status = 400 /\ failure.code = 40000 /\ failure.message = <<"binding">>
    BY <1>1, <1>2, <1>9 DEF Error!ResolveError, Error!Failure
  <2> QED BY <1>9, <2>1
<1>10. CASE e.kind = "fiber"
  <2>1. PICK i \in DOMAIN errors : errors[i] = e /\ Error!Outermost(errors, i)
    BY <1>4, <1>10
  <2>2. e.status \in Int
    BY <1>6, <1>10, ErrorAssumption DEF Error!Errors
  <2>3. /\ failure.status = e.status /\ failure.code = Error!CodeFromHTTPStatus(e.status)
        /\ failure.message = Error!MessageFromHTTPStatus(e.status)
    BY <1>1, <1>2, <1>10 DEF Error!ResolveError, Error!Failure
  <2>4. failure.message # <<"validation">>
    BY <2>3 DEF Error!MessageFromHTTPStatus
  <2>5. Error!IsFailure(e.status) \/ Error!Unconventional(errors)
    BY <2>1, <1>4, <1>10 DEF Error!Unconventional
  <2> QED BY <1>10, <2>2, <2>3, <2>4, <2>5, CodeOfStatus
<1>11. CASE e.kind = "other"
  <2>1. failure.status = 500 /\ failure.code = 50000 /\ failure.message = <<"internal">>
    BY <1>1, <1>2, <1>11 DEF Error!ResolveError, Error!Failure
  <2> QED BY <1>11, <2>1
<1>12. e.kind \in {"app", "validation", "bind", "fiber", "other"}
  BY <1>1, AnsweredIsIn
<1> QED BY <1>7, <1>8, <1>9, <1>10, <1>11, <1>12

-----------------------------------------------------------------------------
(* Which settings are accepted                                             *)

\* A file has the types that the decoder makes sure of, and so have the settings
\* that it leaves to their defaults.
LEMMA SettingsHaveTypes ==
  ASSUME NEW f, HasTypes(f), DOMAIN f \subseteq DOMAIN Defaults,
         NEW c, c = Config!Normalize(f)
  PROVE  /\ c.lifetime \in -Limit .. Limit - 1 /\ c.idleTimeout \in -Limit .. Limit - 1
         /\ \E app, admin \in Seq(Tokens) :
               /\ c.app = Config!NormalizeKeyPrefix(app)
               /\ c.admin = Config!NormalizeKeyPrefix(admin)
<1>1. PICK g : g = Config!Filled(f)
  OBVIOUS
<1>2. /\ {"lifetime", "idleTimeout", "app", "admin"} \subseteq DOMAIN g
      /\ g.lifetime \in -Limit .. Limit - 1 /\ g.idleTimeout \in -Limit .. Limit - 1
      /\ g.app \in Seq(Tokens) /\ g.admin \in Seq(Tokens)
  BY <1>1, ConfigAssumption DEF HasTypes, Config!Filled
<1>3. c = [g EXCEPT !.name = Config!Trimmed(@), !.env = Config!Lowered(@),
                    !.host = Config!Trimmed(@), !.logLevel = Config!Lowered(@),
                    !.app = Config!NormalizeKeyPrefix(@), !.admin = Config!NormalizeKeyPrefix(@)]
  BY <1>1 DEF Config!Normalize
<1>4. /\ c.lifetime = g.lifetime /\ c.idleTimeout = g.idleTimeout
      /\ c.app = Config!NormalizeKeyPrefix(g.app) /\ c.admin = Config!NormalizeKeyPrefix(g.admin)
  BY <1>2, <1>3
<1> QED BY <1>2, <1>4

\* A set of positions has a least and a greatest one.
LEMMA BoundsOf ==
  ASSUME NEW n \in Nat, NEW S, S \subseteq 1 .. n, S # {}
  PROVE  /\ Config!Min(S) \in S /\ \A x \in S : Config!Min(S) <= x
         /\ Config!Max(S) \in S /\ \A x \in S : Config!Max(S) >= x
<1>1. S \subseteq Nat
  OBVIOUS
<1>2. \E x \in S : \A y \in S : x <= y
  BY <1>1, LeastExists
<1>3. \E x \in S : \A y \in S : x >= y
  <2> DEFINE T == {n - x : x \in S}
  <2>1. T \subseteq Nat /\ T # {}
    <3>1. \A x \in S : x \in Int /\ x <= n /\ n - x \in Nat
      OBVIOUS
    <3>2. PICK x \in S : TRUE
      OBVIOUS
    <3> QED BY <3>1, <3>2
  <2>2. PICK z \in T : \A y \in T : z <= y
    <3> HIDE DEF T
    <3> QED BY <2>1, LeastExists
  <2>3. PICK x \in S : z = n - x
    BY <2>2
  <2>4. ASSUME NEW y \in S PROVE x >= y
    <3>1. n - y \in T /\ x \in Int /\ y \in Int
      OBVIOUS
    <3>2. n - x <= n - y
      BY <2>2, <2>3, <3>1
    <3> HIDE DEF T
    <3> QED BY <3>1, <3>2
  <2> QED BY <2>3, <2>4
<1>4. Config!Min(S) \in S /\ \A x \in S : Config!Min(S) <= x
  BY <1>2, Zenon DEF Config!Min
<1>5. Config!Max(S) \in S /\ \A x \in S : Config!Max(S) >= x
  BY <1>3, Zenon DEF Config!Max
<1> QED BY <1>4, <1>5

\* Trimming leaves a part of a text, and a text without blanks as it is.
LEMMA TrimSpaceKeeps ==
  ASSUME NEW text \in Seq(Tokens)
  PROVE  /\ Config!TrimSpace(text) \in Seq(Tokens)
         /\ (\A i \in DOMAIN text : text[i] # " ") => Config!TrimSpace(text) = text
<1> DEFINE kept == {i \in DOMAIN text : text[i] # " "}
<1>1. Config!TrimSpace(text)
        = IF kept = {} THEN <<>> ELSE SubSeq(text, Config!Min(kept), Config!Max(kept))
  BY DEF Config!TrimSpace
<1>0. DOMAIN text = 1 .. Len(text) /\ Len(text) \in Nat
  OBVIOUS
<1>2. kept \subseteq 1 .. Len(text) /\ Len(text) \in Nat
  BY <1>0
<1>3. (\A i \in DOMAIN text : text[i] # " ") => kept = 1 .. Len(text)
  BY <1>0
<1> HIDE DEF kept
<1>4. CASE kept = {}
  <2>1. <<>> \in Seq(Tokens)
    OBVIOUS
  <2>2. 1 .. Len(text) = {} => text = <<>>
    <3>1. text # <<>> => 1 \in 1 .. Len(text)
      OBVIOUS
    <3> QED BY <3>1
  <2> QED BY <1>1, <1>3, <1>4, <2>1, <2>2
<1>5. CASE kept # {}
  <2>1. PICK low, high : low = Config!Min(kept) /\ high = Config!Max(kept)
    OBVIOUS
  <2>2. low \in kept /\ high \in kept /\ \A x \in kept : low <= x /\ x <= high
    BY <1>2, <1>5, <2>1, BoundsOf
  <2>3. low \in 1 .. Len(text) /\ high \in 1 .. Len(text)
    BY <1>2, <2>2
  <2>4. Config!TrimSpace(text) = SubSeq(text, low, high)
    BY <1>1, <1>5, <2>1
  <2>5. SubSeq(text, low, high) \in Seq(Tokens)
    BY <2>3
  <2>6. kept = 1 .. Len(text) => low = 1 /\ high = Len(text)
    BY <1>2, <2>2, <2>3
  <2>7. SubSeq(text, 1, Len(text)) = text
    OBVIOUS
  <2> QED BY <1>3, <2>4, <2>5, <2>6, <2>7
<1> QED BY <1>4, <1>5

\* A normalised prefix ends in a colon, unless it is empty.
LEMMA NormalizedEnds ==
  ASSUME NEW prefix \in Seq(Tokens)
  PROVE  LET p == Config!NormalizeKeyPrefix(prefix) IN
         p \in Seq(Tokens) /\ (p # <<>> => p[Len(p)] = ":")
<1>1. PICK text \in Seq(Tokens) : text = Config!TrimSpace(prefix)
  BY TrimSpaceKeeps
<1>2. Config!NormalizeKeyPrefix(prefix)
        = IF text # <<>> /\ text[Len(text)] # ":" THEN Append(text, ":") ELSE text
  BY <1>1 DEF Config!NormalizeKeyPrefix
<1>3. ":" \in Tokens
  BY KeyAssumption
<1>4. /\ Append(text, ":") \in Seq(Tokens) /\ Len(Append(text, ":")) = Len(text) + 1
      /\ Append(text, ":")[Len(text) + 1] = ":"
  BY <1>3
<1> QED BY <1>2, <1>4

\* A realm takes a prefix that has been normalised and accepted as it is.
LEMMA RealmKeepsPrefix ==
  ASSUME NEW prefix \in Seq(Tokens), Config!IsKeyPrefix(prefix), prefix[Len(prefix)] = ":"
  PROVE  Config!NormalizeRealmPrefix(prefix) = prefix
<1>1. Config!TrimSpace(prefix) = prefix
  BY TrimSpaceKeeps DEF Config!IsKeyPrefix
<1> QED BY <1>1 DEF Config!NormalizeRealmPrefix, Config!NormalizeKeyPrefix

\* A duration with room for it is not wrapped.
LEMMA WrapKeeps ==
  ASSUME NEW d \in 0 .. Limit - 1
  PROVE  Config!Wrap(d) = d
<1>1. Limit \in Nat \ {0}
  BY ConfigAssumption
<1>2. PICK x \in Nat : x = d + Limit
  BY <1>1
<1>3. PICK m \in Nat \ {0} : m = 2 * Limit
  BY <1>1
<1>4. x < m
  BY <1>1, <1>2, <1>3
<1>5. x % m = x
  BY <1>4
<1> QED BY <1>1, <1>2, <1>3, <1>5 DEF Config!Wrap

-----------------------------------------------------------------------------
(* The keys of the realms                                                  *)

KeyWords == Tokens \cup Ids \cup {Digest, ":", "session", "user", "device", "devices", "sessions"}

\* What follows the prefix in a key.
SessionTail == <<"session", ":", Digest>>
SessionsTail(u) == <<"user", ":", u, ":", "sessions">>
DevicesTail(u) == <<"user", ":", u, ":", "devices">>
DeviceTail(u, d) == <<"user", ":", u, ":", "device", ":", d, ":", "sessions">>

\* The key of something in a realm with the prefix r, with the tail x.
KeyWithTail(key, r, x) ==
  \/ x = SessionTail /\ key = <<r \o x, r, "session">>
  \/ \E u \in Ids : x = SessionsTail(u) /\ key = <<r \o x, r, u, "sessions">>
  \/ \E u \in Ids : x = DevicesTail(u) /\ key = <<r \o x, r, u, "devices">>
  \/ \E u \in Ids, d \in Ids : x = DeviceTail(u, d) /\ key = <<r \o x, r, u, d, "device">>

\* Every key is one of these.
LEMMA TailOfKey ==
  ASSUME NEW r, NEW key \in Config!Keys(r)
  PROVE  \E x : KeyWithTail(key, r, x)
<1>1. CASE key = <<Config!SessionKey(r, Digest), r, "session">>
  BY <1>1 DEF Config!SessionKey, KeyWithTail, SessionTail
<1>2. ASSUME NEW u \in Ids, key = <<Config!UserSessionsKey(r, u), r, u, "sessions">>
      PROVE  \E x : KeyWithTail(key, r, x)
  BY <1>2 DEF Config!UserSessionsKey, KeyWithTail, SessionsTail
<1>3. ASSUME NEW u \in Ids, key = <<Config!UserDevicesKey(r, u), r, u, "devices">>
      PROVE  \E x : KeyWithTail(key, r, x)
  BY <1>3 DEF Config!UserDevicesKey, KeyWithTail, DevicesTail
<1>4. ASSUME NEW u \in Ids, NEW d \in Ids,
             key = <<Config!DeviceSessionsKey(r, u, d), r, u, d, "device">>
      PROVE  \E x : KeyWithTail(key, r, x)
  BY <1>4 DEF Config!DeviceSessionsKey, KeyWithTail, DeviceTail
<1> QED BY <1>1, <1>2, <1>3, <1>4 DEF Config!Keys

\* The last five tokens of a tail tell which kind of key it ends, whatever the
\* identifiers are, and with it how long it is.
ShapeOf(x) ==
  /\ x \in Seq(KeyWords)
  /\ \/ Len(x) = 3 /\ x[3] = Digest
     \/ Len(x) = 5 /\ x[5] \in {"sessions", "devices"} /\ x[1] = "user"
     \/ Len(x) = 9 /\ x[9] \in {"sessions", "devices"} /\ x[5] = "device"

LEMMA ShapeOfTail ==
  ASSUME NEW key, NEW r, NEW x, KeyWithTail(key, r, x)
  PROVE  ShapeOf(x) /\ key[1] = r \o x /\ key[2] = r
<1>1. ShapeOf(SessionTail)
  BY DEF SessionTail, ShapeOf, KeyWords
<1>2. ASSUME NEW u \in Ids PROVE ShapeOf(SessionsTail(u))
  BY DEF SessionsTail, ShapeOf, KeyWords
<1>3. ASSUME NEW u \in Ids PROVE ShapeOf(DevicesTail(u))
  BY DEF DevicesTail, ShapeOf, KeyWords
<1>4. ASSUME NEW u \in Ids, NEW d \in Ids PROVE ShapeOf(DeviceTail(u, d))
  BY DEF DeviceTail, ShapeOf, KeyWords
<1> QED BY <1>1, <1>2, <1>3, <1>4 DEF KeyWithTail

\* Tails of different keys differ.
LEMMA OneKey ==
  ASSUME NEW k, NEW l, NEW r, NEW x, KeyWithTail(k, r, x), KeyWithTail(l, r, x)
  PROVE  k = l
<1>1. CASE x = SessionTail /\ k = <<r \o x, r, "session">>
  <2>1. \A u, d : x # SessionsTail(u) /\ x # DevicesTail(u) /\ x # DeviceTail(u, d)
    BY <1>1 DEF SessionTail, SessionsTail, DevicesTail, DeviceTail
  <2> QED BY <1>1, <2>1 DEF KeyWithTail
<1>2. ASSUME NEW u \in Ids, x = SessionsTail(u), k = <<r \o x, r, u, "sessions">>
      PROVE  k = l
  <2>1. /\ x # SessionTail
        /\ \A v, d : x # DevicesTail(v) /\ x # DeviceTail(v, d) /\ (x = SessionsTail(v) => v = u)
    BY <1>2 DEF SessionTail, SessionsTail, DevicesTail, DeviceTail
  <2> QED BY <1>2, <2>1 DEF KeyWithTail
<1>3. ASSUME NEW u \in Ids, x = DevicesTail(u), k = <<r \o x, r, u, "devices">>
      PROVE  k = l
  <2>1. /\ x # SessionTail
        /\ \A v, d : x # SessionsTail(v) /\ x # DeviceTail(v, d) /\ (x = DevicesTail(v) => v = u)
    BY <1>3 DEF SessionTail, SessionsTail, DevicesTail, DeviceTail
  <2> QED BY <1>3, <2>1 DEF KeyWithTail
<1>4. ASSUME NEW u \in Ids, NEW d \in Ids, x = DeviceTail(u, d),
             k = <<r \o x, r, u, d, "device">>
      PROVE  k = l
  <2>1. /\ x # SessionTail
        /\ \A v, e : /\ x # SessionsTail(v) /\ x # DevicesTail(v)
                     /\ (x = DeviceTail(v, e) => (v = u /\ e = d))
    BY <1>4 DEF SessionTail, SessionsTail, DevicesTail, DeviceTail
  <2>2. PICK v \in Ids, e \in Ids : x = DeviceTail(v, e) /\ l = <<r \o x, r, v, e, "device">>
    BY <2>1 DEF KeyWithTail
  <2>3. v = u /\ e = d
    BY <2>1, <2>2
  <2> QED BY <1>4, <2>2, <2>3
<1> QED BY <1>1, <1>2, <1>3, <1>4 DEF KeyWithTail

Joined(w, p, x) == w = p \o x

\* A key consists of its prefix and its tail.
LEMMA PartsOfKey ==
  ASSUME NEW p \in Seq(KeyWords), NEW x \in Seq(KeyWords), NEW w, Joined(w, p, x)
  PROVE  /\ Len(w) = Len(p) + Len(x)
         /\ \A i \in 1 .. Len(p) : w[i] = p[i]
         /\ \A i \in 1 .. Len(x) : w[Len(p) + i] = x[i]
<1>1. Len(p \o x) = Len(p) + Len(x)
  OBVIOUS
<1>2. \A i \in 1 .. Len(p) : (p \o x)[i] = p[i]
  OBVIOUS
<1>3. \A i \in 1 .. Len(x) : (p \o x)[Len(p) + i] = x[i]
  OBVIOUS
<1> QED BY <1>1, <1>2, <1>3, Zenon DEF Joined

LEMMA SameSeq ==
  ASSUME NEW x \in Seq(KeyWords), NEW y \in Seq(KeyWords), NEW n, Len(x) = n, Len(y) = n,
         \A i \in 1 .. n : x[i] = y[i]
  PROVE  x = y
  OBVIOUS

\* Two keys that are the same and end in tails of one length are made of the same
\* prefix and the same tail.
LEMMA SameParts ==
  ASSUME NEW p \in Seq(KeyWords), NEW q \in Seq(KeyWords), NEW x \in Seq(KeyWords), NEW y \in Seq(KeyWords),
         NEW w, Joined(w, p, x), Joined(w, q, y), Len(x) = Len(y)
  PROVE  p = q /\ x = y
<1>1. /\ Len(w) = Len(p) + Len(x)
      /\ \A i \in 1 .. Len(p) : w[i] = p[i]
      /\ \A i \in 1 .. Len(x) : w[Len(p) + i] = x[i]
  BY PartsOfKey
<1>2. /\ Len(w) = Len(q) + Len(y)
      /\ \A i \in 1 .. Len(q) : w[i] = q[i]
      /\ \A i \in 1 .. Len(y) : w[Len(q) + i] = y[i]
  BY PartsOfKey
<1>3. PICK m \in Nat, n \in Nat : m = Len(p) /\ m = Len(q) /\ n = Len(x) /\ n = Len(y)
  BY <1>1, <1>2
<1>4. \A i \in 1 .. m : p[i] = q[i]
  BY <1>1, <1>2, <1>3
<1>5. \A i \in 1 .. n : x[i] = y[i]
  BY <1>1, <1>2, <1>3
<1>6. p = q
  BY ZenonT(40), <1>3, <1>4, SameSeq
<1>7. x = y
  BY <1>3, <1>5, SameSeq
<1> QED BY <1>6, <1>7

\* The end of a key tells of which kind it is.
EndsLike(w, n) ==
  \/ n = 3 /\ w[Len(w)] = Digest
  \/ n = 5 /\ w[Len(w)] \in {"sessions", "devices"} /\ w[Len(w) - 4] = "user"
  \/ n = 9 /\ w[Len(w)] \in {"sessions", "devices"} /\ w[Len(w) - 4] = "device"

LEMMA EndOfKey ==
  ASSUME NEW p \in Seq(KeyWords), NEW x, ShapeOf(x), NEW w, Joined(w, p, x)
  PROVE  EndsLike(w, Len(x))
<1>1. x \in Seq(KeyWords)
  BY DEF ShapeOf
<1>2. PICK m \in Nat : m = Len(p)
  OBVIOUS
<1>3. Len(w) = m + Len(x) /\ \A i \in 1 .. Len(x) : w[m + i] = x[i]
  BY <1>1, <1>2, PartsOfKey
<1>4. CASE Len(x) = 3 /\ x[3] = Digest
  BY <1>2, <1>3, <1>4 DEF EndsLike
<1>5. CASE Len(x) = 5 /\ x[5] \in {"sessions", "devices"} /\ x[1] = "user"
  <2>1. Len(w) = m + 5 /\ w[m + 5] = x[5] /\ w[m + 1] = x[1] /\ (m + 5) - 4 = m + 1
    BY <1>2, <1>3, <1>5
  <2> QED BY <1>5, <2>1 DEF EndsLike
<1>6. CASE Len(x) = 9 /\ x[9] \in {"sessions", "devices"} /\ x[5] = "device"
  <2>1. Len(w) = m + 9 /\ w[m + 9] = x[9] /\ w[m + 5] = x[5] /\ (m + 9) - 4 = m + 5
    BY <1>2, <1>3, <1>6
  <2> QED BY <1>6, <2>1 DEF EndsLike
<1> QED BY <1>4, <1>5, <1>6 DEF ShapeOf

\* No key of a realm is the key of anything else in it or in the other realm.
LEMMA KeysApart ==
  ASSUME NEW p \in Seq(Tokens), NEW q \in Seq(Tokens),
         NEW k \in Config!Keys(p) \cup Config!Keys(q),
         NEW l \in Config!Keys(p) \cup Config!Keys(q), k[1] = l[1]
  PROVE  k = l
<1>1. p \in Seq(KeyWords) /\ q \in Seq(KeyWords)
  BY DEF KeyWords
<1>2. PICK r, x : r \in {p, q} /\ KeyWithTail(k, r, x)
  BY TailOfKey
<1>3. PICK s, y : s \in {p, q} /\ KeyWithTail(l, s, y)
  BY TailOfKey
<1>4. PICK w : w = k[1]
  OBVIOUS
<1>5. ShapeOf(x) /\ Joined(w, r, x)
  BY <1>2, <1>4, ShapeOfTail DEF Joined
<1>6. ShapeOf(y) /\ Joined(w, s, y)
  BY <1>3, <1>4, ShapeOfTail DEF Joined
<1>7. r \in Seq(KeyWords) /\ s \in Seq(KeyWords) /\ x \in Seq(KeyWords) /\ y \in Seq(KeyWords)
  BY <1>1, <1>2, <1>3, <1>5, <1>6 DEF ShapeOf
<1>8. EndsLike(w, Len(x)) /\ EndsLike(w, Len(y))
  BY <1>5, <1>6, <1>7, EndOfKey
<1>9. Len(x) = Len(y)
  BY <1>8, KeyAssumption DEF EndsLike
<1>10. r = s /\ x = y
  BY <1>5, <1>6, <1>7, <1>9, SameParts
<1>11. KeyWithTail(k, r, x) /\ KeyWithTail(l, r, x)
  BY <1>2, <1>3, <1>10
<1> QED BY <1>11, OneKey

-----------------------------------------------------------------------------
(* The realms of accepted settings                                         *)

\* What Load has accepted of a file.
Accepted(f, c) ==
  /\ HasTypes(f) /\ DOMAIN f \subseteq DOMAIN Defaults
  /\ c = Config!Normalize(f) /\ Config!Validate(c)

LEMMA LoadAccepts ==
  ASSUME NEW f \in Files, Config!Load(f) # None
  PROVE  Accepted(f, Config!Load(f))
<1>1. f # Blank /\ DOMAIN f \subseteq DOMAIN Defaults
  BY DEF Config!Load
<1>2. Config!Load(f) = Config!Normalize(f) /\ Config!Validate(Config!Normalize(f))
  BY <1>1 DEF Config!Load
<1>3. HasTypes(f)
  BY <1>1, ConfigAssumption
<1> QED BY <1>1, <1>2, <1>3 DEF Accepted

\* The prefixes of accepted settings are such that a realm takes them as they are.
LEMMA AcceptedPrefix ==
  ASSUME NEW prefix \in Seq(Tokens), NEW p, p = Config!NormalizeKeyPrefix(prefix),
         Config!IsKeyPrefix(p)
  PROVE  p \in Seq(Tokens) /\ Config!NormalizeRealmPrefix(p) = p /\ p # None
<1>1. p \in Seq(Tokens) /\ (p # <<>> => p[Len(p)] = ":")
  BY NormalizedEnds
<1>2. p # <<>>
  BY DEF Config!IsKeyPrefix
<1> QED BY <1>1, <1>2, RealmKeepsPrefix, KeyAssumption

\* From accepted settings NewRealms makes realms of those prefixes.
LEMMA RealmsOfAccepted ==
  ASSUME NEW f, NEW c, Accepted(f, c)
  PROVE  /\ c.app \in Seq(Tokens) /\ c.admin \in Seq(Tokens)
         /\ c.lifetime \in 1 .. Limit - 1
         /\ Config!NewRealms(c) = [app |-> c.app, admin |-> c.admin,
                                   retention |-> Config!Wrap(2 * c.lifetime)]
<1>1. PICK app \in Seq(Tokens), admin \in Seq(Tokens) :
        /\ c.app = Config!NormalizeKeyPrefix(app)
        /\ c.admin = Config!NormalizeKeyPrefix(admin)
  BY SettingsHaveTypes DEF Accepted
<1>2. c.lifetime \in -Limit .. Limit - 1 /\ c.idleTimeout \in -Limit .. Limit - 1
  BY SettingsHaveTypes DEF Accepted
<1>3. /\ c.lifetime > 0 /\ c.idleTimeout > 0 /\ c.idleTimeout <= c.lifetime
      /\ Config!IsKeyPrefix(c.app) /\ Config!IsKeyPrefix(c.admin) /\ c.app # c.admin
  BY ConfigAssumption DEF Accepted, Config!Validate
<1>4. c.app \in Seq(Tokens) /\ Config!NormalizeRealmPrefix(c.app) = c.app /\ c.app # None
  BY <1>1, <1>3, AcceptedPrefix
<1>5. /\ c.admin \in Seq(Tokens) /\ Config!NormalizeRealmPrefix(c.admin) = c.admin
      /\ c.admin # None
  BY <1>1, <1>3, AcceptedPrefix
<1>6. c.lifetime \in 1 .. Limit - 1
  BY <1>2, <1>3, ConfigAssumption
<1> QED BY <1>3, <1>4, <1>5, <1>6 DEF Config!NewRealms

\* The settings have been accepted for one of the files.
ConfigInv ==
  loaded # None => /\ \E f \in Files : Accepted(f, loaded)
                   /\ realms = Config!NewRealms(loaded)

LEMMA RealmsRight == ConfigInv => Config!LoadSuffices
<1> SUFFICES ASSUME ConfigInv, loaded # None PROVE Config!LoadSuffices
  BY DEF Config!LoadSuffices
<1>1. PICK f \in Files : Accepted(f, loaded)
  BY DEF ConfigInv
<1>2. PICK app \in Seq(Tokens), admin \in Seq(Tokens), lifetime \in 1 .. Limit - 1 :
        /\ app = loaded.app /\ admin = loaded.admin /\ lifetime = loaded.lifetime
        /\ realms = [app |-> app, admin |-> admin, retention |-> Config!Wrap(2 * lifetime)]
  BY <1>1, RealmsOfAccepted DEF ConfigInv
<1>3. Limit \in Nat \ {0} /\ lifetime \in Nat /\ lifetime > 0
  BY <1>2, ConfigAssumption
<1>4. realms.app = app /\ realms.admin = admin /\ realms.retention = Config!Wrap(2 * lifetime)
  BY <1>2
<1>5. Config!Wrap(2 * lifetime) \in Int
  BY <1>3 DEF Config!Wrap
<1>6. realms # None
  BY <1>2, <1>5, KeyAssumption
<1>7. realms.retention > lifetime \/ 2 * lifetime >= Limit
  <2> SUFFICES ASSUME 2 * lifetime < Limit PROVE realms.retention > lifetime
    BY <1>3
  <2>1. 2 * lifetime \in 0 .. Limit - 1
    BY <1>3
  <2>2. Config!Wrap(2 * lifetime) = 2 * lifetime
    BY <2>1, WrapKeeps
  <2> QED BY <1>3, <1>4, <2>2
<1>8. \A k, l \in Config!Keys(app) \cup Config!Keys(admin) : k[1] = l[1] => k = l
  BY KeysApart
<1>9. \A k, l \in Config!Keys(realms.app) \cup Config!Keys(realms.admin) :
        k[1] = l[1] => k = l
  BY <1>4, <1>8
<1>10. realms.retention > loaded.lifetime \/ 2 * loaded.lifetime >= Limit
  BY <1>2, <1>7
<1>11. realms.app = loaded.app /\ realms.admin = loaded.admin
  BY <1>2, <1>4
<1> QED BY <1>6, <1>9, <1>10, <1>11 DEF Config!LoadSuffices

-----------------------------------------------------------------------------
(* How a text is replaced                                                  *)

\* What is so of a position if it is so of all later ones is so of all.
LEMMA Leftward ==
  ASSUME NEW n \in Nat, NEW S,
         \A i \in 1 .. n : (\A j \in i + 1 .. n : j \in S) => i \in S
  PROVE  1 .. n \subseteq S
<1> DEFINE bad == {k \in 0 .. n - 1 : n - k \notin S}
<1>1. SUFFICES ASSUME bad # {} PROVE FALSE
  <2>1. \A i \in 1 .. n : n - i \in 0 .. n - 1 /\ n - (n - i) = i
    OBVIOUS
  <2> QED BY <2>1
<1>2. PICK k \in bad : \A l \in bad : k <= l
  <2>1. bad \subseteq Nat
    OBVIOUS
  <2> HIDE DEF bad
  <2> QED BY <1>1, <2>1, LeastExists
<1>3. ASSUME NEW j \in n - k + 1 .. n PROVE j \in S
  <2>1. n - j \in 0 .. n - 1 /\ n - j < k /\ n - (n - j) = j
    OBVIOUS
  <2> QED BY <1>2, <2>1
<1>4. n - k \in 1 .. n
  OBVIOUS
<1> QED BY <1>3, <1>4

\* What texts are made of.
Letters == STRING \cup Marks \cup {"-"}

Texts == Seq(Letters)

Joins(s, t, u) == (s \o t) \o u = s \o (t \o u)

LEMMA TextsJoin ==
  ASSUME NEW s \in Texts, NEW t \in Texts, NEW u \in Texts
  PROVE  Joins(s, t, u)
BY DEF Texts, Joins

\* What Replace makes of the text from i on, if f is what it makes of later parts.
From(f, text, old, new, i) ==
  IF i > Len(text) THEN <<>>
  ELSE IF Project!Occurs(old, text, i) THEN new \o f[i + Len(old)]
  ELSE <<text[i]>> \o f[i + 1]

\* From m on, f is what Replace makes of the text.
Replaces(f, text, old, new, m) ==
  \A i \in m .. Len(text) + 1 : f[i] \in Texts /\ f[i] = From(f, text, old, new, i)

\* Where the replacement goes on.
LEMMA FromLater ==
  ASSUME NEW text \in Texts, NEW old \in Texts, NEW new \in Texts, old # <<>>,
         NEW i \in 1 .. Len(text) + 1, NEW f, NEW g,
         \A j \in i + 1 .. Len(text) + 1 : f[j] \in Texts /\ f[j] = g[j]
  PROVE  /\ From(f, text, old, new, i) \in Texts
         /\ From(f, text, old, new, i) = From(g, text, old, new, i)
<1>1. Len(old) \in Nat /\ Len(old) > 0 /\ Len(text) \in Nat
  BY DEF Texts
<1>2. CASE i > Len(text)
  BY <1>2 DEF From, Texts
<1>3. CASE i <= Len(text) /\ Project!Occurs(old, text, i)
  <2>1. i + Len(old) \in i + 1 .. Len(text) + 1
    BY <1>1, <1>3 DEF Project!Occurs
  <2>2. PICK u, t \in Texts : u = new /\ t = f[i + Len(old)] /\ t = g[i + Len(old)]
    BY <2>1
  <2>3. u \o t \in Texts
    BY <2>2 DEF Texts
  <2> QED BY <1>1, <1>3, <2>2, <2>3 DEF From
<1>4. CASE i <= Len(text) /\ ~ Project!Occurs(old, text, i)
  <2>1. i + 1 \in i + 1 .. Len(text) + 1
    BY <1>1, <1>4
  <2>2. PICK u \in Texts, t \in Texts : u = <<text[i]>> /\ t = f[i + 1] /\ t = g[i + 1]
    <3>1. <<text[i]>> \in Texts
      BY <1>1, <1>4 DEF Texts
    <3>2. f[i + 1] \in Texts /\ f[i + 1] = g[i + 1]
      BY <2>1
    <3> QED BY <3>1, <3>2
  <2>3. u \o t \in Texts
    BY <2>2 DEF Texts
  <2> QED BY <1>1, <1>4, <2>2, <2>3 DEF From
<1> QED BY <1>1, <1>2, <1>3, <1>4

\* The function by which Replace is defined exists: it can be continued to the left.
LEMMA ReplaceGoesOn ==
  ASSUME NEW text \in Texts, NEW old \in Texts, NEW new \in Texts, old # <<>>,
         NEW m \in 1 .. Len(text) + 1, NEW f, Replaces(f, text, old, new, m + 1)
  PROVE  \E g : Replaces(g, text, old, new, m)
<1> DEFINE value == From(f, text, old, new, m)
           g == [i \in m .. Len(text) + 1 |-> IF i = m THEN value ELSE f[i]]
<1>1. Len(text) \in Nat
  BY DEF Texts
<1>2. g[m] = value /\ \A j \in m + 1 .. Len(text) + 1 : g[j] = f[j]
  BY <1>1
<1> HIDE DEF g
<1>3. ASSUME NEW i \in m .. Len(text) + 1
      PROVE  /\ From(f, text, old, new, i) \in Texts
             /\ From(f, text, old, new, i) = From(g, text, old, new, i)
  <2>1. \A j \in i + 1 .. Len(text) + 1 : f[j] \in Texts /\ f[j] = g[j]
    BY <1>1, <1>2 DEF Replaces
  <2> QED BY <2>1, FromLater, <1>1
<1>4. ASSUME NEW i \in m .. Len(text) + 1 PROVE g[i] = From(f, text, old, new, i)
  <2>1. CASE i = m
    BY <2>1, <1>2
  <2>2. CASE i # m
    BY <2>2, <1>1, <1>2 DEF Replaces
  <2> QED BY <2>1, <2>2
<1>5. Replaces(g, text, old, new, m)
  BY <1>3, <1>4 DEF Replaces
<1> QED BY <1>5

LEMMA ReplaceIs ==
  ASSUME NEW text \in Texts, NEW old \in Texts, NEW new \in Texts, old # <<>>
  PROVE  \E f : Replaces(f, text, old, new, 1) /\ Project!Replace(text, old, new) = f[1]
<1>1. Len(text) \in Nat
  BY DEF Texts
<1>2. PICK end \in Nat \ {0} : end = Len(text) + 1
  BY <1>1
<1> DEFINE S == {m \in 1 .. end : \E f : Replaces(f, text, old, new, m)}
<1>3. 1 .. end \subseteq S
  <2>1. ASSUME NEW i \in 1 .. end, \A j \in i + 1 .. end : j \in S
        PROVE  i \in S
    <3>1. \E f : Replaces(f, text, old, new, i + 1)
      <4>1. CASE i = end
        BY <4>1, <1>1, <1>2 DEF Replaces
      <4>2. CASE i # end
        BY <4>2, <2>1
      <4> QED BY <4>1, <4>2
    <3>2. i \in 1 .. Len(text) + 1
      BY <1>2
    <3> QED BY <3>1, <3>2, ReplaceGoesOn
  <2>2. \A i \in 1 .. end : (\A j \in i + 1 .. end : j \in S) => i \in S
    BY <2>1
  <2> HIDE DEF S
  <2> QED BY <2>2, Leftward
<1>4. PICK f : Replaces(f, text, old, new, 1)
  <2>1. 1 \in S
    <3> HIDE DEF S
    <3> QED BY <1>3
  <2> QED BY <2>1
<1> HIDE DEF S
<1> DEFINE h == [i \in 1 .. Len(text) + 1 |-> f[i]]
           rest == CHOOSE g : g = [i \in 1 .. Len(text) + 1 |->
                     IF i > Len(text) THEN <<>>
                     ELSE IF Project!Occurs(old, text, i) THEN new \o g[i + Len(old)]
                     ELSE <<text[i]>> \o g[i + 1]]
<1>5. ASSUME NEW i \in 1 .. Len(text) + 1 PROVE h[i] = From(h, text, old, new, i)
  <2>1. \A j \in i + 1 .. Len(text) + 1 : f[j] \in Texts /\ f[j] = h[j]
    BY <1>1, <1>4 DEF Replaces
  <2>2. h[i] = From(f, text, old, new, i)
    BY <1>4 DEF Replaces
  <2> HIDE DEF h
  <2> QED BY <2>1, <2>2, FromLater
<1>6. h = [i \in 1 .. Len(text) + 1 |-> From(h, text, old, new, i)]
  <2>1. h = [i \in 1 .. Len(text) + 1 |-> h[i]]
    OBVIOUS
  <2> HIDE DEF h
  <2> QED BY <1>5, <2>1
<1>7. rest = [i \in 1 .. Len(text) + 1 |-> From(rest, text, old, new, i)]
  <2> HIDE DEF h
  <2> QED BY <1>6, Zenon DEF From
<1>8. Project!Replace(text, old, new) = rest[1]
  BY DEF Project!Replace
<1> HIDE DEF h, rest
<1> DEFINE T == {i \in 1 .. end : rest[i] = f[i]}
<1>9. 1 .. end \subseteq T
  <2>1. ASSUME NEW i \in 1 .. end, \A j \in i + 1 .. end : j \in T
        PROVE  i \in T
    <3>1. \A j \in i + 1 .. Len(text) + 1 : f[j] \in Texts /\ f[j] = rest[j]
      BY <2>1, <1>1, <1>2, <1>4 DEF Replaces
    <3>2. rest[i] = From(rest, text, old, new, i) /\ f[i] = From(f, text, old, new, i)
      BY <1>4, <1>7, <1>2 DEF Replaces
    <3>3. i \in 1 .. Len(text) + 1
      BY <1>2
    <3> QED BY <3>1, <3>2, <3>3, FromLater
  <2>2. \A i \in 1 .. end : (\A j \in i + 1 .. end : j \in T) => i \in T
    BY <2>1
  <2> HIDE DEF T
  <2> QED BY <2>2, Leftward
<1>10. rest[1] = f[1]
  BY <1>9
<1> QED BY <1>4, <1>8, <1>10

\* From n to k the text is kept, and the replacement goes on at m.
Keeps(f, text, n, k, m) == f[n] = SubSeq(text, n, k) \o f[m]

\* As long as the old text does not occur, the text is kept.
LEMMA ReplaceSkips ==
  ASSUME NEW text \in Texts, NEW old \in Texts, NEW new \in Texts,
         NEW f, Replaces(f, text, old, new, 1), NEW m \in 1 .. Len(text) + 1,
         NEW n \in 1 .. m, NEW k, k = m - 1,
         \A i \in n .. k : ~ Project!Occurs(old, text, i)
  PROVE  Keeps(f, text, n, k, m)
<1>1. Len(text) \in Nat
  BY DEF Texts
<1> DEFINE Kept(i) == f[i] = SubSeq(text, i, k) \o f[m]
           S == {i \in 1 .. m : i >= n => Kept(i)}
<1>2. ASSUME NEW i \in 1 .. m, i < m => Kept(i + 1), i >= n
      PROVE  Kept(i)
  <2>1. PICK t \in Texts : t = f[m]
    BY <1>1 DEF Replaces
  <2>2. CASE i = m
    <3>1. SubSeq(text, i, k) = <<>>
      BY <2>2, <1>1 DEF Texts
    <3> QED BY <2>1, <2>2, <3>1 DEF Texts
  <2>3. CASE i # m
    <3>1. i \in 1 .. Len(text) /\ k \in i .. Len(text) /\ i \in n .. k
      BY <2>3, <1>1, <1>2
    <3>2. f[i + 1] = SubSeq(text, i + 1, k) \o t
      <4>1. Kept(i + 1)
        <5> HIDE DEF Kept
        <5>1. i < m
          BY <2>3
        <5> QED BY <5>1, <1>2
      <4> QED BY <4>1, <2>1
    <3>3. f[i] = <<text[i]>> \o f[i + 1]
      <4>1. f[i] = From(f, text, old, new, i)
        BY <3>1, <1>1 DEF Replaces
      <4>2. ~ (i > Len(text)) /\ ~ Project!Occurs(old, text, i)
        BY <3>1, <1>1
      <4> QED BY <4>1, <4>2 DEF From
    <3>4. PICK u \in Texts, v \in Texts, w \in Texts :
            /\ u = <<text[i]>> /\ v = SubSeq(text, i + 1, k) /\ w = SubSeq(text, i, k)
      <4>1. <<text[i]>> \in Texts
        BY <3>1 DEF Texts
      <4>2. SubSeq(text, i + 1, k) \in Texts /\ SubSeq(text, i, k) \in Texts
        BY <3>1, <1>1 DEF Texts
      <4> QED BY <4>1, <4>2
    <3>5. w = u \o v
      BY <3>1, <3>4, SubSeqRecursiveFirst DEF Texts
    <3>6. (u \o v) \o t = u \o (v \o t)
      <4>1. Joins(u, v, t)
        BY TextsJoin
      <4> QED BY <4>1, Zenon DEF Joins
    <3> QED BY <2>1, <3>2, <3>3, <3>4, <3>5, <3>6
  <2> QED BY <2>2, <2>3
<1>3. 1 .. m \subseteq S
  <2>1. ASSUME NEW i \in 1 .. m, \A j \in i + 1 .. m : j \in S, i >= n
        PROVE  Kept(i)
    <3> HIDE DEF Kept
    <3>1. i < m => Kept(i + 1)
      BY <2>1
    <3> QED BY <2>1, <3>1, <1>2
  <2>2. \A i \in 1 .. m : (\A j \in i + 1 .. m : j \in S) => i \in S
    <3> HIDE DEF Kept
    <3> QED BY <2>1
  <2>3. PICK l \in Nat : l = m
    OBVIOUS
  <2> HIDE DEF S
  <2> QED BY <2>2, <2>3, Leftward
<1>4. Kept(n)
  <2> HIDE DEF Kept
  <2> QED BY <1>3
<1> QED BY <1>4 DEF Keeps

\* A text that does not occur is not replaced.
LEMMA ReplaceNone ==
  ASSUME NEW text \in Texts, NEW old \in Texts, NEW new \in Texts, old # <<>>,
         ~ Project!Holds(text, old)
  PROVE  Project!Replace(text, old, new) = text
<1>1. Len(text) \in Nat /\ DOMAIN text = 1 .. Len(text)
  BY DEF Texts
<1>2. PICK f : Replaces(f, text, old, new, 1) /\ Project!Replace(text, old, new) = f[1]
  BY ReplaceIs
<1>3. \A i \in 1 .. Len(text) : ~ Project!Occurs(old, text, i)
  BY <1>1 DEF Project!Holds
<1>4. PICK m \in 1 .. Len(text) + 1 : m = Len(text) + 1 /\ Len(text) = m - 1 /\ 1 \in 1 .. m
  BY <1>1
<1>5. Keeps(f, text, 1, Len(text), m)
  BY <1>2, <1>3, <1>4, ReplaceSkips
<1>6. f[m] = <<>>
  <2>1. f[m] = From(f, text, old, new, m)
    BY <1>2, <1>4 DEF Replaces
  <2> QED BY <2>1, <1>1, <1>4 DEF From
<1>7. SubSeq(text, 1, Len(text)) = text
  BY SubSeqFull DEF Texts
<1> QED BY <1>2, <1>5, <1>6, <1>7, ConcatEmptySeq DEF Texts, Keeps

\* A text with something before and after it.
Around(pre, text, post) == pre \o (text \o post)

IsAround(whole, pre, text, post) ==
  /\ whole \in Texts
  /\ Len(whole) = Len(pre) + Len(text) + Len(post)
  /\ \A i \in 1 .. Len(pre) : whole[i] = pre[i]
  /\ \A i \in 1 .. Len(text) : whole[Len(pre) + i] = text[i]
  /\ \A i \in 1 .. Len(post) : whole[Len(pre) + Len(text) + i] = post[i]

LEMMA AroundIs ==
  ASSUME NEW pre \in Texts, NEW text \in Texts, NEW post \in Texts
  PROVE  IsAround(Around(pre, text, post), pre, text, post)
<1>1. Len(pre) \in Nat /\ Len(text) \in Nat /\ Len(post) \in Nat
  BY DEF Texts
<1>2. PICK t \in Texts : t = text \o post
  BY ConcatProperties DEF Texts
<1>3. /\ Len(t) = Len(text) + Len(post)
      /\ \A i \in 1 .. Len(text) + Len(post) :
           t[i] = IF i <= Len(text) THEN text[i] ELSE post[i - Len(text)]
  BY <1>2, ConcatProperties DEF Texts
<1>4. PICK u \in Texts : u = pre \o t
  BY ConcatProperties DEF Texts
<1>5. /\ Len(u) = Len(pre) + Len(t)
      /\ \A i \in 1 .. Len(pre) + Len(t) :
           u[i] = IF i <= Len(pre) THEN pre[i] ELSE t[i - Len(pre)]
  BY <1>4, ConcatProperties DEF Texts
<1>6. Around(pre, text, post) = u
  BY <1>2, <1>4 DEF Around
<1>7. \A i \in 1 .. Len(pre) : u[i] = pre[i]
  BY <1>1, <1>3, <1>5
<1>8. \A i \in 1 .. Len(text) : u[Len(pre) + i] = text[i]
  <2> TAKE i \in 1 .. Len(text)
  <2>1. u[Len(pre) + i] = t[i]
    BY <1>1, <1>3, <1>5
  <2> QED BY <2>1, <1>1, <1>3
<1>9. \A i \in 1 .. Len(post) : u[Len(pre) + Len(text) + i] = post[i]
  <2> TAKE i \in 1 .. Len(post)
  <2>1. PICK k \in 1 .. Len(text) + Len(post) : k = Len(text) + i
    BY <1>1
  <2>2. Len(pre) + Len(text) + i = Len(pre) + k /\ ~ (k <= Len(text)) /\ k - Len(text) = i
    BY <2>1, <1>1
  <2>3. u[Len(pre) + k] = t[k]
    <3>1. PICK l \in 1 .. Len(pre) + Len(t) : l = Len(pre) + k
      BY <2>1, <1>1, <1>3
    <3>2. ~ (l <= Len(pre)) /\ l - Len(pre) = k
      BY <3>1, <1>1
    <3> QED BY <3>1, <3>2, <1>5
  <2> QED BY <2>2, <2>3, <1>3
<1>10. Len(u) = Len(pre) + Len(text) + Len(post)
  BY <1>1, <1>3, <1>5
<1> QED BY <1>6, <1>7, <1>8, <1>9, <1>10 DEF IsAround

LEMMA AroundHas ==
  ASSUME NEW pre \in Texts, NEW text \in Texts, NEW post \in Texts
  PROVE  \E whole \in Texts : whole = Around(pre, text, post) /\ IsAround(whole, pre, text, post)
<1>1. IsAround(Around(pre, text, post), pre, text, post)
  BY AroundIs
<1>2. Around(pre, text, post) \in Texts
  BY <1>1 DEF IsAround
<1> QED BY <1>1, <1>2

\* A text ends with, or begins with, a token that is not in S.
Ends(pre, S) == pre = <<>> \/ pre[Len(pre)] \notin S

Begins(post, S) == post = <<>> \/ post[1] \notin S

\* What is made of S does not begin in what comes before if that does not hold it
\* and ends with a token of another kind.
LEMMA NotBefore ==
  ASSUME NEW pre \in Texts, NEW mid \in Texts, NEW post \in Texts, NEW text \in Texts,
         IsAround(text, pre, mid, post), NEW S, NEW part \in Seq(S), part \in Texts, part # <<>>,
         Ends(pre, S), ~ Project!Holds(pre, part), NEW i \in 1 .. Len(pre)
  PROVE  ~ Project!Occurs(part, text, i)
<1>1. /\ Len(pre) \in Nat /\ Len(part) \in Nat \ {0} /\ DOMAIN part = 1 .. Len(part)
      /\ DOMAIN pre = 1 .. Len(pre)
  BY EmptySeq, LenProperties DEF Texts
<1>2. \A j \in 1 .. Len(pre) : text[j] = pre[j]
  BY DEF IsAround
<1>3. SUFFICES ASSUME \A k \in 1 .. Len(part) : text[i + k - 1] = part[k] PROVE FALSE
  BY <1>1 DEF Project!Occurs
<1>4. CASE i + Len(part) <= Len(pre) + 1
  <2>1. ASSUME NEW k \in 1 .. Len(part) PROVE pre[i + k - 1] = part[k]
    <3>1. i + k - 1 \in 1 .. Len(pre)
      BY <1>1, <1>4
    <3> QED BY <3>1, <1>2, <1>3
  <2> QED BY <2>1, <1>1, <1>4 DEF Project!Occurs, Project!Holds
<1>5. CASE ~ (i + Len(part) <= Len(pre) + 1)
  <2>1. PICK k \in 1 .. Len(part) : i + k - 1 = Len(pre)
    <3>1. Len(pre) - i + 1 \in 1 .. Len(part) /\ i + (Len(pre) - i + 1) - 1 = Len(pre)
      BY <1>1, <1>5
    <3> QED BY <3>1
  <2>2. part[k] \in S
    BY ElementOfSeq
  <2>3. pre[Len(pre)] = part[k]
    BY <2>1, <1>1, <1>2, <1>3
  <2>4. pre # <<>>
    BY <1>1
  <2> QED BY <2>2, <2>3, <2>4 DEF Ends
<1> QED BY <1>4, <1>5

\* What comes after does not hold it if that is not held by it.
LEMMA NotAfter ==
  ASSUME NEW pre \in Texts, NEW mid \in Texts, NEW post \in Texts, NEW text \in Texts,
         IsAround(text, pre, mid, post), NEW part \in Texts,
         ~ Project!Holds(post, part), NEW i \in Len(pre) + Len(mid) + 1 .. Len(text)
  PROVE  ~ Project!Occurs(part, text, i)
<1>1. /\ Len(pre) \in Nat /\ Len(mid) \in Nat /\ Len(post) \in Nat /\ Len(part) \in Nat
      /\ DOMAIN part = 1 .. Len(part) /\ DOMAIN post = 1 .. Len(post)
  BY LenProperties DEF Texts
<1>2. /\ Len(text) = Len(pre) + Len(mid) + Len(post)
      /\ \A j \in 1 .. Len(post) : text[Len(pre) + Len(mid) + j] = post[j]
  BY DEF IsAround
<1>3. SUFFICES ASSUME Project!Occurs(part, text, i) PROVE FALSE
  OBVIOUS
<1>4. PICK j \in 1 .. Len(post) : i = Len(pre) + Len(mid) + j
  <2>1. i - Len(pre) - Len(mid) \in 1 .. Len(post)
    BY <1>1, <1>2
  <2>2. i = Len(pre) + Len(mid) + (i - Len(pre) - Len(mid))
    BY <1>1
  <2> QED BY <2>1, <2>2
<1>5. j + Len(part) <= Len(post) + 1
  BY <1>1, <1>2, <1>3, <1>4 DEF Project!Occurs
<1>6. ASSUME NEW k \in 1 .. Len(part) PROVE post[j + k - 1] = part[k]
  <2>1. PICK l \in 1 .. Len(post) : l = j + k - 1
    BY <1>1, <1>5
  <2>2. i + k - 1 = Len(pre) + Len(mid) + l
    BY <2>1, <1>1, <1>4
  <2>3. text[i + k - 1] = part[k]
    BY <1>1, <1>3 DEF Project!Occurs
  <2> QED BY <2>1, <2>2, <2>3, <1>2
<1> QED BY <1>1, <1>5, <1>6 DEF Project!Occurs, Project!Holds

\* A text that occurs in one place is replaced there.
LEMMA ReplaceOnce ==
  ASSUME NEW pre \in Texts, NEW old \in Texts, NEW post \in Texts, NEW new \in Texts,
         old # <<>>, NEW S, old \in Seq(S), Ends(pre, S),
         ~ Project!Holds(pre, old), ~ Project!Holds(post, old)
  PROVE  Project!Replace(Around(pre, old, post), old, new) = Around(pre, new, post)
<1>1. /\ Len(pre) \in Nat /\ Len(old) \in Nat \ {0} /\ Len(post) \in Nat
      /\ DOMAIN pre = 1 .. Len(pre) /\ DOMAIN old = 1 .. Len(old) /\ DOMAIN post = 1 .. Len(post)
  BY DEF Texts
<1>2. PICK text \in Texts : text = Around(pre, old, post) /\ IsAround(text, pre, old, post)
  BY AroundHas
<1>3. /\ Len(text) = Len(pre) + Len(old) + Len(post)
      /\ \A i \in 1 .. Len(pre) : text[i] = pre[i]
      /\ \A i \in 1 .. Len(old) : text[Len(pre) + i] = old[i]
      /\ \A i \in 1 .. Len(post) : text[Len(pre) + Len(old) + i] = post[i]
  BY <1>2 DEF IsAround
<1>4. PICK f : Replaces(f, text, old, new, 1) /\ Project!Replace(text, old, new) = f[1]
  BY ReplaceIs
<1>5. Len(text) \in Nat
  BY DEF Texts
<1>6. PICK m \in 1 .. Len(text) : m = Len(pre) + 1
  BY <1>1, <1>3
<1>7. PICK n \in 1 .. Len(text) + 1 : n = m + Len(old)
  BY <1>1, <1>3, <1>6
<1>8. PICK end \in 1 .. Len(text) + 1 : end = Len(text) + 1
  BY <1>5
<1>9. /\ m = Len(pre) + 1 /\ n = m + Len(old) /\ end = Len(text) + 1
      /\ Len(pre) = m - 1 /\ Len(text) = end - 1 /\ 1 \in 1 .. m /\ n \in 1 .. end
      /\ m \in 1 .. Len(text) + 1
  BY <1>1, <1>5, <1>6, <1>7, <1>8
<1>10. Keeps(f, text, 1, Len(pre), m)
  <2>1. \A i \in 1 .. Len(pre) : ~ Project!Occurs(old, text, i)
    BY <1>2, NotBefore
  <2> QED BY <2>1, <1>4, <1>9, ReplaceSkips
<1>11. f[m] = new \o f[n]
  <2>1. Project!Occurs(old, text, m)
    <3>1. \A k \in 1 .. Len(old) : text[m + k - 1] = old[k]
      <4> TAKE k \in 1 .. Len(old)
      <4>1. m + k - 1 = Len(pre) + k
        BY <1>1, <1>9
      <4> QED BY <4>1, <1>3
    <3>2. m + Len(old) <= Len(text) + 1
      BY <1>9
    <3> QED BY <3>1, <3>2, <1>1, Zenon DEF Project!Occurs
  <2>2. f[m] = From(f, text, old, new, m) /\ ~ (m > Len(text))
    BY <1>1, <1>3, <1>4, <1>9 DEF Replaces
  <2> QED BY <2>1, <2>2, <1>9 DEF From
<1>12. Keeps(f, text, n, Len(text), end)
  <2>1. \A i \in n .. Len(text) : ~ Project!Occurs(old, text, i)
    <3>1. n = Len(pre) + Len(old) + 1
      BY <1>1, <1>9
    <3> QED BY <3>1, <1>2, NotAfter
  <2> QED BY <2>1, <1>4, <1>9, ReplaceSkips
<1>13. f[end] = <<>>
  <2>1. f[end] = From(f, text, old, new, end) /\ end > Len(text)
    BY <1>1, <1>3, <1>4, <1>9 DEF Replaces
  <2> QED BY <2>1 DEF From
<1>14. SubSeq(text, 1, Len(pre)) = pre
  <2>1. PICK t \in Texts : t = old \o post
    BY ConcatProperties DEF Texts
  <2>2. CASE pre = <<>>
    <3>1. Len(pre) = 0
      BY <2>2
    <3> QED BY <2>2, <3>1, SubSeqEmpty
  <2>3. CASE pre # <<>>
    <3>1. text = pre \o t /\ Len(pre) \in 1 .. Len(pre) /\ 1 \in 1 .. Len(pre)
      BY <2>1, <2>3, <1>1, <1>2, <1>9 DEF Around, Texts
    <3>2. SubSeq(text, 1, Len(pre)) = SubSeq(pre, 1, Len(pre))
      BY <3>1, <2>1, SubSeqOfConcat1 DEF Texts
    <3> QED BY <3>2, SubSeqFull DEF Texts
  <2> QED BY <2>2, <2>3
<1>15. SubSeq(text, n, Len(text)) = post
  <2>1. \A i \in n .. Len(text) : text[i] \in Letters
    BY <1>9 DEF Texts
  <2>2. n \in Int /\ Len(text) \in Int
    BY <1>9
  <2>3. PICK t \in Texts : t = SubSeq(text, n, Len(text))
    BY <2>1, <2>2, SubSeqProperties DEF Texts
  <2>4. /\ Len(t) = IF n <= Len(text) THEN Len(text) - n + 1 ELSE 0
        /\ \A i \in 1 .. Len(text) - n + 1 : t[i] = text[n + i - 1]
    BY <2>1, <2>2, <2>3, SubSeqProperties DEF Texts
  <2>5. Len(t) = Len(post)
    BY <2>4, <1>1, <1>3, <1>9
  <2>6. ASSUME NEW i \in 1 .. Len(post) PROVE t[i] = post[i]
    <3>1. i \in 1 .. Len(text) - n + 1 /\ n + i - 1 = Len(pre) + Len(old) + i
      BY <1>1, <1>3, <1>9
    <3> QED BY <3>1, <2>4, <1>3
  <2> QED BY <2>3, <2>5, <2>6, SeqEqual DEF Texts
<1>16. f[n] = post /\ f[m] = new \o post
  BY <1>11, <1>12, <1>13, <1>15, ConcatEmptySeq DEF Texts, Keeps
<1> QED BY <1>2, <1>4, <1>10, <1>14, <1>16 DEF Around, Keeps

\* A part that is held with what stands around it, and not by that, is held
\* without it.
LEMMA HoldsAround ==
  ASSUME NEW S, NEW pre \in Texts, NEW mid \in Texts, NEW post \in Texts,
         NEW part \in Seq(S), part \in Texts, part # <<>>,
         Ends(pre, S), Begins(post, S),
         ~ Project!Holds(pre, part), ~ Project!Holds(post, part),
         Project!Holds(Around(pre, mid, post), part)
  PROVE  Project!Holds(mid, part)
<1>1. /\ Len(pre) \in Nat /\ Len(mid) \in Nat /\ Len(post) \in Nat /\ Len(part) \in Nat \ {0}
      /\ DOMAIN mid = 1 .. Len(mid) /\ DOMAIN part = 1 .. Len(part)
  BY EmptySeq, LenProperties DEF Texts
<1>2. PICK whole \in Texts : whole = Around(pre, mid, post) /\ IsAround(whole, pre, mid, post)
  BY AroundHas
<1>3. /\ Len(whole) = Len(pre) + Len(mid) + Len(post) /\ DOMAIN whole = 1 .. Len(whole)
      /\ \A i \in 1 .. Len(mid) : whole[Len(pre) + i] = mid[i]
      /\ \A i \in 1 .. Len(post) : whole[Len(pre) + Len(mid) + i] = post[i]
  <2>1. DOMAIN whole = 1 .. Len(whole)
    BY LenProperties DEF Texts
  <2> QED BY <2>1, <1>2 DEF IsAround
<1>4. PICK i \in 1 .. Len(whole) : Project!Occurs(part, whole, i)
  BY <1>2, <1>3 DEF Project!Holds
<1>5. /\ i + Len(part) <= Len(whole) + 1
      /\ \A k \in 1 .. Len(part) : whole[i + k - 1] = part[k]
  BY <1>1, <1>4 DEF Project!Occurs
<1>6. ~ (i <= Len(pre))
  BY <1>1, <1>2, <1>4, NotBefore
<1>7. ~ (i >= Len(pre) + Len(mid) + 1)
  BY <1>1, <1>2, <1>4, NotAfter
<1>8. PICK m \in 1 .. Len(mid) : i = Len(pre) + m
  <2>1. i - Len(pre) \in 1 .. Len(mid) /\ i = Len(pre) + (i - Len(pre))
    BY <1>1, <1>6, <1>7
  <2> QED BY <2>1
<1>9. m + Len(part) <= Len(mid) + 1
  <2>1. SUFFICES ASSUME ~ (m + Len(part) <= Len(mid) + 1) PROVE FALSE
    OBVIOUS
  <2>2. PICK k \in 1 .. Len(part) : i + k - 1 = Len(pre) + Len(mid) + 1
    <3>1. Len(mid) - m + 2 \in 1 .. Len(part)
      BY <2>1, <1>1
    <3>2. i + (Len(mid) - m + 2) - 1 = Len(pre) + Len(mid) + 1
      BY <1>1, <1>8
    <3> QED BY <3>1, <3>2
  <2>3. part[k] \in S
    BY ElementOfSeq
  <2>4. 1 \in 1 .. Len(post)
    BY <2>2, <1>1, <1>3, <1>5
  <2>5. post[1] = part[k]
    BY <2>2, <2>4, <1>3, <1>5
  <2>6. post # <<>>
    BY <2>4
  <2> QED BY <2>3, <2>5, <2>6 DEF Begins
<1>10. ASSUME NEW k \in 1 .. Len(part) PROVE mid[m + k - 1] = part[k]
  <2>1. PICK l \in 1 .. Len(mid) : l = m + k - 1
    BY <1>1, <1>8, <1>9
  <2>2. i + k - 1 = Len(pre) + l
    BY <2>1, <1>1, <1>8
  <2> QED BY <2>1, <2>2, <1>3, <1>5
<1>11. Project!Occurs(part, mid, m)
  BY <1>1, <1>9, <1>10 DEF Project!Occurs
<1> QED BY <1>1, <1>11 DEF Project!Holds

\* A text that has a token the other lacks is not held by it.
LEMMA Missing ==
  ASSUME NEW x, NEW text \in Seq(Letters \ {x}), NEW part \in Texts, NEW k \in DOMAIN part,
         part[k] = x
  PROVE  ~ Project!Holds(text, part)
<1>1. SUFFICES ASSUME NEW i \in 1 .. Len(text), Project!Occurs(part, text, i) PROVE FALSE
  <2>1. DOMAIN text = 1 .. Len(text)
    BY LenProperties
  <2> QED BY <2>1 DEF Project!Holds
<1>2. k \in 1 .. Len(part) /\ Len(part) \in Nat /\ Len(text) \in Nat
  BY DEF Texts
<1>3. i + Len(part) <= Len(text) + 1 /\ text[i + k - 1] = x
  BY <1>1 DEF Project!Occurs
<1>4. i + k - 1 \in 1 .. Len(text)
  BY <1>2, <1>3
<1>5. \A j \in 1 .. Len(text) : text[j] # x
  OBVIOUS
<1> QED BY <1>3, <1>4, <1>5

LEMMA AroundOf ==
  ASSUME NEW S, NEW pre \in Seq(S), NEW mid \in Seq(S), NEW post \in Seq(S)
  PROVE  Around(pre, mid, post) \in Seq(S)
BY DEF Around

HasToken(text, x) == \E k \in DOMAIN text : text[k] = x

\* Nothing of a text that has none of the tokens of another is replaced.
LEMMA ReplaceApart ==
  ASSUME NEW x \in Letters, NEW text \in Seq(Letters \ {x}), NEW old \in Texts, NEW new \in Texts,
         HasToken(old, x)
  PROVE  Project!Replace(text, old, new) = text
<1>1. PICK k \in DOMAIN old : old[k] = x
  BY DEF HasToken
<1>2. text \in Texts
  BY SeqMonotonic, Letters \ {x} \subseteq Letters DEF Texts
<1>3. old # <<>>
  <2>1. DOMAIN <<>> = {}
    OBVIOUS
  <2> QED BY <2>1
<1>4. ~ Project!Holds(text, old)
  BY <1>1, Missing
<1> QED BY <1>2, <1>4, <1>3, ReplaceNone

LEMMA OneToken ==
  ASSUME NEW S, NEW x \in S
  PROVE  <<x>> \in Seq(S) /\ Len(<<x>>) = 1 /\ <<x>>[1] = x /\ DOMAIN <<x>> = 1 .. 1
OBVIOUS

\* A token after a text, and one before it.
LEMMA TokenAfter ==
  ASSUME NEW S, NEW w \in Seq(S), NEW x \in S
  PROVE  /\ w \o <<x>> \in Seq(S) /\ Len(w \o <<x>>) \in Nat \ {0}
         /\ (w \o <<x>>)[Len(w \o <<x>>)] = x
<1>1. PICK o \in Seq(S) : o = <<x>> /\ Len(o) = 1 /\ o[1] = x
  BY OneToken
<1>2. PICK n \in Nat : n = Len(w)
  BY LenProperties
<1>3. /\ w \o o \in Seq(S) /\ Len(w \o o) = n + 1
      /\ \A i \in 1 .. n + 1 : (w \o o)[i] = IF i <= n THEN w[i] ELSE o[i - n]
  BY <1>1, <1>2, ConcatProperties
<1>4. n + 1 \in 1 .. n + 1 /\ ~ (n + 1 <= n) /\ (n + 1) - n = 1 /\ n + 1 \in Nat \ {0}
  OBVIOUS
<1>5. (w \o o)[n + 1] = x
  BY <1>1, <1>3, <1>4
<1> QED BY <1>1, <1>3, <1>4, <1>5

LEMMA TokenBefore ==
  ASSUME NEW S, NEW w \in Seq(S), NEW x \in S
  PROVE  /\ <<x>> \o w \in Seq(S) /\ Len(<<x>> \o w) = Len(w) + 1 /\ Len(<<x>> \o w) \in Nat \ {0}
         /\ (<<x>> \o w)[1] = x
         /\ \A i \in 1 .. Len(w) : (<<x>> \o w)[i + 1] = w[i]
<1>1. PICK o \in Seq(S) : o = <<x>> /\ Len(o) = 1 /\ o[1] = x
  BY OneToken
<1>2. PICK n \in Nat : n = Len(w)
  BY LenProperties
<1>3. /\ o \o w \in Seq(S) /\ Len(o \o w) = 1 + n
      /\ \A i \in 1 .. 1 + n : (o \o w)[i] = IF i <= 1 THEN o[i] ELSE w[i - 1]
  BY <1>1, <1>2, ConcatProperties
<1>4. 1 + n \in Nat \ {0} /\ 1 + n = n + 1 /\ 1 \in 1 .. 1 + n
  OBVIOUS
<1>5. ASSUME NEW i \in 1 .. n PROVE (o \o w)[i + 1] = w[i]
  <2>1. i + 1 \in 1 .. 1 + n /\ ~ (i + 1 <= 1) /\ (i + 1) - 1 = i
    OBVIOUS
  <2> QED BY <2>1, <1>3
<1> QED BY <1>1, <1>2, <1>3, <1>4, <1>5

-----------------------------------------------------------------------------
(* Names and module paths                                                  *)

\* What a name is made of, and what the rest of a line is.
NameTokens == Letters \ (Marks \cup Hosts)

Plain == Letters \ (Hosts \cup {"#", "-", Project!Underscore})

\* What stands next to a name or module path.
Bounds == {"/", ":", " ", Project!Quote}

LEMMA LettersAre ==
  /\ Marks \subseteq Letters /\ STRING \subseteq Letters /\ "-" \in Letters
  /\ "/" \in Letters /\ Project!Quote \in Letters
  /\ NameTokens \subseteq Letters /\ Plain \subseteq Letters
  /\ Bounds \subseteq Marks \ {"#", Project!Underscore} /\ Bounds \cap NameTokens = {}
  /\ Bounds \cap Hosts = {} /\ Bounds \subseteq Plain
  /\ NameTokens \subseteq Letters \ (Bounds \cup Hosts \cup {"#", Project!Underscore})
  /\ {"#", Project!Underscore} \subseteq Marks
  /\ "/" # Project!Quote /\ "/" # "#" /\ "#" # Project!Underscore /\ "#" # Project!Quote
  /\ ":" # Project!Quote /\ " " # Project!Quote /\ "-" # Project!Underscore
<1>1. /\ "-" \notin Marks /\ "/" # Project!Quote /\ "/" # "#" /\ "#" # Project!Underscore
      /\ "#" # Project!Quote /\ ":" # Project!Quote /\ " " # Project!Quote
      /\ "-" # Project!Underscore
  BY Zenon DEF Marks, Project!Quote, Project!Underscore
<1>2. Bounds \subseteq Marks \ {"#", Project!Underscore}
  <2>1. "#" \notin Bounds /\ Project!Underscore \notin Bounds
    BY Zenon DEF Bounds, Project!Quote, Project!Underscore
  <2> QED BY <2>1 DEF Bounds, Marks
<1>3. "/" \in Letters /\ Project!Quote \in Letters
  BY DEF Letters, Marks
<1>4. Marks \cap Hosts = {}
  BY IdentityAssumption
<1>5. /\ Marks \subseteq Letters /\ STRING \subseteq Letters /\ "-" \in Letters
      /\ {"#", Project!Underscore} \subseteq Marks
  BY DEF Letters, Marks
<1> QED BY <1>1, <1>2, <1>3, <1>4, <1>5 DEF NameTokens, Plain

LEMMA IdentityHas ==
  ASSUME NEW p \in Identities
  PROVE  /\ p.name \in Seq(NameTokens) /\ p.name \in Texts /\ p.name # <<>>
         /\ p.module \in Texts /\ p.module # <<>>
         /\ p.module \in Seq(Letters \ {"#", " ", Project!Quote})
         /\ p.module # p.name =>
              \E i \in DOMAIN p.module : p.module[i] \in Hosts \/ (i > 1 /\ p.module[i] = "/")
<1> DEFINE A == Letters \ {"#", " ", Project!Quote}
<1>0. /\ p.name \in Seq(STRING \ (Marks \cup Hosts)) /\ p.name # <<>>
      /\ p.module \in Seq(STRING \ {"#", " ", Project!Quote}) /\ p.module # <<>>
      /\ p.module # p.name =>
           \E i \in DOMAIN p.module : p.module[i] \in Hosts \/ (i > 1 /\ p.module[i] = "/")
  BY IdentityAssumption, Zenon
<1>1. p.name \in Seq(NameTokens) /\ p.module \in Seq(A)
  <2>1. STRING \subseteq Letters
    BY DEF Letters
  <2>2. /\ STRING \ (Marks \cup Hosts) \subseteq NameTokens
        /\ STRING \ {"#", " ", Project!Quote} \subseteq A
    BY <2>1 DEF NameTokens
  <2> HIDE DEF A
  <2> QED BY <1>0, <2>2, SeqMonotonic, Zenon
<1>2. p.name \in Texts /\ p.module \in Texts
  <2>1. NameTokens \subseteq Letters /\ A \subseteq Letters
    BY LettersAre
  <2> QED BY <1>1, <2>1, SeqMonotonic, Zenon DEF Texts
<1> QED BY <1>0, <1>1, <1>2

\* A name with a dash has an underscored form with an underscore; any other is
\* its own underscored form.
LEMMA UnderscoredHas ==
  ASSUME NEW name \in Seq(NameTokens), name # <<>>
  PROVE  /\ Project!Underscored(name) \in Seq((NameTokens \cup {Project!Underscore}) \ {"-"})
         /\ Project!Underscored(name) \in Texts /\ Project!Underscored(name) # <<>>
         /\ \/ Project!Underscored(name) = name
            \/ HasToken(name, "-") /\ HasToken(Project!Underscored(name), Project!Underscore)
<1> DEFINE u == Project!Underscored(name)
<1>1. DOMAIN name = 1 .. Len(name) /\ Len(name) \in Nat \ {0}
  BY EmptySeq, LenProperties
<1>2. /\ DOMAIN u = 1 .. Len(name)
      /\ \A i \in 1 .. Len(name) : u[i] = IF name[i] = "-" THEN Project!Underscore ELSE name[i]
  BY <1>1 DEF Project!Underscored
<1>3. u \in Seq((NameTokens \cup {Project!Underscore}) \ {"-"})
  <2>1. u = [i \in 1 .. Len(name) |-> IF name[i] = "-" THEN Project!Underscore ELSE name[i]]
    BY <1>1 DEF Project!Underscored
  <2>2. \A i \in 1 .. Len(name) : name[i] \in NameTokens
    BY ElementOfSeq
  <2>3. Project!Underscore # "-"
    BY Zenon DEF Project!Underscore
  <2>4. u \in [1 .. Len(name) -> (NameTokens \cup {Project!Underscore}) \ {"-"}]
    BY <2>1, <2>2, <2>3
  <2> HIDE DEF u
  <2> QED BY <2>4, <1>1
<1>4. u \in Texts
  <2>1. (NameTokens \cup {Project!Underscore}) \ {"-"} \subseteq Letters
    BY LettersAre
  <2> QED BY <1>3, <2>1, SeqMonotonic, Zenon DEF Texts
<1>5. u # <<>>
  <2>1. 1 \in DOMAIN u
    BY <1>1, <1>2
  <2>2. DOMAIN <<>> = {}
    OBVIOUS
  <2> QED BY <2>1, <2>2
<1>6. ASSUME \A k \in 1 .. Len(name) : name[k] # "-" PROVE u = name
  <2>1. u = [i \in 1 .. Len(name) |-> name[i]]
    BY <1>1, <1>6 DEF Project!Underscored
  <2>2. name = [i \in 1 .. Len(name) |-> name[i]]
    BY <1>1, LenProperties
  <2> QED BY <2>1, <2>2
<1> HIDE DEF u
<1>7. u = name \/ \E k \in DOMAIN name : name[k] = "-" /\ k \in DOMAIN u /\ u[k] = Project!Underscore
  BY <1>1, <1>2, <1>6
<1> QED BY <1>3, <1>4, <1>5, <1>7 DEF u, HasToken

\* Where the name is not held, neither is its underscored form.
LEMMA DatabaseKept ==
  ASSUME NEW p \in Identities, NEW text \in Seq(Letters \ {Project!Underscore}), NEW new \in Texts,
         ~ Project!Holds(text, p.name)
  PROVE  Project!Replace(text, Project!Underscored(p.name), new) = text
<1> DEFINE u == Project!Underscored(p.name)
<1>1. /\ u \in Texts /\ u # <<>> /\ text \in Texts /\ p.name \in Texts /\ p.name # <<>>
      /\ u = p.name \/ HasToken(u, Project!Underscore)
  <2>1. text \in Texts
    BY SeqMonotonic, Letters \ {Project!Underscore} \subseteq Letters DEF Texts
  <2> QED BY <2>1, IdentityHas, UnderscoredHas
<1>2. Project!Underscore \in Letters
  BY LettersAre
<1> HIDE DEF u
<1>3. Project!Replace(text, u, new) = text
  <2>1. CASE u = p.name
    BY <1>1, <2>1, ReplaceNone
  <2>2. CASE HasToken(u, Project!Underscore)
    BY <1>1, <1>2, <2>2, ReplaceApart
  <2> QED BY <1>1, <2>1, <2>2
<1> QED BY <1>3 DEF u

-----------------------------------------------------------------------------
(* What stands around a name or module path                                *)

\* A word of the program has no mark, dash or host.
LEMMA WordIs ==
  ASSUME NEW w \in Project!Words
  PROVE  Spelling[w] \in Seq(Plain \ Bounds)
<1>1. Spelling[w] \in Seq(STRING \ (Marks \cup Hosts \cup {"-"}))
  BY IdentityAssumption
<1>2. STRING \ (Marks \cup Hosts \cup {"-"}) \subseteq Plain \ Bounds
  BY LettersAre DEF Plain
<1> QED BY <1>1, <1>2, SeqMonotonic

\* What comes after a name in quotes: a mark and words, up to the quote.
Rest(kind) ==
  IF kind = "import" THEN Spelling["internal"]
  ELSE Spelling["local"] \o <<":">> \o Spelling["auth"] \o <<":">> \o Spelling["app"] \o <<":">>

Mark(kind) == IF kind = "import" THEN "/" ELSE ":"

LEMMA RestIs ==
  ASSUME NEW kind \in {"import", "prefix"}
  PROVE  /\ Mark(kind) \in Bounds \ {Project!Quote} /\ (kind = "prefix" => Mark(kind) # "/")
         /\ Rest(kind) \in Seq(Plain \ {"/", Project!Quote})
         /\ Project!After(kind) = <<Mark(kind)>> \o (Rest(kind) \o <<Project!Quote>>)
<1> DEFINE P == Plain \ {"/", Project!Quote}
<1>1. /\ Mark(kind) \in Bounds \ {Project!Quote} /\ (kind = "prefix" => Mark(kind) # "/")
      /\ ":" \in P
  <2>1. ":" # "/"
    BY Zenon
  <2> QED BY <2>1, LettersAre DEF Mark, Bounds
<1>2. /\ Spelling["internal"] \in Seq(P) /\ Spelling["local"] \in Seq(P)
      /\ Spelling["auth"] \in Seq(P) /\ Spelling["app"] \in Seq(P)
  <2>1. Plain \ Bounds \subseteq P
    BY DEF Bounds
  <2>2. {"internal", "local", "auth", "app"} \subseteq Project!Words
    BY DEF Project!Words
  <2> QED BY <2>1, <2>2, WordIs, SeqMonotonic
<1>3. Rest(kind) \in Seq(P)
  <2>1. <<":">> \in Seq(P)
    BY <1>1
  <2> HIDE DEF P
  <2> QED BY <2>1, <1>2, ConcatProperties DEF Rest
<1>4. Project!After(kind) = <<Mark(kind)>> \o (Rest(kind) \o <<Project!Quote>>)
  <2>1. CASE kind = "import"
    BY <2>1, Zenon DEF Project!After, Rest, Mark
  <2>2. CASE kind = "prefix"
    <3>1. kind # "import" /\ kind # "literal"
      BY <2>2, Zenon
    <3> QED BY <2>2, <3>1, Zenon DEF Project!After, Rest, Mark
  <2> QED BY <2>1, <2>2
<1> QED BY <1>1, <1>3, <1>4

\* What stands before a name or module path ends with a mark, and what stands
\* after it begins with one; only in an import is there a slash.
LEMMA BeforeIs ==
  ASSUME NEW kind \in Project!Kinds
  PROVE  /\ Project!Before(kind) \in Seq(Plain \ {"/"})
         /\ Len(Project!Before(kind)) \in Nat \ {0}
         /\ Project!Before(kind)[Len(Project!Before(kind))] \in {":", " ", Project!Quote}
         /\ kind \in {"import", "module"} =>
              Project!Before(kind)[Len(Project!Before(kind))] \in {" ", Project!Quote}
         /\ kind \in {"name", "database"} => Project!Before(kind) \in Seq(Letters \ {Project!Quote})
         /\ kind \in {"import", "literal", "prefix"} => Project!Before(kind) = <<Project!Quote>>
<1> DEFINE P == Plain \ {"/"}
           marks == {":", " ", Project!Quote}
<1>1. marks \subseteq P
  <2>1. ":" # "/" /\ " " # "/" /\ Project!Quote # "/"
    BY Zenon DEF Project!Quote
  <2> QED BY <2>1, LettersAre DEF Bounds
<1>2. /\ Spelling["module"] \in Seq(P) /\ Spelling["name"] \in Seq(P)
      /\ Spelling["user"] \in Seq(P)
  <2>1. Plain \ Bounds \subseteq P
    BY DEF Bounds
  <2>2. {"module", "name", "user"} \subseteq Project!Words
    BY DEF Project!Words
  <2> HIDE DEF P
  <2> QED BY <2>1, <2>2, WordIs, SeqMonotonic
<1> HIDE DEF P
<1>3. ASSUME NEW w \in Seq(P), NEW x \in marks
      PROVE  /\ w \o <<x>> \in Seq(P) /\ Len(w \o <<x>>) \in Nat \ {0}
             /\ (w \o <<x>>)[Len(w \o <<x>>)] = x
  <2>1. x \in P
    BY <1>1
  <2> QED BY <2>1, TokenAfter, Zenon
<1>4. /\ <<Project!Quote>> \in Seq(P) /\ Len(<<Project!Quote>>) = 1
      /\ <<Project!Quote>>[1] = Project!Quote
  BY <1>1, OneToken
<1>5. /\ kind = "module" => Project!Before(kind) = Spelling["module"] \o <<" ">>
      /\ kind = "name" => Project!Before(kind) = Spelling["name"] \o <<":">>
      /\ kind = "database" => Project!Before(kind) = Spelling["user"] \o <<":">>
      /\ kind \notin {"module", "name", "database"} => Project!Before(kind) = <<Project!Quote>>
  <2>1. CASE kind = "module"
    BY <2>1, Zenon DEF Project!Before, Project!Directive
  <2>2. CASE kind = "name"
    <3>1. kind # "module" /\ kind # "database"
      BY <2>2, Zenon
    <3> QED BY <2>2, <3>1, Zenon DEF Project!Before
  <2>3. CASE kind = "database"
    <3>1. kind # "module" /\ kind # "name"
      BY <2>3, Zenon
    <3> QED BY <2>3, <3>1, Zenon DEF Project!Before
  <2>4. CASE kind \notin {"module", "name", "database"}
    BY <2>4, Zenon DEF Project!Before
  <2> QED BY <2>1, <2>2, <2>3, <2>4
<1> DEFINE Bounded(t) == /\ t \in Seq(P) /\ Len(t) \in Nat \ {0} /\ t[Len(t)] \in marks
                         /\ kind \in {"import", "module"} => t[Len(t)] \in {" ", Project!Quote}
<1>6. ASSUME kind = "module" PROVE Bounded(Project!Before(kind))
  <2>1. Bounded(Spelling["module"] \o <<" ">>)
    BY <1>2, <1>3
  <2> QED BY <2>1, <1>5, <1>6
<1>7. ASSUME kind = "name" PROVE Bounded(Project!Before(kind))
  <2>1. Bounded(Spelling["name"] \o <<":">>)
    BY <1>2, <1>3, <1>7
  <2> QED BY <2>1, <1>5, <1>7
<1>8. ASSUME kind = "database" PROVE Bounded(Project!Before(kind))
  <2>1. Bounded(Spelling["user"] \o <<":">>)
    BY <1>2, <1>3, <1>8
  <2> QED BY <2>1, <1>5, <1>8
<1>9. ASSUME kind \notin {"module", "name", "database"} PROVE Bounded(Project!Before(kind))
  <2>1. Bounded(<<Project!Quote>>)
    BY <1>4
  <2> QED BY <2>1, <1>5, <1>9
<1>10. ASSUME kind \in {"name", "database"}
       PROVE  Project!Before(kind) \in Seq(Letters \ {Project!Quote})
  <2>1. PICK w \in {"name", "user"} : Project!Before(kind) = Spelling[w] \o <<":">>
    BY <1>5, <1>10
  <2>2. Plain \ Bounds \subseteq Letters \ {Project!Quote} /\ ":" \in Letters \ {Project!Quote}
    BY LettersAre DEF Bounds
  <2>3. Spelling[w] \in Seq(Plain \ Bounds)
    <3>1. w \in Project!Words
      BY DEF Project!Words
    <3> QED BY <3>1, WordIs
  <2>4. Spelling[w] \in Seq(Letters \ {Project!Quote})
    BY <2>2, <2>3, SeqMonotonic
  <2> QED BY <2>1, <2>2, <2>4, TokenAfter
<1>11. kind \in {"import", "literal", "prefix"} => Project!Before(kind) = <<Project!Quote>>
  BY <1>5, Zenon
<1>12. Bounded(Project!Before(kind))
  <2> HIDE DEF Bounded
  <2> QED BY <1>6, <1>7, <1>8, <1>9
<1> QED BY <1>10, <1>11, <1>12 DEF P

LEMMA AfterIs ==
  ASSUME NEW kind \in Project!Kinds
  PROVE  /\ Project!After(kind) \in Seq(Plain)
         /\ kind # "import" => Project!After(kind) \in Seq(Plain \ {"/"})
         /\ \/ Project!After(kind) = <<>>
            \/ Len(Project!After(kind)) \in Nat \ {0} /\ Project!After(kind)[1] \in Bounds
         /\ kind = "literal" => Project!After(kind) = <<Project!Quote>>
         /\ kind \in {"module", "name", "database"} => Project!After(kind) = <<>>
<1> DEFINE P == Plain \ {"/"}
           Bounded(t) == /\ t \in Seq(Plain)
                         /\ kind # "import" => t \in Seq(P)
                         /\ t = <<>> \/ (Len(t) \in Nat \ {0} /\ t[1] \in Bounds)
<1>1. P \subseteq Plain /\ Bounds \subseteq Plain /\ Project!Quote \in P /\ Project!Quote \in Bounds
  BY LettersAre DEF Bounds
<1>2. ASSUME kind \in {"import", "prefix"} PROVE Bounded(Project!After(kind))
  <2>1. PICK Q : Q = IF kind = "import" THEN Plain ELSE P
    OBVIOUS
  <2>2. PICK r \in Seq(Q) : r = Rest(kind)
    <3>1. Plain \ {"/", Project!Quote} \subseteq Q
      BY <1>1, <2>1
    <3>2. Rest(kind) \in Seq(Plain \ {"/", Project!Quote})
      BY <1>2, RestIs
    <3> QED BY <3>1, <3>2, SeqMonotonic
  <2>3. PICK m \in Q : m = Mark(kind) /\ m \in Bounds
    BY <1>1, <1>2, <2>1, RestIs
  <2>4. Project!Quote \in Q
    BY <1>1, <2>1
  <2>5. PICK t \in Seq(Q) : t = r \o <<Project!Quote>>
    BY <2>4, TokenAfter
  <2>6. /\ <<m>> \o t \in Seq(Q) /\ Len(<<m>> \o t) \in Nat \ {0} /\ (<<m>> \o t)[1] = m
    BY TokenBefore
  <2>7. Project!After(kind) = <<m>> \o t
    BY <1>2, <2>2, <2>3, <2>5, RestIs
  <2>8. Project!After(kind) \in Seq(Plain)
    BY <2>6, <2>7, <2>1, <1>1, SeqMonotonic
  <2> QED BY <2>1, <2>3, <2>6, <2>7, <2>8
<1>3. ASSUME kind = "literal" PROVE Bounded(Project!After(kind)) /\ Project!After(kind) = <<Project!Quote>>
  <2>1. kind # "import" /\ kind # "prefix"
    BY <1>3, Zenon
  <2>2. Project!After(kind) = <<Project!Quote>>
    BY <1>3, <2>1, Zenon DEF Project!After
  <2>3. <<Project!Quote>> \in Seq(P) /\ <<Project!Quote>> \in Seq(Plain)
    BY <1>1
  <2> QED BY <1>1, <2>2, <2>3
<1>4. ASSUME kind \notin {"import", "prefix", "literal"}
      PROVE  Bounded(Project!After(kind)) /\ Project!After(kind) = <<>>
  <2>1. Project!After(kind) = <<>>
    BY <1>4, Zenon DEF Project!After
  <2> QED BY <2>1
<1>5. Bounded(Project!After(kind))
  <2> HIDE DEF Bounded
  <2> QED BY <1>2, <1>3, <1>4
<1> QED BY <1>3, <1>4, <1>5

\* No name reaches into what stands around it.
LEMMA FrameIs ==
  ASSUME NEW kind \in Project!Kinds
  PROVE  /\ Project!Before(kind) \in Seq(Plain) /\ Project!After(kind) \in Seq(Plain)
         /\ Project!Before(kind) \in Texts /\ Project!After(kind) \in Texts
         /\ \A S : S \cap Bounds = {} =>
              Ends(Project!Before(kind), S) /\ Begins(Project!After(kind), S)
<1>1. Plain \subseteq Letters /\ Plain \ {"/"} \subseteq Plain
  BY LettersAre
<1>2. Project!Before(kind) \in Seq(Plain) /\ Project!After(kind) \in Seq(Plain)
  BY <1>1, BeforeIs, AfterIs, SeqMonotonic, Zenon
<1>3. Project!Before(kind) \in Texts /\ Project!After(kind) \in Texts
  BY <1>1, <1>2, SeqMonotonic, Zenon DEF Texts
<1>4. ASSUME NEW S, S \cap Bounds = {}
      PROVE  Ends(Project!Before(kind), S) /\ Begins(Project!After(kind), S)
  <2>1. Project!Before(kind)[Len(Project!Before(kind))] \in Bounds
    BY BeforeIs DEF Bounds
  <2>2. Project!After(kind) = <<>> \/ Project!After(kind)[1] \in Bounds
    BY AfterIs
  <2> QED BY <2>1, <2>2, <1>4 DEF Ends, Begins
<1> QED BY <1>2, <1>3, <1>4

\* Lines are texts.
LEMMA FramedIs ==
  ASSUME NEW kind \in Project!Kinds, NEW S, Plain \subseteq S, S \subseteq Letters,
         NEW mid \in Seq(S)
  PROVE  /\ Around(Project!Before(kind), mid, Project!After(kind)) \in Seq(S)
         /\ Around(Project!Before(kind), mid, Project!After(kind)) \in Texts
<1>1. PICK pre \in Seq(S), post \in Seq(S) :
        pre = Project!Before(kind) /\ post = Project!After(kind)
  <2>1. Project!Before(kind) \in Seq(S) /\ Project!After(kind) \in Seq(S)
    BY FrameIs, SeqMonotonic, Zenon
  <2> QED BY <2>1
<1>2. Around(pre, mid, post) \in Seq(S)
  BY AroundOf
<1>3. Around(pre, mid, post) \in Texts
  BY <1>2, SeqMonotonic, Zenon DEF Texts
<1> QED BY <1>1, <1>2, <1>3

LEMMA NewHas ==
  ASSUME NEW p \in Identities
  PROVE  /\ p.name \in Seq(Letters \ {"#", Project!Underscore})
         /\ Project!Underscored(p.name) \in Seq(Letters \ {"#", "-"})
<1>1. p.name \in Seq(NameTokens) /\ p.name # <<>>
  BY IdentityHas
<1>2. NameTokens \subseteq Letters \ {"#", Project!Underscore}
  BY LettersAre
<1>3. (NameTokens \cup {Project!Underscore}) \ {"-"} \subseteq Letters \ {"#", "-"}
  BY <1>2, LettersAre
<1> QED BY <1>1, <1>2, <1>3, UnderscoredHas, SeqMonotonic

\* The placeholder is one token.
LEMMA PlaceholderIs ==
  /\ Project!Placeholder \in Texts /\ Project!Placeholder # <<>>
  /\ Project!Placeholder \in Seq({"#"})
  /\ 1 \in DOMAIN Project!Placeholder /\ Project!Placeholder[1] = "#" /\ "#" \in Letters
  /\ HasToken(Project!Placeholder, "#")
<1>1. "#" \in Letters
  BY LettersAre
<1> QED BY <1>1 DEF Project!Placeholder, Texts, HasToken

\* What stands around a name holds neither the placeholder nor a database name with
\* an underscore.
LEMMA FrameHoldsNone ==
  ASSUME NEW text \in Seq(Plain), NEW part \in Texts, NEW x \in {"#", "-", Project!Underscore},
         HasToken(part, x)
  PROVE  ~ Project!Holds(text, part)
<1>1. PICK k \in DOMAIN part : part[k] = x
  BY DEF HasToken
<1>2. text \in Seq(Letters \ {x})
  <2>1. Plain \subseteq Letters \ {x}
    BY DEF Plain
  <2> QED BY <2>1, SeqMonotonic
<1> QED BY <1>1, <1>2, Missing

\* The module path is put in where it was kept.
LEMMA PlaceholderReplaced ==
  ASSUME NEW from \in Identities, NEW to \in Identities, NEW kind \in Project!Kinds,
         ~ Project!Holds(Project!Before(kind), from.name),
         ~ Project!Holds(Project!After(kind), from.name)
  PROVE  Project!ReplaceNames(Around(Project!Before(kind), Project!Placeholder, Project!After(kind)),
                              from, to)
            = Around(Project!Before(kind), to.module, Project!After(kind))
<1>1. PICK pre \in Texts, post \in Texts :
        /\ pre = Project!Before(kind) /\ post = Project!After(kind)
        /\ pre \in Seq(Plain) /\ post \in Seq(Plain)
        /\ ~ Project!Holds(pre, from.name) /\ ~ Project!Holds(post, from.name)
        /\ \A S : S \cap Bounds = {} => Ends(pre, S) /\ Begins(post, S)
  BY FrameIs
<1>2. PICK name \in Texts, module \in Texts :
        /\ name = from.name /\ name # <<>> /\ name \in Seq(NameTokens) /\ module = to.module
        /\ to.name \in Texts /\ Project!Underscored(to.name) \in Texts
  BY IdentityHas, UnderscoredHas
<1>3. PICK text \in Texts :
        /\ text = Around(pre, Project!Placeholder, post)
        /\ text \in Seq(Letters \ {Project!Underscore})
  <2>1. Plain \subseteq Letters \ {Project!Underscore} /\ "#" \in Letters \ {Project!Underscore}
    BY LettersAre DEF Plain
  <2>2. Project!Placeholder \in Seq(Letters \ {Project!Underscore})
    BY <2>1 DEF Project!Placeholder
  <2> QED BY <1>1, <2>1, <2>2, FramedIs
<1>4. ~ Project!Holds(text, name)
  <2>1. 1 \in DOMAIN name /\ name[1] \in NameTokens
    BY <1>2, EmptySeq, LenProperties, ElementOfSeq DEF Texts
  <2>2. Project!Placeholder \in Seq(Letters \ {name[1]})
    <3>1. {"#"} \subseteq Letters \ {name[1]}
      BY <2>1, LettersAre
    <3> QED BY <3>1, PlaceholderIs, SeqMonotonic
  <2>3. ~ Project!Holds(Project!Placeholder, name)
    BY <2>1, <2>2, Missing
  <2>4. Ends(pre, NameTokens) /\ Begins(post, NameTokens)
    BY <1>1, LettersAre
  <2> QED BY <1>1, <1>2, <1>3, <2>3, <2>4, PlaceholderIs, HoldsAround
<1>5. Project!Replace(text, Project!Placeholder, module) = Around(pre, module, post)
  <2>1. ~ Project!Holds(pre, Project!Placeholder) /\ ~ Project!Holds(post, Project!Placeholder)
    BY <1>1, PlaceholderIs, FrameHoldsNone
  <2>2. Ends(pre, {"#"})
    <3>1. {"#"} \cap Bounds = {}
      BY LettersAre
    <3> QED BY <3>1, <1>1
  <2> QED BY <1>1, <1>2, <1>3, <2>1, <2>2, PlaceholderIs, ReplaceOnce
<1>6. Project!Replace(text, Project!Underscored(from.name), Project!Underscored(to.name)) = text
  BY <1>2, <1>3, <1>4, DatabaseKept
<1>7. Project!Replace(text, name, to.name) = text
  BY <1>2, <1>3, <1>4, ReplaceNone
<1>8. Project!ReplaceNames(text, from, to) = Around(pre, module, post)
  BY <1>2, <1>5, <1>6, <1>7 DEF Project!ReplaceNames
<1> QED BY <1>1, <1>2, <1>3, <1>8

\* Whether a name without a dash is replaced twice, by itself or its new form.
Twice(from, to) ==
  /\ Project!Underscored(from.name) = from.name
  /\ \/ Project!Underscored(to.name) # to.name
     \/ from.name # to.name /\ Project!Holds(to.name, from.name)

\* A name is replaced by the new one, and its underscored form by the new one's,
\* unless it is replaced twice or held by what stands around it.
LEMMA NameReplaced ==
  ASSUME NEW from \in Identities, NEW to \in Identities, NEW kind \in Project!Kinds,
         ~ Project!Holds(Project!Before(kind), from.name),
         ~ Project!Holds(Project!After(kind), from.name),
         ~ Twice(from, to)
  PROVE  /\ Project!ReplaceNames(Around(Project!Before(kind), from.name, Project!After(kind)), from, to)
              = Around(Project!Before(kind), to.name, Project!After(kind))
         /\ Project!ReplaceNames(
                Around(Project!Before(kind), Project!Underscored(from.name), Project!After(kind)), from, to)
              = Around(Project!Before(kind), Project!Underscored(to.name), Project!After(kind))
<1>1. PICK pre \in Texts, post \in Texts :
        /\ pre = Project!Before(kind) /\ post = Project!After(kind)
        /\ pre \in Seq(Plain) /\ post \in Seq(Plain)
        /\ ~ Project!Holds(pre, from.name) /\ ~ Project!Holds(post, from.name)
        /\ \A S : S \cap Bounds = {} => Ends(pre, S) /\ Begins(post, S)
  BY FrameIs
<1>2. PICK name \in Texts, new \in Texts, db \in Texts, newDb \in Texts, module \in Texts :
        /\ name = from.name /\ new = to.name /\ module = to.module
        /\ db = Project!Underscored(from.name) /\ newDb = Project!Underscored(to.name)
        /\ name # <<>> /\ db # <<>> /\ name \in Seq(NameTokens) /\ new \in Seq(NameTokens)
        /\ db \in Seq((NameTokens \cup {Project!Underscore}) \ {"-"})
        /\ db = name \/ (HasToken(name, "-") /\ HasToken(db, Project!Underscore))
  <2>1. /\ from.name \in Texts /\ from.name # <<>> /\ from.name \in Seq(NameTokens)
        /\ to.name \in Texts /\ to.name # <<>> /\ to.name \in Seq(NameTokens)
        /\ to.module \in Texts
    BY IdentityHas
  <2> QED BY <2>1, UnderscoredHas
<1>3. /\ new \in Seq(Letters \ {"#", Project!Underscore}) /\ newDb \in Seq(Letters \ {"#", "-"})
      /\ name \in Seq(Letters \ {"#", Project!Underscore})
  BY <1>2, NewHas
<1>4. /\ Around(pre, name, post) \in Seq(Letters \ {"#", Project!Underscore})
      /\ Around(pre, new, post) \in Seq(Letters \ {"#", Project!Underscore})
      /\ Around(pre, new, post) \in Texts
      /\ Around(pre, newDb, post) \in Seq(Letters \ {"#", "-"})
      /\ Around(pre, newDb, post) \in Texts
  <2>1. Plain \subseteq Letters \ {"#", Project!Underscore} /\ Plain \subseteq Letters \ {"#", "-"}
    BY DEF Plain
  <2>2. Letters \ {"#", Project!Underscore} \subseteq Letters /\ Letters \ {"#", "-"} \subseteq Letters
    OBVIOUS
  <2> QED BY <1>1, <1>3, <2>1, <2>2, FramedIs
<1>5. /\ Project!Replace(Around(pre, new, post), Project!Placeholder, module) = Around(pre, new, post)
      /\ Project!Replace(Around(pre, newDb, post), Project!Placeholder, module)
           = Around(pre, newDb, post)
  <2>1. /\ Letters \ {"#", Project!Underscore} \subseteq Letters \ {"#"}
        /\ Letters \ {"#", "-"} \subseteq Letters \ {"#"}
    OBVIOUS
  <2>2. Around(pre, new, post) \in Seq(Letters \ {"#"}) /\ Around(pre, newDb, post) \in Seq(Letters \ {"#"})
    BY <1>4, <2>1, SeqMonotonic
  <2> QED BY <2>2, PlaceholderIs, ReplaceApart
<1>6. Ends(pre, NameTokens) /\ Begins(post, NameTokens)
  BY <1>1, LettersAre
<1>7. Project!Replace(Around(pre, name, post), name, new) = Around(pre, new, post)
  BY <1>1, <1>2, <1>6, ReplaceOnce
<1>8. Project!ReplaceNames(Around(pre, name, post), from, to) = Around(pre, new, post)
      /\ Project!ReplaceNames(Around(pre, db, post), from, to) = Around(pre, newDb, post)
  <2> SUFFICES
        /\ Project!Replace(Project!Replace(Project!Replace(Around(pre, name, post), db, newDb), name, new),
                           Project!Placeholder, module) = Around(pre, new, post)
        /\ Project!Replace(Project!Replace(Project!Replace(Around(pre, db, post), db, newDb), name, new),
                           Project!Placeholder, module) = Around(pre, newDb, post)
    BY <1>2 DEF Project!ReplaceNames
  <2>1. CASE db = name
    <3>1. newDb = new /\ (name = new \/ ~ Project!Holds(new, name))
      BY <2>1, <1>2 DEF Twice
    <3>2. Project!Replace(Around(pre, new, post), name, new) = Around(pre, new, post)
      <4>1. CASE name = new
        BY <4>1, <1>7
      <4>2. CASE ~ Project!Holds(new, name)
        <5>1. ~ Project!Holds(pre, name) /\ ~ Project!Holds(post, name)
          BY <1>1, <1>2
        <5>2. ~ Project!Holds(Around(pre, new, post), name)
          BY <4>2, <5>1, <1>2, <1>6, HoldsAround
        <5> QED BY <5>2, <1>2, <1>4, ReplaceNone
      <4> QED BY <3>1, <4>1, <4>2
    <3> QED BY <1>5, <1>7, <2>1, <3>1, <3>2
  <2>2. CASE HasToken(name, "-") /\ HasToken(db, Project!Underscore)
    <3>1. Project!Replace(Around(pre, name, post), db, newDb) = Around(pre, name, post)
      <4>1. Letters \ {"#", Project!Underscore} \subseteq Letters \ {Project!Underscore}
        OBVIOUS
      <4>2. Around(pre, name, post) \in Seq(Letters \ {Project!Underscore})
        BY <4>1, <1>4, SeqMonotonic
      <4> QED BY <2>2, <4>2, LettersAre, ReplaceApart
    <3>2. Project!Replace(Around(pre, newDb, post), name, new) = Around(pre, newDb, post)
      <4>1. Letters \ {"#", "-"} \subseteq Letters \ {"-"}
        OBVIOUS
      <4>2. Around(pre, newDb, post) \in Seq(Letters \ {"-"})
        BY <4>1, <1>4, SeqMonotonic
      <4>3. "-" \in Letters
        BY LettersAre
      <4> QED BY <2>2, <4>2, <4>3, ReplaceApart
    <3>3. Project!Replace(Around(pre, db, post), db, newDb) = Around(pre, newDb, post)
      <4>1. PICK S : S = (NameTokens \cup {Project!Underscore}) \ {"-"}
        OBVIOUS
      <4>2. S \cap Bounds = {}
        BY <4>1, LettersAre
      <4>3. Ends(pre, S) /\ db \in Seq(S)
        BY <4>1, <4>2, <1>1, <1>2
      <4>4. ~ Project!Holds(pre, db) /\ ~ Project!Holds(post, db)
        BY <2>2, <1>1, FrameHoldsNone
      <4> QED BY <4>3, <4>4, <1>2, ReplaceOnce
    <3> QED BY <1>5, <1>7, <3>1, <3>2, <3>3
  <2> QED BY <1>2, <2>1, <2>2
<1> QED BY <1>1, <1>2, <1>8

LEMMA JoinedIs ==
  ASSUME NEW s \in Texts, NEW t \in Texts, NEW u \in Texts
  PROVE  (s \o t) \o u = Around(s, t, u)
BY TextsJoin DEF Around, Joins

-----------------------------------------------------------------------------
(* What is kept of a line                                                  *)

Quoting(q, text, next) ==
  /\ q \in Texts /\ q # <<>> /\ HasToken(q, next) /\ q = Around(<<Project!Quote>>, text, <<next>>)
  /\ Len(q) = Len(text) + 2 /\ q[1] = Project!Quote /\ q[Len(text) + 2] = next
  /\ \A i \in 1 .. Len(text) : q[1 + i] = text[i]

LEMMA QuotedHas ==
  ASSUME NEW text \in Texts, NEW next \in Letters
  PROVE  Quoting(Project!Quoted(text, next), text, next)
<1>1. PICK q \in Texts, n \in Texts :
        /\ q = <<Project!Quote>> /\ n = <<next>>
        /\ Len(q) = 1 /\ Len(n) = 1 /\ q[1] = Project!Quote /\ n[1] = next
  <2>1. Project!Quote \in Letters
    BY LettersAre
  <2>2. <<Project!Quote>> \in Texts /\ <<next>> \in Texts
    BY <2>1 DEF Texts
  <2> QED BY <2>2
<1>2. Project!Quoted(text, next) = Around(q, text, n)
  <2>1. Project!Quoted(text, next) = (q \o text) \o n
    BY <1>1 DEF Project!Quoted
  <2> QED BY <2>1, JoinedIs
<1>3. PICK whole \in Texts : whole = Around(q, text, n) /\ IsAround(whole, q, text, n)
  <2>1. IsAround(Around(q, text, n), q, text, n)
    BY AroundIs
  <2> QED BY <2>1 DEF IsAround
<1>4. Len(text) \in Nat /\ DOMAIN whole = 1 .. Len(whole)
  BY DEF Texts
<1>5. /\ Len(whole) = Len(text) + 2 /\ whole[1] = Project!Quote /\ whole[Len(text) + 2] = next
      /\ \A i \in 1 .. Len(text) : whole[1 + i] = text[i]
  <2>1. /\ Len(whole) = 1 + Len(text) + 1
        /\ \A i \in 1 .. 1 : whole[i] = q[i]
        /\ \A i \in 1 .. Len(text) : whole[1 + i] = text[i]
        /\ \A i \in 1 .. 1 : whole[1 + Len(text) + i] = n[i]
    BY <1>1, <1>3 DEF IsAround
  <2>2. whole[1 + Len(text) + 1] = n[1] /\ whole[1] = q[1]
    BY <2>1
  <2>3. 1 + Len(text) + 1 = Len(text) + 2
    BY <1>4
  <2> QED BY <2>1, <2>2, <2>3, <1>1
<1>6. whole # <<>> /\ HasToken(whole, next)
  <2>1. Len(text) + 2 \in DOMAIN whole
    BY <1>4, <1>5
  <2>2. DOMAIN <<>> = {}
    OBVIOUS
  <2> QED BY <2>1, <2>2, <1>5 DEF HasToken
<1> QED BY <1>1, <1>2, <1>3, <1>5, <1>6 DEF Quoting

\* A module path that is not the name has a host or a slash, which no line but an
\* import has.
LEMMA ModuleApart ==
  ASSUME NEW p \in Identities, p.module # p.name, NEW text \in Seq(Letters \ (Hosts \cup {"/"}))
  PROVE  ~ Project!Holds(text, p.module)
<1>1. PICK k \in DOMAIN p.module : p.module[k] \in Hosts \cup {"/"}
  BY IdentityHas
<1>2. text \in Seq(Letters \ {p.module[k]})
  <2>1. Letters \ (Hosts \cup {"/"}) \subseteq Letters \ {p.module[k]}
    BY <1>1
  <2> QED BY <2>1, SeqMonotonic
<1> QED BY <1>2, IdentityHas, Missing

\* Nor does what comes after one hold it, where the only slash is the first token.
LEMMA ImportApart ==
  ASSUME NEW p \in Identities, p.module # p.name
  PROVE  ~ Project!Holds(Project!After("import"), p.module)
<1>1. PICK module \in Texts : module = p.module /\ DOMAIN module = 1 .. Len(module) /\ Len(module) \in Nat
  BY IdentityHas, LenProperties DEF Texts
<1>2. PICK k \in 1 .. Len(module) : module[k] \in Hosts \/ (k > 1 /\ module[k] = "/")
  BY <1>1, IdentityHas
<1>3. "import" \in Project!Kinds
  BY DEF Project!Kinds
<1>4. CASE module[k] \in Hosts
  <2>1. Plain \subseteq Letters \ {module[k]}
    BY <1>4 DEF Plain
  <2>2. Project!After("import") \in Seq(Letters \ {module[k]})
    BY <1>3, <2>1, AfterIs, SeqMonotonic, Zenon
  <2> QED BY <1>1, <2>2, Missing
<1>5. CASE k > 1 /\ module[k] = "/"
  <2>1. PICK rest \in Seq(Plain \ {"/"}) : Project!After("import") = <<"/">> \o rest
    <3>1. Plain \ {"/", Project!Quote} \subseteq Plain \ {"/"} /\ Project!Quote \in Plain \ {"/"}
      BY LettersAre DEF Bounds
    <3>2. Rest("import") \in Seq(Plain \ {"/", Project!Quote})
      BY RestIs
    <3>3. Rest("import") \in Seq(Plain \ {"/"})
      BY <3>1, <3>2, SeqMonotonic
    <3>4. Rest("import") \o <<Project!Quote>> \in Seq(Plain \ {"/"})
      BY <3>1, <3>3, TokenAfter
    <3>5. Project!After("import") = <<Mark("import")>> \o (Rest("import") \o <<Project!Quote>>)
      BY RestIs
    <3>6. Mark("import") = "/"
      BY DEF Mark
    <3> QED BY <3>4, <3>5, <3>6
  <2>2. PICK after \in Seq(Plain) :
          /\ after = Project!After("import") /\ Len(after) = Len(rest) + 1 /\ Len(after) \in Nat
          /\ DOMAIN after = 1 .. Len(after)
          /\ \A i \in 1 .. Len(rest) : after[i + 1] = rest[i]
    <3>1. "/" \in Plain /\ Plain \ {"/"} \subseteq Plain
      BY LettersAre DEF Bounds
    <3>2. rest \in Seq(Plain)
      BY <3>1, SeqMonotonic, Zenon
    <3>3. PICK m \in Plain : m = "/"
      BY <3>1
    <3>4. /\ <<m>> \o rest \in Seq(Plain) /\ Len(<<m>> \o rest) = Len(rest) + 1
          /\ \A i \in 1 .. Len(rest) : (<<m>> \o rest)[i + 1] = rest[i]
      BY <3>2, TokenBefore
    <3> QED BY <2>1, <3>3, <3>4, LenProperties
  <2>3. SUFFICES ASSUME NEW i \in 1 .. Len(after), Project!Occurs(module, after, i) PROVE FALSE
    BY <1>1, <2>2 DEF Project!Holds
  <2>4. i + Len(module) <= Len(after) + 1 /\ after[i + k - 1] = "/"
    BY <1>1, <1>5, <2>3 DEF Project!Occurs
  <2>5. PICK j \in 1 .. Len(rest) : j + 1 = i + k - 1
    <3>1. i + k - 2 \in 1 .. Len(rest) /\ (i + k - 2) + 1 = i + k - 1
      BY <1>1, <1>5, <2>2, <2>4
    <3> QED BY <3>1
  <2>6. rest[j] \in Plain \ {"/"}
    BY ElementOfSeq
  <2> QED BY <2>2, <2>4, <2>5, <2>6
<1> QED BY <1>2, <1>4, <1>5

\* A line without a module path is kept as it is.
LEMMA LineKept ==
  ASSUME NEW p \in Identities, NEW text \in Seq(Letters \ (Hosts \cup {"/"})),
         NEW f \in {"go", "text", "json", "rename.sh"},
         f = "go" /\ p.module = p.name => ~ Project!Holds(text, Project!Quoted(p.module, Project!Quote))
  PROVE  /\ Project!KeepModule(f, text, p) = text
         /\ Project!KeepModuleOfScript(f, text, p) = text
<1>1. /\ text \in Texts /\ text \in Seq(Letters \ Hosts) /\ text \in Seq(Letters \ {"/"})
      /\ p.module \in Texts /\ p.module # <<>>
  <2>1. /\ Letters \ (Hosts \cup {"/"}) \subseteq Letters
        /\ Letters \ (Hosts \cup {"/"}) \subseteq Letters \ Hosts
        /\ Letters \ (Hosts \cup {"/"}) \subseteq Letters \ {"/"}
    OBVIOUS
  <2>2. text \in Texts /\ text \in Seq(Letters \ Hosts) /\ text \in Seq(Letters \ {"/"})
    BY <2>1, SeqMonotonic DEF Texts
  <2> QED BY <2>2, IdentityHas
<1>2. Project!KeepModule(f, text, p) = text
  <2>1. CASE p.module # p.name
    <3>1. Project!Replace(text, p.module, Project!Placeholder) = text
      BY <1>1, <2>1, ModuleApart, PlaceholderIs, ReplaceNone
    <3> QED BY <2>1, <3>1 DEF Project!KeepModule
  <2>2. CASE p.module = p.name /\ f = "go"
    <3>1. PICK a \in Texts : a = Project!Quoted(p.module, "/") /\ HasToken(a, "/")
      <4>1. Quoting(Project!Quoted(p.module, "/"), p.module, "/")
        BY <1>1, LettersAre, QuotedHas
      <4> QED BY <4>1 DEF Quoting
    <3>2. PICK b \in Texts : b = Project!Quoted(Project!Placeholder, "/")
      <4>1. Quoting(Project!Quoted(Project!Placeholder, "/"), Project!Placeholder, "/")
        BY LettersAre, PlaceholderIs, QuotedHas
      <4> QED BY <4>1 DEF Quoting
    <3>3. PICK c \in Texts : c = Project!Quoted(p.module, Project!Quote) /\ c # <<>>
      <4>1. Quoting(Project!Quoted(p.module, Project!Quote), p.module, Project!Quote)
        BY <1>1, LettersAre, QuotedHas
      <4> QED BY <4>1 DEF Quoting
    <3>4. PICK d \in Texts : d = Project!Quoted(Project!Placeholder, Project!Quote)
      <4>1. Quoting(Project!Quoted(Project!Placeholder, Project!Quote), Project!Placeholder, Project!Quote)
        BY LettersAre, PlaceholderIs, QuotedHas
      <4> QED BY <4>1 DEF Quoting
    <3>5. "/" \in Letters
      BY LettersAre
    <3>6. Project!Replace(text, a, b) = text
      BY <1>1, <3>1, <3>5, <3>2, ReplaceApart
    <3>7. Project!Replace(text, c, d) = text
      BY <1>1, <2>2, <3>3, <3>4, ReplaceNone
    <3> QED BY <2>2, <3>1, <3>6, <3>7, <3>2, <3>3, <3>4, Zenon DEF Project!KeepModule
  <2>3. CASE p.module = p.name /\ f # "go"
    BY <2>3 DEF Project!KeepModule
  <2> QED BY <2>1, <2>2, <2>3
<1> QED BY <1>2 DEF Project!KeepModuleOfScript

\* What is not in a text that holds no token.
LEMMA NothingHolds ==
  ASSUME NEW part PROVE <<>> \in Texts /\ ~ Project!Holds(<<>>, part)
<1>1. DOMAIN <<>> = {} /\ <<>> \in Texts
  BY DEF Texts
<1> QED BY <1>1 DEF Project!Holds

\* A text is replaced as a whole.
LEMMA ReplaceWhole ==
  ASSUME NEW old \in Texts, old # <<>>, NEW new \in Texts
  PROVE  Project!Replace(old, old, new) = new
<1>1. <<>> \in Texts /\ ~ Project!Holds(<<>>, old)
  BY NothingHolds
<1>2. Project!Replace(Around(<<>>, old, <<>>), old, new) = Around(<<>>, new, <<>>)
  <2>1. PICK e \in Texts : e = <<>> /\ Ends(e, Letters) /\ ~ Project!Holds(e, old)
    BY <1>1 DEF Ends
  <2>2. old \in Seq(Letters)
    BY DEF Texts
  <2>3. Project!Replace(Around(e, old, e), old, new) = Around(e, new, e)
    BY <2>1, <2>2, ReplaceOnce
  <2> QED BY <2>1, <2>3
<1>3. \A t \in Texts : Around(<<>>, t, <<>>) = t
  BY <1>1, ConcatEmptySeq DEF Around, Texts
<1> QED BY <1>2, <1>3

\* A text in quotes holds another only if that is the same.
LEMMA QuotedAlone ==
  ASSUME NEW m \in Texts, m \in Seq(Letters \ {Project!Quote}), NEW n \in Texts, n # m
  PROVE  ~ Project!Holds(Project!Quoted(m, Project!Quote), Project!Quoted(n, Project!Quote))
<1>1. Len(m) \in Nat /\ Len(n) \in Nat
  BY LenProperties DEF Texts
<1>2. ASSUME NEW t \in {m, n}
      PROVE  \E q \in Texts : /\ q = Project!Quoted(t, Project!Quote) /\ Len(q) = Len(t) + 2
                              /\ q[1] = Project!Quote /\ q[Len(t) + 2] = Project!Quote
                              /\ \A i \in 1 .. Len(t) : q[1 + i] = t[i]
                              /\ DOMAIN q = 1 .. Len(q)
  <2>1. Quoting(Project!Quoted(t, Project!Quote), t, Project!Quote)
    <3>1. Project!Quote \in Letters
      BY LettersAre
    <3> QED BY <3>1, QuotedHas
  <2> QED BY <2>1, LenProperties DEF Quoting, Texts
<1>3. PICK a \in Texts : /\ a = Project!Quoted(m, Project!Quote) /\ Len(a) = Len(m) + 2
                         /\ \A i \in 1 .. Len(m) : a[1 + i] = m[i]
                         /\ DOMAIN a = 1 .. Len(a)
  BY <1>2
<1>4. PICK b \in Texts : /\ b = Project!Quoted(n, Project!Quote) /\ Len(b) = Len(n) + 2
                         /\ b[1] = Project!Quote /\ b[Len(n) + 2] = Project!Quote
                         /\ \A i \in 1 .. Len(n) : b[1 + i] = n[i]
                         /\ DOMAIN b = 1 .. Len(b)
  BY <1>2
<1>5. SUFFICES ASSUME NEW i \in 1 .. Len(a), Project!Occurs(b, a, i) PROVE FALSE
  BY <1>3, <1>4 DEF Project!Holds
<1>6. i + Len(b) <= Len(a) + 1 /\ \A k \in 1 .. Len(b) : a[i + k - 1] = b[k]
  BY <1>4, <1>5 DEF Project!Occurs
<1>7. \A k \in 1 .. Len(m) : m[k] # Project!Quote
  BY ElementOfSeq
<1>8. i = 1
  <2>1. a[i] = Project!Quote
    <3>1. 1 \in 1 .. Len(b) /\ i + 1 - 1 = i
      BY <1>1, <1>4
    <3> QED BY <3>1, <1>4, <1>6
  <2>2. ASSUME i # 1 PROVE FALSE
    <3>1. PICK k \in 1 .. Len(m) : i = 1 + k
      <4>1. i - 1 \in 1 .. Len(m) /\ i = 1 + (i - 1)
        BY <2>2, <1>1, <1>3, <1>4, <1>6
      <4> QED BY <4>1
    <3> QED BY <3>1, <2>1, <1>3, <1>7
  <2> QED BY <2>2
<1>9. Len(n) = Len(m)
  <2>1. a[Len(n) + 2] = Project!Quote
    <3>1. Len(n) + 2 \in 1 .. Len(b) /\ 1 + (Len(n) + 2) - 1 = Len(n) + 2
      BY <1>1, <1>4
    <3> QED BY <3>1, <1>4, <1>6, <1>8
  <2>2. ASSUME Len(n) # Len(m) PROVE FALSE
    <3>1. PICK k \in 1 .. Len(m) : Len(n) + 2 = 1 + k
      <4>1. Len(n) + 1 \in 1 .. Len(m) /\ Len(n) + 2 = 1 + (Len(n) + 1)
        BY <2>2, <1>1, <1>3, <1>4, <1>6, <1>8
      <4> QED BY <4>1
    <3> QED BY <3>1, <2>1, <1>3, <1>7
  <2> QED BY <2>2
<1>10. ASSUME NEW k \in 1 .. Len(m) PROVE m[k] = n[k]
  <2>1. 1 + k \in 1 .. Len(b) /\ 1 + (1 + k) - 1 = 1 + k
    BY <1>1, <1>4, <1>9
  <2>2. a[1 + k] = b[1 + k]
    BY <2>1, <1>6, <1>8
  <2> QED BY <2>2, <1>3, <1>4, <1>9
<1>11. m = n
  BY <1>9, <1>10, SeqEqual DEF Texts
<1> QED BY <1>11

\* An import and a prefix are in quotes with what they begin with.
LEMMA QuotedWith ==
  ASSUME NEW kind \in {"import", "prefix"}, NEW mid \in Texts
  PROVE  /\ <<Mark(kind)>> \o Rest(kind) \in Seq(Letters \ {Project!Quote})
         /\ <<Mark(kind)>> \o Rest(kind) \in Texts /\ Len(<<Mark(kind)>> \o Rest(kind)) \in Nat \ {0}
         /\ Around(<<Project!Quote>>, mid, Project!After(kind))
              = Project!Quoted(mid \o (<<Mark(kind)>> \o Rest(kind)), Project!Quote)
<1>1. PICK q \in Texts : q = <<Project!Quote>>
  <2>1. <<Project!Quote>> \in Seq(Letters)
    BY LettersAre, OneToken
  <2> QED BY <2>1 DEF Texts
<1>2. /\ Mark(kind) \in Letters \ {Project!Quote}
      /\ Rest(kind) \in Seq(Letters \ {Project!Quote})
      /\ Project!After(kind) = <<Mark(kind)>> \o (Rest(kind) \o <<Project!Quote>>)
  <2>1. Plain \ {"/", Project!Quote} \subseteq Letters \ {Project!Quote}
    BY DEF Plain
  <2>2. Bounds \subseteq Letters
    BY LettersAre
  <2>3. /\ Mark(kind) \in Bounds \ {Project!Quote} /\ Rest(kind) \in Seq(Plain \ {"/", Project!Quote})
        /\ Project!After(kind) = <<Mark(kind)>> \o (Rest(kind) \o <<Project!Quote>>)
    BY RestIs
  <2> QED BY <2>1, <2>2, <2>3, SeqMonotonic
<1>3. /\ <<Mark(kind)>> \o Rest(kind) \in Seq(Letters \ {Project!Quote})
      /\ Len(<<Mark(kind)>> \o Rest(kind)) \in Nat \ {0}
  BY <1>2, TokenBefore
<1>4. PICK m \in Texts, r \in Texts, x \in Texts :
        m = <<Mark(kind)>> /\ r = Rest(kind) /\ x = m \o r
  <2>1. <<Mark(kind)>> \in Texts
    BY <1>2 DEF Texts
  <2>2. Letters \ {Project!Quote} \subseteq Letters
    OBVIOUS
  <2>3. Rest(kind) \in Texts /\ <<Mark(kind)>> \o Rest(kind) \in Texts
    BY <1>2, <1>3, <2>2, SeqMonotonic, Zenon DEF Texts
  <2> QED BY <2>1, <2>3
<1>5. PICK y \in Texts : y = mid \o x
  BY ConcatProperties DEF Texts
<1>6. (m \o r) \o q = m \o (r \o q) /\ (mid \o x) \o q = mid \o (x \o q) /\ (q \o y) \o q = q \o (y \o q)
  <2>1. Joins(m, r, q) /\ Joins(mid, x, q) /\ Joins(q, y, q)
    BY TextsJoin
  <2> QED BY <2>1, Zenon DEF Joins
<1>7. Around(q, mid, m \o (r \o q)) = (q \o y) \o q
  BY <1>4, <1>5, <1>6, Zenon DEF Around
<1>8. Project!Quoted(y, Project!Quote) = (q \o y) \o q
  BY <1>1, Zenon DEF Project!Quoted
<1> QED BY <1>1, <1>2, <1>3, <1>4, <1>5, <1>7, <1>8

-----------------------------------------------------------------------------
(* What is kept of the lines of a project                                  *)

NameKinds == Project!Kinds \ {"import", "module"}

LEMMA LineIs ==
  ASSUME NEW p, NEW kind \in Project!Kinds
  PROVE  /\ kind \in {"import", "module"} =>
              Project!Line(kind, p) = Around(Project!Before(kind), p.module, Project!After(kind))
         /\ kind = "database" =>
              Project!Line(kind, p)
                = Around(Project!Before(kind), Project!Underscored(p.name), Project!After(kind))
         /\ kind \in NameKinds \ {"database"} =>
              Project!Line(kind, p) = Around(Project!Before(kind), p.name, Project!After(kind))
<1>1. Project!Line(kind, p)
        = Around(Project!Before(kind), Project!Identity(kind, p), Project!After(kind))
  BY Zenon DEF Project!Line, Around
<1>2. CASE kind \in {"import", "module"}
  <2>1. Project!Identity(kind, p) = p.module
    BY <1>2 DEF Project!Identity
  <2> QED BY <1>1, <1>2, <2>1 DEF NameKinds
<1>3. CASE kind = "database"
  <2>1. Project!Identity(kind, p) = Project!Underscored(p.name)
    BY <1>3 DEF Project!Identity
  <2> QED BY <1>1, <1>3, <2>1
<1>4. CASE kind \in NameKinds \ {"database"}
  <2>1. Project!Identity(kind, p) = p.name
    BY <1>4 DEF Project!Identity, NameKinds
  <2> QED BY <1>1, <1>4, <2>1 DEF NameKinds
<1> QED BY <1>2, <1>3, <1>4 DEF NameKinds

\* A line that has no module path has neither a host nor a slash.
LEMMA NameLineHas ==
  ASSUME NEW p \in Identities, NEW kind \in NameKinds
  PROVE  Project!Line(kind, p) \in Seq(Letters \ (Hosts \cup {"/"}))
<1> DEFINE S == Letters \ (Hosts \cup {"/"})
<1>1. kind \in Project!Kinds /\ kind # "import"
  BY DEF NameKinds
<1>2. Plain \ {"/"} \subseteq S
  BY DEF Plain
<1>3. NameTokens \subseteq S /\ (NameTokens \cup {Project!Underscore}) \ {"-"} \subseteq S
  <2>1. Project!Underscore \in S
    <3>1. Project!Underscore # "/"
      BY Zenon DEF Project!Underscore
    <3>2. Marks \cap Hosts = {}
      BY IdentityAssumption
    <3> QED BY <3>1, <3>2, LettersAre
  <2>2. NameTokens \subseteq S
    BY LettersAre DEF Bounds
  <2> QED BY <2>1, <2>2
<1> HIDE DEF S
<1>4. PICK pre \in Seq(S), post \in Seq(S) : pre = Project!Before(kind) /\ post = Project!After(kind)
  <2>1. Project!Before(kind) \in Seq(S)
    BY <1>1, <1>2, BeforeIs, SeqMonotonic, Zenon
  <2>2. Project!After(kind) \in Seq(S)
    BY <1>1, <1>2, AfterIs, SeqMonotonic, Zenon
  <2> QED BY <2>1, <2>2
<1>5. p.name \in Seq(S) /\ Project!Underscored(p.name) \in Seq(S)
  <2>1. p.name \in Seq(NameTokens) /\ p.name # <<>>
    BY IdentityHas
  <2>2. Project!Underscored(p.name) \in Seq((NameTokens \cup {Project!Underscore}) \ {"-"})
    BY <2>1, UnderscoredHas
  <2> QED BY <1>3, <2>1, <2>2, SeqMonotonic, Zenon
<1>6. Around(pre, p.name, post) \in Seq(S) /\ Around(pre, Project!Underscored(p.name), post) \in Seq(S)
  BY <1>5, AroundOf
<1>7. Project!Line(kind, p) \in Seq(S)
  BY <1>1, <1>4, <1>6, LineIs
<1> QED BY <1>7 DEF S

\* Only a literal has the name alone in quotes.
LEMMA NotQuoted ==
  ASSUME NEW p \in Identities, NEW kind \in NameKinds, kind # "literal"
  PROVE  ~ Project!Holds(Project!Line(kind, p), Project!Quoted(p.name, Project!Quote))
<1>1. p.name \in Texts /\ p.name # <<>> /\ p.name \in Seq(NameTokens) /\ kind \in Project!Kinds
  BY IdentityHas DEF NameKinds
<1>2. PICK q \in Texts : q = Project!Quoted(p.name, Project!Quote) /\ HasToken(q, Project!Quote)
  <2>1. Quoting(Project!Quoted(p.name, Project!Quote), p.name, Project!Quote)
    BY <1>1, LettersAre, QuotedHas
  <2> QED BY <2>1 DEF Quoting
<1>3. CASE kind \in {"name", "database"}
  <2>1. PICK pre \in Seq(Letters \ {Project!Quote}), post \in Seq(Letters \ {Project!Quote}) :
          pre = Project!Before(kind) /\ post = Project!After(kind)
    <3>1. <<>> \in Seq(Letters \ {Project!Quote})
      OBVIOUS
    <3>2. Project!Before(kind) \in Seq(Letters \ {Project!Quote}) /\ Project!After(kind) = <<>>
      BY <1>1, <1>3, BeforeIs, AfterIs
    <3> QED BY <3>1, <3>2
  <2>2. /\ p.name \in Seq(Letters \ {Project!Quote})
        /\ Project!Underscored(p.name) \in Seq(Letters \ {Project!Quote})
    <3>1. /\ NameTokens \subseteq Letters \ {Project!Quote}
          /\ (NameTokens \cup {Project!Underscore}) \ {"-"} \subseteq Letters \ {Project!Quote}
      <4>1. Project!Underscore # Project!Quote
        BY Zenon DEF Project!Underscore, Project!Quote
      <4> QED BY <4>1, LettersAre DEF Bounds
    <3>2. Project!Underscored(p.name) \in Seq((NameTokens \cup {Project!Underscore}) \ {"-"})
      BY <1>1, UnderscoredHas
    <3> QED BY <1>1, <3>1, <3>2, SeqMonotonic, Zenon
  <2>3. Project!Line(kind, p) \in Seq(Letters \ {Project!Quote})
    <3>1. /\ Around(pre, p.name, post) \in Seq(Letters \ {Project!Quote})
          /\ Around(pre, Project!Underscored(p.name), post) \in Seq(Letters \ {Project!Quote})
      BY <2>2, AroundOf
    <3> QED BY <3>1, <2>1, <1>1, <1>3, LineIs DEF NameKinds
  <2> QED BY <1>2, <2>3, Missing DEF HasToken
<1>4. CASE kind = "prefix"
  <2>1. PICK x \in Texts : /\ x \in Seq(Letters \ {Project!Quote}) /\ Len(x) \in Nat \ {0}
                           /\ x = <<Mark(kind)>> \o Rest(kind)
    BY <1>1, <1>4, QuotedWith
  <2>2. PICK n \in Texts : n = p.name
    BY <1>1
  <2>3. n \o x \in Texts /\ n \o x # n
    <3>1. n \o x \in Texts /\ Len(n \o x) = Len(n) + Len(x) /\ Len(n) \in Nat
      BY ConcatProperties, LenProperties DEF Texts
    <3>2. Len(n \o x) # Len(n)
      BY <3>1, <2>1
    <3> QED BY <3>1, <3>2
  <2>4. n \o x \in Seq(Letters \ {Project!Quote})
    <3>1. NameTokens \subseteq Letters \ {Project!Quote}
      BY LettersAre DEF Bounds
    <3>2. n \in Seq(Letters \ {Project!Quote})
      BY <1>1, <2>2, <3>1, SeqMonotonic, Zenon
    <3> QED BY <2>1, <3>2, ConcatProperties
  <2>5. Project!Line(kind, p) = Project!Quoted(n \o x, Project!Quote)
    <3>1. Project!Line(kind, p) = Around(Project!Before(kind), p.name, Project!After(kind))
      BY <1>1, <1>4, LineIs DEF NameKinds
    <3>2. Project!Before(kind) = <<Project!Quote>>
      BY <1>1, <1>4, BeforeIs
    <3>3. Around(<<Project!Quote>>, n, Project!After(kind)) = Project!Quoted(n \o x, Project!Quote)
      BY <1>4, <2>1, QuotedWith
    <3> QED BY <3>1, <3>2, <3>3, <2>2
  <2> QED BY <2>2, <2>3, <2>4, <2>5, QuotedAlone
<1> QED BY <1>3, <1>4 DEF NameKinds, Project!Kinds

\* A line without a module path is kept as it is, but for a literal.
LEMMA NameLineKept ==
  ASSUME NEW p \in Identities, NEW kind \in NameKinds,
         NEW f \in {"go", "text", "json", "rename.sh"},
         ~ (kind = "literal" /\ f = "go" /\ p.module = p.name)
  PROVE  /\ Project!KeepModule(f, Project!Line(kind, p), p) = Project!Line(kind, p)
         /\ Project!KeepModuleOfScript(f, Project!Line(kind, p), p) = Project!Line(kind, p)
<1>1. PICK text \in Seq(Letters \ (Hosts \cup {"/"})) : text = Project!Line(kind, p)
  BY NameLineHas
<1>2. f = "go" /\ p.module = p.name => ~ Project!Holds(text, Project!Quoted(p.module, Project!Quote))
  BY <1>1, NotQuoted
<1> QED BY <1>1, <1>2, LineKept

\* The texts that a module path is kept with.
LEMMA KeptIs ==
  ASSUME NEW m \in Texts, NEW next \in Letters
  PROVE  /\ Project!Quoted(m, next) \in Texts /\ Project!Quoted(m, next) # <<>>
         /\ HasToken(Project!Quoted(m, next), next)
         /\ Project!Quoted(m, next) = Around(<<Project!Quote>>, m, <<next>>)
BY QuotedHas DEF Quoting

LEMMA LiteralKept ==
  ASSUME NEW p \in Identities, p.module = p.name
  PROVE  LET line == Project!Line("literal", p)
             kept == Around(Project!Before("literal"), Project!Placeholder, Project!After("literal"))
         IN  /\ Project!KeepModule("go", line, p) = kept
             /\ Project!KeepModuleOfScript("go", line, p) = kept
<1> DEFINE line == Project!Line("literal", p)
           kept == Around(Project!Before("literal"), Project!Placeholder, Project!After("literal"))
<1>1. "literal" \in NameKinds /\ "literal" \in Project!Kinds
  BY DEF NameKinds, Project!Kinds
<1>2. /\ Project!Before("literal") = <<Project!Quote>> /\ Project!After("literal") = <<Project!Quote>>
      /\ line = Around(<<Project!Quote>>, p.name, <<Project!Quote>>)
  <2>1. Project!Before("literal") = <<Project!Quote>> /\ Project!After("literal") = <<Project!Quote>>
    BY <1>1, BeforeIs, AfterIs
  <2> QED BY <2>1, <1>1, LineIs
<1>3. "/" \in Letters /\ Project!Quote \in Letters
  BY LettersAre
<1>4. PICK m \in Texts, h \in Texts : m = p.module /\ h = Project!Placeholder
  BY IdentityHas, PlaceholderIs
<1>5. PICK a \in Texts, b \in Texts, c \in Texts, d \in Texts :
        /\ a = Project!Quoted(p.module, "/") /\ HasToken(a, "/")
        /\ b = Project!Quoted(Project!Placeholder, "/")
        /\ c = Project!Quoted(p.module, Project!Quote) /\ c # <<>> /\ c = line
        /\ d = Project!Quoted(Project!Placeholder, Project!Quote) /\ d = kept
  <2>1. /\ Project!Quoted(m, "/") \in Texts /\ HasToken(Project!Quoted(m, "/"), "/")
        /\ Project!Quoted(h, "/") \in Texts
    BY <1>3, KeptIs
  <2>2. /\ Project!Quoted(m, Project!Quote) \in Texts /\ Project!Quoted(m, Project!Quote) # <<>>
        /\ Project!Quoted(m, Project!Quote) = Around(<<Project!Quote>>, m, <<Project!Quote>>)
        /\ Project!Quoted(h, Project!Quote) \in Texts
        /\ Project!Quoted(h, Project!Quote) = Around(<<Project!Quote>>, h, <<Project!Quote>>)
    BY <1>3, KeptIs
  <2> QED BY <2>1, <2>2, <1>2, <1>4
<1> HIDE DEF line, kept
<1>6. Project!Replace(c, a, b) = c
  <2>1. Letters \ (Hosts \cup {"/"}) \subseteq Letters \ {"/"}
    OBVIOUS
  <2>2. c \in Seq(Letters \ {"/"})
    <3>1. line \in Seq(Letters \ (Hosts \cup {"/"}))
      BY <1>1, NameLineHas DEF line
    <3> QED BY <3>1, <2>1, <1>5, SeqMonotonic, Zenon
  <2> QED BY <2>2, <1>3, <1>5, ReplaceApart
<1>7. Project!Replace(c, c, d) = d
  BY <1>5, ReplaceWhole
<1>8. Project!KeepModule("go", line, p) = kept
  BY <1>5, <1>6, <1>7, Zenon DEF Project!KeepModule
<1>9. Project!KeepModuleOfScript("go", line, p) = kept
  BY <1>8 DEF Project!KeepModuleOfScript
<1> QED BY <1>8, <1>9 DEF line, kept

\* A module path that is not the name is kept wherever it stands.
LEMMA PathKept ==
  ASSUME NEW p \in Identities, p.module # p.name, NEW kind \in {"import", "module"}
  PROVE  Project!Replace(Project!Line(kind, p), p.module, Project!Placeholder)
           = Around(Project!Before(kind), Project!Placeholder, Project!After(kind))
<1>1. kind \in Project!Kinds
  BY DEF Project!Kinds
<1>2. PICK pre \in Texts, post \in Texts :
        /\ pre = Project!Before(kind) /\ post = Project!After(kind)
        /\ pre \in Seq(Plain \ {"/"}) /\ pre[Len(pre)] \in {" ", Project!Quote}
        /\ kind = "module" => post = <<>>
  BY <1>1, FrameIs, BeforeIs, AfterIs
<1>3. PICK m \in Texts :
        m = p.module /\ m # <<>> /\ m \in Seq(Letters \ {"#", " ", Project!Quote})
  BY IdentityHas
<1>4. Ends(pre, Letters \ {"#", " ", Project!Quote})
  BY <1>2 DEF Ends
<1>5. ~ Project!Holds(pre, m)
  <2>1. Plain \ {"/"} \subseteq Letters \ (Hosts \cup {"/"})
    BY DEF Plain
  <2>2. pre \in Seq(Letters \ (Hosts \cup {"/"}))
    BY <1>2, <2>1, SeqMonotonic, Zenon
  <2> QED BY <2>2, <1>3, ModuleApart
<1>6. ~ Project!Holds(post, m)
  <2>1. CASE kind = "import"
    BY <2>1, <1>2, <1>3, ImportApart
  <2>2. CASE kind = "module"
    BY <2>2, <1>2, NothingHolds
  <2> QED BY <2>1, <2>2
<1>7. Project!Replace(Around(pre, m, post), m, Project!Placeholder) = Around(pre, Project!Placeholder, post)
  <2>1. PICK h \in Texts : h = Project!Placeholder
    BY PlaceholderIs
  <2>2. PICK S : S = Letters \ {"#", " ", Project!Quote}
    OBVIOUS
  <2>3. m \in Seq(S) /\ Ends(pre, S)
    BY <1>3, <1>4, <2>2
  <2>4. Project!Replace(Around(pre, m, post), m, h) = Around(pre, h, post)
    <3>1. m # <<>> /\ m \in Seq(S)
      BY <1>3, <2>3
    <3>2. Ends(pre, S)
      BY <2>3
    <3> QED BY <3>1, <3>2, <1>5, <1>6, ReplaceOnce, Zenon
  <2> QED BY <2>1, <2>4
<1>8. Project!Line(kind, p) = Around(pre, m, post)
  BY <1>1, <1>2, <1>3, LineIs
<1> QED BY <1>2, <1>3, <1>7, <1>8

\* The line of go.mod is replaced as a whole where the path is the name.
LEMMA ModuleKept ==
  ASSUME NEW p \in Identities
  PROVE  LET line == Project!Line("module", p)
             kept == Around(Project!Before("module"), Project!Placeholder, Project!After("module"))
         IN  /\ Project!KeepModule("go.mod", line, p) = kept
             /\ Project!KeepModuleOfScript("go.mod", line, p) = kept
<1> DEFINE line == Project!Line("module", p)
           kept == Around(Project!Before("module"), Project!Placeholder, Project!After("module"))
<1>1. CASE p.module # p.name
  <2>1. Project!Replace(line, p.module, Project!Placeholder) = kept
    BY <1>1, PathKept
  <2> HIDE DEF line, kept
  <2>2. Project!KeepModule("go.mod", line, p) = kept
    BY <1>1, <2>1 DEF Project!KeepModule
  <2>3. Project!KeepModuleOfScript("go.mod", line, p) = kept
    BY <1>1, <2>2 DEF Project!KeepModuleOfScript
  <2> QED BY <2>2, <2>3 DEF line, kept
<1>2. CASE p.module = p.name
  <2>1. "module" \in Project!Kinds
    BY DEF Project!Kinds
  <2>2. PICK pre \in Texts : /\ pre = Project!Before("module") /\ pre = Project!Directive
                             /\ Len(pre) \in Nat \ {0}
                             /\ Project!After("module") = <<>>
    BY <2>1, FrameIs, BeforeIs, AfterIs DEF Project!Before
  <2>3. \A t \in Texts : Around(pre, t, <<>>) = pre \o t
    BY ConcatEmptySeq DEF Around, Texts
  <2>4. PICK m \in Texts, h \in Texts :
          m = p.module /\ m # <<>> /\ h = Project!Placeholder
    BY IdentityHas, PlaceholderIs
  <2>5. /\ line = Project!Directive \o p.module
        /\ kept = Project!Directive \o Project!Placeholder
    BY <2>1, <2>2, <2>3, <2>4, LineIs
  <2>6. Project!Replace(pre \o m, pre \o m, pre \o h) = pre \o h
    <3>1. pre \o m \in Texts /\ pre \o h \in Texts /\ Len(pre \o m) = Len(pre) + Len(m) /\ Len(m) \in Nat
      BY ConcatProperties, LenProperties DEF Texts
    <3>2. pre \o m # <<>>
      <4>1. Len(pre \o m) # 0
        BY <3>1, <2>2
      <4> QED BY <4>1
    <3> QED BY <3>1, <3>2, ReplaceWhole
  <2>7. Project!Replace(line, Project!Directive \o p.module, Project!Directive \o Project!Placeholder)
          = kept
    BY <2>2, <2>4, <2>5, <2>6
  <2> HIDE DEF line, kept
  <2>8. Project!KeepModule("go.mod", line, p) = kept
    BY <1>2, <2>7 DEF Project!KeepModule
  <2>9. Project!KeepModuleOfScript("go.mod", line, p) = kept
    BY <1>2, <2>5 DEF Project!KeepModuleOfScript
  <2> QED BY <2>8, <2>9 DEF line, kept
<1> QED BY <1>1, <1>2

IsJoined(s, t, u, v) == ((s \o t) \o u) \o v = Around(s, t, u \o v)

LEMMA JoinedTwice ==
  ASSUME NEW s \in Texts, NEW t \in Texts, NEW u \in Texts, NEW v \in Texts
  PROVE  IsJoined(s, t, u, v)
<1>1. PICK r \in Texts : r = s \o t
  BY ConcatProperties DEF Texts
<1>2. PICK w \in Texts : w = u \o v
  BY ConcatProperties DEF Texts
<1>3. (r \o u) \o v = r \o (u \o v)
  <2>1. Joins(r, u, v)
    BY TextsJoin
  <2> QED BY <2>1, Zenon DEF Joins
<1>4. (s \o t) \o w = Around(s, t, w)
  BY JoinedIs, Zenon
<1> QED BY <1>1, <1>2, <1>3, <1>4, Zenon DEF IsJoined

\* An import has the module path in quotes with a slash, and no other slash.
LEMMA ImportIs ==
  \E rest \in Texts :
     /\ rest \in Seq(Letters \ {"/"})
     /\ \A m \in Texts : Around(<<Project!Quote>>, m, Project!After("import"))
                           = Around(<<>>, Project!Quoted(m, "/"), rest)
<1>1. PICK q \in Texts, s \in Texts : q = <<Project!Quote>> /\ s = <<"/">>
  <2>1. <<Project!Quote>> \in Seq(Letters) /\ <<"/">> \in Seq(Letters)
    BY LettersAre, OneToken
  <2> QED BY <2>1 DEF Texts
<1>2. PICK rest \in Texts :
        rest \in Seq(Letters \ {"/"}) /\ Project!After("import") = s \o rest
  <2>1. Plain \ {"/", Project!Quote} \subseteq Letters \ {"/"}
    BY DEF Plain
  <2>2. Project!Quote \in Letters \ {"/"} /\ Letters \ {"/"} \subseteq Letters
    BY LettersAre
  <2>3. /\ Rest("import") \in Seq(Plain \ {"/", Project!Quote})
        /\ Project!After("import") = <<Mark("import")>> \o (Rest("import") \o <<Project!Quote>>)
    BY RestIs
  <2>4. Rest("import") \in Seq(Letters \ {"/"})
    BY <2>1, <2>3, SeqMonotonic, Zenon
  <2>5. Rest("import") \o <<Project!Quote>> \in Seq(Letters \ {"/"})
    BY <2>2, <2>4, TokenAfter
  <2>6. Rest("import") \o <<Project!Quote>> \in Texts
    BY <2>2, <2>5, SeqMonotonic, Zenon DEF Texts
  <2>7. Mark("import") = "/"
    BY DEF Mark
  <2> QED BY <1>1, <2>3, <2>5, <2>6, <2>7
<1>3. ASSUME NEW m \in Texts
      PROVE  Around(q, m, s \o rest) = Around(<<>>, Project!Quoted(m, "/"), rest)
  <2>1. PICK t \in Texts : t = (q \o m) \o s
    <3>1. q \o m \in Texts
      BY ConcatProperties DEF Texts
    <3> QED BY <3>1, ConcatProperties DEF Texts
  <2>2. t \o rest = Around(q, m, s \o rest)
    <3>1. ((q \o m) \o s) \o rest = Around(q, m, s \o rest)
      <4>1. IsJoined(q, m, s, rest)
        BY <1>1, <1>2, JoinedTwice
      <4> QED BY <4>1 DEF IsJoined
    <3> QED BY <2>1, <3>1
  <2>3. t = Project!Quoted(m, "/")
    BY <1>1, <2>1, Zenon DEF Project!Quoted
  <2>4. Around(<<>>, t, rest) = t \o rest
    <3>1. t \o rest \in Texts
      BY ConcatProperties DEF Texts
    <3> QED BY <3>1, ConcatEmptySeq DEF Around, Texts
  <2> QED BY <2>2, <2>3, <2>4
<1> QED BY <1>1, <1>2, <1>3

LEMMA ImportKept ==
  ASSUME NEW p \in Identities
  PROVE  LET line == Project!Line("import", p)
             kept == Around(Project!Before("import"), Project!Placeholder, Project!After("import"))
         IN  /\ Project!KeepModule("go", line, p) = kept
             /\ Project!KeepModuleOfScript("go", line, p) = kept
<1> DEFINE line == Project!Line("import", p)
           kept == Around(Project!Before("import"), Project!Placeholder, Project!After("import"))
<1>1. Project!KeepModule("go", line, p) = kept
  <2>1. CASE p.module # p.name
    <3>1. Project!Replace(line, p.module, Project!Placeholder) = kept
      BY <2>1, PathKept
    <3> HIDE DEF line, kept
    <3> QED BY <2>1, <3>1 DEF Project!KeepModule
  <2>2. CASE p.module = p.name
    <3>1. "import" \in Project!Kinds
      BY DEF Project!Kinds
    <3>2. Project!Before("import") = <<Project!Quote>>
      BY <3>1, BeforeIs
    <3>3. PICK m \in Texts, h \in Texts :
            m = p.module /\ h = Project!Placeholder /\ h[1] = "#" /\ Len(h) = 1 /\ h \in Seq({"#"})
      <4>1. Len(Project!Placeholder) = 1
        BY DEF Project!Placeholder
      <4> QED BY <4>1, IdentityHas, PlaceholderIs
    <3>4. PICK rest \in Texts :
            /\ rest \in Seq(Letters \ {"/"})
            /\ line = Around(<<>>, Project!Quoted(m, "/"), rest)
            /\ kept = Around(<<>>, Project!Quoted(h, "/"), rest)
      <4>1. line = Around(<<Project!Quote>>, m, Project!After("import"))
        BY <3>1, <3>2, <3>3, LineIs
      <4> QED BY <4>1, <3>2, <3>3, ImportIs
    <3>5. "/" \in Letters /\ Project!Quote \in Letters
      BY LettersAre
    <3>6. PICK a \in Texts, b \in Texts, c \in Texts, d \in Texts :
            /\ a = Project!Quoted(m, "/") /\ a # <<>> /\ HasToken(a, "/")
            /\ b = Project!Quoted(h, "/")
            /\ c = Project!Quoted(m, Project!Quote) /\ c # <<>>
            /\ d = Project!Quoted(h, Project!Quote)
      BY <3>5, KeptIs
    <3> HIDE DEF line, kept
    <3>7. Project!Replace(line, a, b) = kept
      <4>1. PICK e \in Texts : e = <<>> /\ Ends(e, Letters) /\ ~ Project!Holds(e, a)
        BY NothingHolds DEF Ends
      <4>2. ~ Project!Holds(rest, a)
        BY <3>4, <3>6, Missing DEF HasToken
      <4>3. a \in Seq(Letters)
        BY DEF Texts
      <4>4. Project!Replace(Around(e, a, rest), a, b) = Around(e, b, rest)
        BY <4>1, <4>2, <4>3, <3>6, ReplaceOnce
      <4> QED BY <4>1, <4>4, <3>4, <3>6
    <3>8. Project!Replace(kept, c, d) = kept
      <4>1. PICK x \in Texts : x \in Seq(Letters \ {Project!Quote})
                               /\ kept = Project!Quoted(h \o x, Project!Quote)
        <5>1. "import" \in {"import", "prefix"}
          OBVIOUS
        <5> QED BY <5>1, <3>2, <3>3, QuotedWith DEF kept
      <4>2. PICK y \in Texts : y = h \o x /\ y \in Seq(Letters \ {Project!Quote}) /\ y[1] = "#" /\ Len(y) \in Nat \ {0}
        <5>1. {"#"} \subseteq Letters \ {Project!Quote}
          BY LettersAre
        <5>2. h \in Seq(Letters \ {Project!Quote})
          BY <3>3, <5>1, SeqMonotonic
        <5>3. h \o x \in Seq(Letters \ {Project!Quote})
          BY <4>1, <5>2, ConcatProperties
        <5>4. /\ Len(x) \in Nat /\ h \o x \in Texts /\ Len(h \o x) = Len(h) + Len(x)
              /\ \A i \in 1 .. Len(h) + Len(x) :
                   (h \o x)[i] = IF i <= Len(h) THEN h[i] ELSE x[i - Len(h)]
          BY ConcatProperties, LenProperties DEF Texts
        <5>5. (h \o x)[1] = "#" /\ Len(h \o x) \in Nat \ {0}
          BY <5>4, <3>3
        <5> QED BY <5>3, <5>4, <5>5, Zenon
      <4>3. m # y
        <5>1. m[1] \in NameTokens
          <6>1. m \in Seq(NameTokens) /\ m # <<>>
            BY <2>2, <3>3, IdentityHas
          <6>2. 1 \in 1 .. Len(m)
            BY <6>1, EmptySeq
          <6> QED BY <6>1, <6>2, ElementOfSeq
        <5> QED BY <5>1, <4>2, LettersAre
      <4>4. ~ Project!Holds(kept, c)
        BY <4>1, <4>2, <4>3, <3>6, QuotedAlone
      <4>5. kept \in Texts
        <5>1. Project!Quoted(y, Project!Quote) \in Texts
          BY <3>5, KeptIs
        <5> QED BY <5>1, <4>1, <4>2
      <4> QED BY <4>4, <4>5, <3>6, ReplaceNone
    <3> QED BY <2>2, <3>3, <3>6, <3>7, <3>8, Zenon DEF Project!KeepModule
  <2> QED BY <2>1, <2>2
<1> HIDE DEF line, kept
<1>2. Project!KeepModuleOfScript("go", line, p) = kept
  BY <1>1 DEF Project!KeepModuleOfScript
<1> QED BY <1>1, <1>2 DEF line, kept

-----------------------------------------------------------------------------
(* What is asked and what becomes of it                                    *)

RenameInv ==
  asked # None =>
    \E from \in Identities, to \in Identities, kind \in Project!Kinds :
    \E f \in Project!FilesOf(kind) :
       /\ from # to /\ to.module # to.name
       /\ asked = [kind |-> kind, file |-> f, from |-> from, to |-> to]
       /\ renamed = [tool   |-> Project!ReplaceProjectContent(f, Project!Line(kind, from), from, to),
                     script |-> Project!Rewrite(f, Project!Line(kind, from), from, to)]

\* What the two programs leave of a line that both keep the same of.
LEMMA Rewritten ==
  ASSUME NEW from \in Identities, NEW to \in Identities, NEW text, NEW kept,
         NEW f \in {"go", "go.mod", "text", "json", "rename.sh"},
         Project!KeepModule(f, text, from) = kept, Project!KeepModuleOfScript(f, text, from) = kept
  PROVE  /\ Project!ReplaceProjectContent(f, text, from, to)
              = IF f = "json" THEN text ELSE Project!ReplaceNames(kept, from, to)
         /\ Project!Rewrite(f, text, from, to)
              = IF f = "rename.sh" THEN text ELSE Project!ReplaceNames(kept, from, to)
BY DEF Project!ReplaceProjectContent, Project!Rewrite, Project!IsProjectTextFile, Project!IsTargetFile

\* In which files a line of a kind is.
LEMMA FilesAre ==
  ASSUME NEW kind \in Project!Kinds, NEW f \in Project!FilesOf(kind)
  PROVE  /\ kind = "import" => f = "go"
         /\ kind = "module" => f = "go.mod"
         /\ kind \in NameKinds => f \in {"go", "text", "json", "rename.sh"}
BY DEF Project!FilesOf, Project!Kinds, NameKinds

\* What both keep of a line: the place of the module path, or all of it.
LEMMA Kept ==
  ASSUME NEW p \in Identities, NEW kind \in Project!Kinds, NEW f \in Project!FilesOf(kind)
  PROVE  LET line == Project!Line(kind, p)
             isPath == kind \in {"import", "module"} \/ (kind = "literal" /\ f = "go" /\ p.module = p.name)
             kept == IF isPath
                     THEN Around(Project!Before(kind), Project!Placeholder, Project!After(kind))
                     ELSE line
         IN  Project!KeepModule(f, line, p) = kept /\ Project!KeepModuleOfScript(f, line, p) = kept
<1>1. CASE kind = "import"
  BY <1>1, FilesAre, ImportKept
<1>2. CASE kind = "module"
  BY <1>2, FilesAre, ModuleKept
<1>3. CASE kind = "literal" /\ f = "go" /\ p.module = p.name
  BY <1>3, LiteralKept
<1>4. CASE kind \in NameKinds /\ ~ (kind = "literal" /\ f = "go" /\ p.module = p.name)
  <2>1. f \in {"go", "text", "json", "rename.sh"}
    BY <1>4, FilesAre
  <2>2. kind \notin {"import", "module"}
    BY <1>4 DEF NameKinds
  <2> QED BY <1>4, <2>1, <2>2, NameLineKept
<1> QED BY <1>1, <1>2, <1>3, <1>4 DEF NameKinds

LEMMA RightOfInv == RenameInv => RenameIsRight
<1> SUFFICES ASSUME RenameInv, asked # None PROVE RenameIsRight
  BY DEF RenameIsRight, Project!RenameIsRight
<1>1. PICK from \in Identities, to \in Identities, kind \in Project!Kinds :
        \E f \in Project!FilesOf(kind) :
           /\ from # to /\ to.module # to.name
           /\ asked = [kind |-> kind, file |-> f, from |-> from, to |-> to]
           /\ renamed = [tool   |-> Project!ReplaceProjectContent(f, Project!Line(kind, from), from, to),
                         script |-> Project!Rewrite(f, Project!Line(kind, from), from, to)]
  BY DEF RenameInv
<1>2. PICK f \in Project!FilesOf(kind) :
           /\ from # to /\ to.module # to.name
           /\ asked = [kind |-> kind, file |-> f, from |-> from, to |-> to]
           /\ renamed = [tool   |-> Project!ReplaceProjectContent(f, Project!Line(kind, from), from, to),
                         script |-> Project!Rewrite(f, Project!Line(kind, from), from, to)]
  BY <1>1
<1> DEFINE line == Project!Line(kind, from)
           pre == Project!Before(kind)
           post == Project!After(kind)
           literal == kind = "literal" /\ f = "go" /\ from.module = from.name
           isPath == kind \in {"import", "module"} \/ literal
           kept == IF isPath THEN Around(pre, Project!Placeholder, post) ELSE line
           wanted == IF literal THEN Project!Quoted(to.module, Project!Quote)
                     ELSE Project!Line(kind, to)
           inWord == Project!Holds(pre, from.name) \/ Project!Holds(post, from.name)
           exempt == (Twice(from, to) /\ kind \notin {"import", "module"}) \/ inWord
           tool == Project!ReplaceProjectContent(f, line, from, to)
           script == Project!Rewrite(f, line, from, to)
           right == /\ tool = wanted \/ exempt \/ (f = "json" /\ tool = line)
                    /\ \/ script = tool
                       \/ f = "json" /\ (script = Project!Line(kind, to) \/ exempt)
                       \/ f = "rename.sh" /\ script = line
<1>3. right => RenameIsRight
  BY <1>2 DEF RenameIsRight, Project!RenameIsRight, Twice
<1>4. /\ tool = IF f = "json" THEN line ELSE Project!ReplaceNames(kept, from, to)
      /\ script = IF f = "rename.sh" THEN line ELSE Project!ReplaceNames(kept, from, to)
  <2>1. Project!KeepModule(f, line, from) = kept /\ Project!KeepModuleOfScript(f, line, from) = kept
    BY Kept
  <2>2. f \in {"go", "go.mod", "text", "json", "rename.sh"}
    BY FilesAre DEF NameKinds
  <2> HIDE DEF line, kept
  <2> QED BY <2>1, <2>2, Rewritten
<1>5. exempt \/ Project!ReplaceNames(kept, from, to) = wanted
  <2> SUFFICES ASSUME ~ exempt PROVE Project!ReplaceNames(kept, from, to) = wanted
    OBVIOUS
  <2>1. CASE isPath
    <3>1. Project!ReplaceNames(kept, from, to) = Around(pre, to.module, post)
      BY <2>1, PlaceholderReplaced
    <3>2. CASE kind \in {"import", "module"}
      <4>1. Project!Line(kind, to) = Around(pre, to.module, post)
        BY <3>2, LineIs
      <4> QED BY <3>1, <3>2, <4>1
    <3>3. CASE literal
      <4>1. pre = <<Project!Quote>> /\ post = <<Project!Quote>>
        BY <3>3, BeforeIs, AfterIs
      <4>2. Project!Quoted(to.module, Project!Quote) = Around(<<Project!Quote>>, to.module, <<Project!Quote>>)
        BY LettersAre, IdentityHas, KeptIs
      <4> QED BY <3>1, <3>3, <4>1, <4>2
    <3> QED BY <2>1, <3>2, <3>3
  <2>2. CASE ~ isPath
    <3>1. kind \in NameKinds
      BY <2>2 DEF NameKinds
    <3>2. /\ ~ Twice(from, to)
          /\ ~ Project!Holds(Project!Before(kind), from.name)
          /\ ~ Project!Holds(Project!After(kind), from.name)
      BY <2>2
    <3>3. /\ Project!ReplaceNames(Around(pre, from.name, post), from, to) = Around(pre, to.name, post)
          /\ Project!ReplaceNames(Around(pre, Project!Underscored(from.name), post), from, to)
               = Around(pre, Project!Underscored(to.name), post)
      BY <3>2, NameReplaced
    <3>4. CASE kind = "database"
      <4>1. /\ line = Around(pre, Project!Underscored(from.name), post)
            /\ Project!Line(kind, to) = Around(pre, Project!Underscored(to.name), post)
        BY <3>4, LineIs
      <4> QED BY <2>2, <3>3, <4>1
    <3>5. CASE kind # "database"
      <4>1. /\ line = Around(pre, from.name, post)
            /\ Project!Line(kind, to) = Around(pre, to.name, post)
        BY <3>1, <3>5, LineIs
      <4> QED BY <2>2, <3>3, <4>1
    <3> QED BY <3>4, <3>5
  <2> QED BY <2>1, <2>2
<1>6. right
  <2>1. literal => f # "json"
    OBVIOUS
  <2> HIDE DEF line, kept, exempt, literal, tool, script
  <2> QED BY <1>4, <1>5, <2>1
<1> QED BY <1>3, <1>6

-----------------------------------------------------------------------------
(* Theorems                                                                *)

LEMMA InitInv == Init => ErrorInv /\ ConfigInv /\ RenameInv
  BY DEF Init, Error!Init, Config!Init, Project!Init, ErrorInv, ConfigInv, RenameInv

\* Handling an error does what the invariant says and leaves the settings alone.
LEMMA ErrorStep ==
  ASSUME Error!HandleError
  PROVE  ErrorInv'
<1>1. PICK errors \in Error!SeqOf(Error!Errors, MaxErrors) \ {<<>>} :
        chain' = errors /\ answer' = Answer(errors)
  BY DEF Error!HandleError, Answer
<1>2. errors \in Seq(Error!Errors)
  BY ErrorAssumption DEF Error!SeqOf
<1> QED BY <1>1, <1>2 DEF ErrorInv

LEMMA ConfigStep ==
  ASSUME Config!Configure
  PROVE  ConfigInv'
<1>1. PICK f \in Files :
        /\ loaded' = Config!Load(f)
        /\ realms' = IF Config!Load(f) = None THEN None ELSE Config!NewRealms(Config!Load(f))
  BY DEF Config!Configure
<1> QED BY <1>1, LoadAccepts DEF ConfigInv

LEMMA RenameStep ==
  ASSUME Project!Rename
  PROVE  RenameInv'
BY DEF Project!Rename, RenameInv

LEMMA StepInv ==
  ErrorInv /\ ConfigInv /\ RenameInv /\ [Next]_vars => (ErrorInv' /\ ConfigInv' /\ RenameInv')
<1> SUFFICES ASSUME ErrorInv, ConfigInv, RenameInv, [Next]_vars
             PROVE  ErrorInv' /\ ConfigInv' /\ RenameInv'
  OBVIOUS
<1>1. UNCHANGED <<chain, answer>> => ErrorInv'
  BY DEF ErrorInv
<1>2. UNCHANGED <<file, loaded, realms>> => ConfigInv'
  BY DEF ConfigInv
<1>3. UNCHANGED <<asked, renamed>> => RenameInv'
  BY DEF RenameInv
<1>4. CASE Error!HandleError /\ UNCHANGED <<file, loaded, realms, asked, renamed>>
  BY <1>2, <1>3, <1>4, ErrorStep
<1>5. CASE Config!Configure /\ UNCHANGED <<chain, answer, asked, renamed>>
  BY <1>1, <1>3, <1>5, ConfigStep
<1>6. CASE Project!Rename /\ UNCHANGED <<chain, answer, file, loaded, realms>>
  BY <1>1, <1>2, <1>6, RenameStep
<1>7. CASE UNCHANGED vars
  BY <1>1, <1>2, <1>3, <1>7 DEF vars
<1> QED BY <1>4, <1>5, <1>6, <1>7 DEF Next

\* A failure is answered by the convention, whatever the chain of errors is and
\* however long (response.go:44-88, error.go:37-48, server.go:79-93).
THEOREM FailuresConventional == Spec => []StatusIsInCode
<1>1. ErrorInv => StatusIsInCode
  <2> SUFFICES ASSUME ErrorInv, chain # None PROVE Error!StatusIsInCode
    BY DEF StatusIsInCode, Error!StatusIsInCode
  <2> QED BY ResolveRight DEF ErrorInv
<1> QED BY <1>1, InitInv, StepInv, PTL DEF Spec

\* Whatever a file says, settings that Load accepts serve both realms, and no key
\* is the key of two things (config.go:207-316, realm.go:52-79, index.go:117-131).
THEOREM AcceptedSuffice == Spec => []LoadSuffices
<1>1. ConfigInv => LoadSuffices
  BY RealmsRight DEF LoadSuffices
<1> QED BY <1>1, InitInv, StepInv, PTL DEF Spec

\* A renamed project reads as if it had been written under its new module path
\* and name, whatever those and the old ones are, and whichever of the two programs
\* renamed it, but for what RenameIsRight names (project.go:159-186,
\* rename.sh:146-178).
THEOREM RenamedRight == Spec => []RenameIsRight
<1>1. RenameInv => RenameIsRight
  BY RightOfInv
<1> QED BY <1>1, InitInv, StepInv, PTL DEF Spec
=============================================================================
