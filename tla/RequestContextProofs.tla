------------------------ MODULE RequestContextProofs ------------------------
(***************************************************************************)
(* Proofs about RequestContext: for any realms, identities and tokens and  *)
(* any order of calls on one context, the request session names the login  *)
(* that made its token, and what a login returned can be found by the      *)
(* index while it is stored.                                               *)
(***************************************************************************)
EXTENDS RequestContext, TLAPS

-----------------------------------------------------------------------------
(* The inductive invariant                                                 *)

Owned(r, t, who) == owner[t] = [realm |-> r, who |-> who]

\* Whatever carries a token carries the identity of the login that made it.
StoreOK == \A r \in Realms, t \in Tokens : store[r][t] # None => Owned(r, t, store[r][t])
IndexOK == \A r \in Realms : \A e \in index[r] : Owned(r, e.token, e.who)
DataOK ==
    \A r \in Realms : data[r] # None =>
        /\ data[r].token = None <=> data[r].who = None
        /\ data[r].token # None => Owned(r, data[r].token, data[r].who)

\* The request session came with SCS data, which a Login may have replaced since;
\* then its own token is stored no more.
SessionOK ==
    session # None =>
        /\ data[session.realm] # None
        /\ session.token \notin reused =>
             \/ data[session.realm].token = session.token
             \/ store[session.realm][session.token] = None

IInv ==
    /\ TypeOK
    /\ StoreOK /\ IndexOK /\ DataOK /\ SessionOK
    /\ \A t \in issued : owner[t] # None
    /\ PrincipalOfToken
    /\ Indexed

-----------------------------------------------------------------------------
LEMMA InitInv == Init => IInv
<1> SUFFICES ASSUME Init PROVE IInv
  OBVIOUS
<1>1. TypeOK
  BY DEF Init, TypeOK
<1>2. StoreOK /\ IndexOK /\ DataOK /\ SessionOK
  BY DEF Init, StoreOK, IndexOK, DataOK, SessionOK
<1>3. PrincipalOfToken /\ Indexed /\ \A t \in issued : owner[t] # None
  BY DEF Init, PrincipalOfToken, Indexed
<1> QED BY <1>1, <1>2, <1>3 DEF IInv

\* A token has one owner.
LEMMA OneOwner ==
  ASSUME NEW r, NEW q, NEW t, NEW v, NEW w, Owned(r, t, v), Owned(q, t, w)
  PROVE  r = q /\ v = w
<1>1. [realm |-> r, who |-> v] = [realm |-> q, who |-> w]
  BY DEF Owned
<1> QED BY <1>1

\* A token that a login has made is made by no other one.
LEMMA NotFresh ==
  ASSUME IInv, NEW t \in Tokens, owner[t] = None
  PROVE  /\ \A r \in Realms : store[r][t] = None
         /\ \A r \in Realms : \A e \in index[r] : e.token # t
         /\ \A r \in Realms : data[r] # None => data[r].token # t
         /\ t \notin issued
         /\ session # None /\ session.token = t => t \in reused
<1>1. ASSUME NEW r \in Realms, NEW w \in Identity
      PROVE  ~Owned(r, t, w)
  BY NoneAssumption DEF Owned, Made
<1>2. \A r \in Realms : store[r][t] \in Identity \cup {None}
  BY DEF IInv, TypeOK
<1>3. \A r \in Realms : store[r][t] = None
  BY <1>1, <1>2 DEF IInv, StoreOK
<1>4. ASSUME NEW r \in Realms, NEW e \in index[r], e.token = t PROVE FALSE
  <2>1. e.who \in Identity
    BY DEF IInv, TypeOK
  <2> QED BY <1>1, <1>4, <2>1 DEF IInv, IndexOK
<1>5. ASSUME NEW r \in Realms, data[r] # None, data[r].token = t PROVE FALSE
  <2>1. data[r] \in Data
    BY <1>5 DEF IInv, TypeOK
  <2>2. t # None /\ data[r].who \in Identity \cup {None}
    BY <2>1, NoneAssumption DEF Data
  <2> QED BY <1>1, <1>5, <2>2 DEF IInv, DataOK
<1>6. ASSUME session # None, session.token = t PROVE t \in reused
  <2>1. session.realm \in Realms /\ session.principal \in Identity
    BY <1>6 DEF IInv, TypeOK, RequestSession
  <2> QED BY <1>1, <1>6, <2>1 DEF IInv, PrincipalOfToken, Owned
<1> QED BY <1>3, <1>4, <1>5, <1>6 DEF IInv

\* What the invariant says of the places that a token is in.
LEMMA Types ==
  ASSUME IInv, NEW r \in Realms
  PROVE  /\ store \in [Realms -> [Tokens -> Identity \cup {None}]]
         /\ index \in [Realms -> SUBSET [token : Tokens, who : Identity]]
         /\ data \in [Realms -> Data \cup {None}]
         /\ owner \in [Tokens -> Made \cup {None}]
         /\ issued \subseteq Tokens /\ reused \subseteq Tokens
         /\ data[r] # None =>
              /\ data[r].token \in Tokens \cup {None} /\ data[r].who \in Identity \cup {None}
              /\ data[r] = Entry(data[r].token, data[r].who)
              /\ data[r].token = None <=> data[r].who = None
BY DEF IInv, TypeOK, DataOK, Data, Entry

-----------------------------------------------------------------------------
(* One lemma per operation                                                 *)

\* Authenticate stores a login of the token's owner, in Redis and, when it is
\* answered, in the context.
Stores(r, t, answered, k, w) ==
    /\ Owned(r, k, w)
    /\ store' = [store EXCEPT ![r][k] = w]
    /\ store[r][k] \in {w, None}
    /\ answered =>
         /\ data' = [data EXCEPT ![r] = Entry(k, w)]
         /\ session' = [realm |-> r, token |-> t, principal |-> w]
         /\ reused' = IF t # k \/ store[r][t] = None THEN reused \cup {t, k} ELSE reused
    /\ ~ answered =>
         /\ UNCHANGED <<data, session>>
         /\ reused' = IF t # k \/ store[r][t] = None THEN reused \cup {k} ELSE reused

LEMMA AuthenticateEffect ==
  ASSUME IInv, NEW r \in Realms, NEW t \in Tokens, NEW answered \in BOOLEAN,
         Authenticate(r, t, answered)
  PROVE  /\ UNCHANGED <<index, owner, issued>>
         /\ session # None => session.realm # r
         /\ \E k \in Tokens, w \in Identity : Stores(r, t, answered, k, w)
<1>1. UNCHANGED <<index, owner, issued>> /\ (session # None => session.realm # r)
  BY DEF Authenticate
<1>2. CASE data[r] # None
  <2>1. data[r].who # None /\ data[r].token # None
    BY <1>2, Types DEF Authenticate
  <2>2. Owned(r, data[r].token, data[r].who)
    BY <1>2, <2>1 DEF IInv, DataOK
  <2>3. data[r].token \in Tokens /\ data[r].who \in Identity
    BY <1>2, <2>1, Types
  <2>4. store[r][data[r].token] \in {data[r].who, None}
    <3>1. store[r][data[r].token] # None =>
            Owned(r, data[r].token, store[r][data[r].token])
      BY <2>3 DEF IInv, StoreOK
    <3> QED BY <2>2, <3>1, OneOwner
  <2>5. /\ store' = [store EXCEPT ![r][data[r].token] = data[r].who]
        /\ answered =>
             /\ data' = [data EXCEPT ![r] = data[r]]
             /\ session' = [realm |-> r, token |-> t, principal |-> data[r].who]
             /\ reused' = IF t # data[r].token \/ store[r][t] = None
                          THEN reused \cup {t, data[r].token} ELSE reused
        /\ ~ answered =>
             /\ UNCHANGED <<data, session>>
             /\ reused' = IF t # data[r].token \/ store[r][t] = None
                          THEN reused \cup {data[r].token} ELSE reused
    BY <1>2 DEF Authenticate
  <2>6. data[r] = Entry(data[r].token, data[r].who)
    BY <1>2, Types
  <2>7. Stores(r, t, answered, data[r].token, data[r].who)
    BY <2>2, <2>4, <2>5, <2>6 DEF Stores
  <2> QED BY <1>1, <2>3, <2>7
<1>3. CASE data[r] = None
  <2>1. store[r][t] # None /\ store[r][t] \in Identity /\ Owned(r, t, store[r][t])
    <3>1. store[r][t] # None
      BY <1>3 DEF Authenticate, Entry
    <3>2. store[r][t] \in Identity
      BY <3>1, Types
    <3> QED BY <3>1, <3>2 DEF IInv, StoreOK
  <2>2. /\ store' = [store EXCEPT ![r][t] = store[r][t]]
        /\ answered =>
             /\ data' = [data EXCEPT ![r] = Entry(t, store[r][t])]
             /\ session' = [realm |-> r, token |-> t, principal |-> store[r][t]]
             /\ reused' = reused
        /\ ~ answered => UNCHANGED <<data, session, reused>>
    BY <1>3 DEF Authenticate, Entry
  <2>3. Stores(r, t, answered, t, store[r][t])
    BY <2>1, <2>2 DEF Stores
  <2> QED BY <1>1, <2>1, <2>3
<1> QED BY <1>2, <1>3

LEMMA InvAuthenticate ==
  ASSUME IInv, NEW r \in Realms, NEW t \in Tokens, NEW answered \in BOOLEAN,
         Authenticate(r, t, answered), answered
  PROVE  IInv'
<1>1. UNCHANGED <<index, owner, issued>>
  BY AuthenticateEffect
<1>2. PICK k \in Tokens, w \in Identity :
        /\ Owned(r, k, w)
        /\ store' = [store EXCEPT ![r][k] = w]
        /\ data' = [data EXCEPT ![r] = Entry(k, w)]
        /\ session' = [realm |-> r, token |-> t, principal |-> w]
        /\ reused' = IF t # k \/ store[r][t] = None
                     THEN reused \cup {t, k} ELSE reused
        /\ store[r][k] \in {w, None}
  <2>1. PICK k \in Tokens, w \in Identity : Stores(r, t, answered, k, w)
    BY AuthenticateEffect
  <2> QED BY <2>1 DEF Stores
<1>3. /\ store' \in [Realms -> [Tokens -> Identity \cup {None}]]
      /\ \A x \in Realms, y \in Tokens : store'[x][y] = IF x = r /\ y = k THEN w ELSE store[x][y]
  BY <1>2, Types
<1>4. /\ data' \in [Realms -> Data \cup {None}]
      /\ \A x \in Realms : data'[x] = IF x = r THEN Entry(k, w) ELSE data[x]
  BY <1>2, Types DEF Data, Entry
<1>5. Entry(k, w) # None /\ Entry(k, w).token = k /\ Entry(k, w).who = w /\ k # None /\ w # None
  BY NoneAssumption DEF Entry, Data
<1>6. /\ session' \in RequestSession /\ session'.realm = r /\ session'.token = t
      /\ session'.principal = w
  BY <1>2 DEF RequestSession
<1>7. /\ reused' \subseteq Tokens /\ reused \subseteq reused'
      /\ t \notin reused' => t = k
      /\ k \notin reused' => t = k /\ store[r][k] = w
  BY <1>2, Types
<1>8. Owned(r, k, w)'
  BY <1>1, <1>2 DEF Owned
<1>9. TypeOK'
  BY <1>1, <1>3, <1>4, <1>6, <1>7, Types DEF TypeOK
<1>10. StoreOK'
  <2>1. ASSUME NEW x \in Realms, NEW y \in Tokens, store'[x][y] # None
        PROVE  owner'[y] = [realm |-> x, who |-> store'[x][y]]
    <3>1. CASE x = r /\ y = k
      BY <1>3, <1>8, <3>1 DEF Owned
    <3>2. CASE ~(x = r /\ y = k)
      BY <1>1, <1>3, <2>1, <3>2 DEF IInv, StoreOK, Owned
    <3> QED BY <3>1, <3>2
  <2> QED BY <2>1 DEF StoreOK, Owned
<1>11. IndexOK'
  BY <1>1 DEF IInv, IndexOK, Owned
<1>12. DataOK'
  <2>1. ASSUME NEW x \in Realms, data'[x] # None
        PROVE  /\ data'[x].token = None <=> data'[x].who = None
               /\ data'[x].token # None =>
                    owner'[data'[x].token] = [realm |-> x, who |-> data'[x].who]
    <3>1. CASE x = r
      BY <1>4, <1>5, <1>8, <3>1 DEF Owned
    <3>2. CASE x # r
      <4>1. data'[x] = data[x] /\ data[x] # None
        BY <1>4, <2>1, <3>2
      <4> QED BY <1>1, <4>1 DEF IInv, DataOK, Owned
    <3> QED BY <3>1, <3>2
  <2> QED BY <2>1 DEF DataOK, Owned
<1>13. SessionOK'
  BY <1>4, <1>5, <1>6, <1>7 DEF SessionOK
<1>14. PrincipalOfToken'
  BY <1>6, <1>7, <1>8 DEF PrincipalOfToken, Owned
<1>15. Indexed'
  <2>1. ASSUME NEW x \in Realms, NEW y \in issued, y \notin reused', store'[x][y] # None
        PROVE  store'[x][y] = store[x][y] /\ y \notin reused
    BY <1>3, <1>7, <2>1, Types
  <2>2. ASSUME NEW x \in Realms, NEW y \in issued, y \notin reused', store'[x][y] # None
        PROVE  Entry(y, store'[x][y]) \in index[x]
    BY <2>1, <2>2 DEF IInv, Indexed
  <2> QED BY <1>1, <2>2 DEF Indexed
<1>16. \A y \in issued' : owner'[y] # None
  BY <1>1 DEF IInv
<1> QED BY <1>9, <1>10, <1>11, <1>12, <1>13, <1>14, <1>15, <1>16 DEF IInv

\* An Authenticate whose Commit is not answered stores a login and leaves the
\* context as it was.
LEMMA InvUnanswered ==
  ASSUME IInv, NEW r \in Realms, NEW t \in Tokens, NEW answered \in BOOLEAN,
         Authenticate(r, t, answered), ~ answered
  PROVE  IInv'
<1>1. /\ UNCHANGED <<index, owner, issued, data, session>>
      /\ session # None => session.realm # r
  <2>1. UNCHANGED <<index, owner, issued>> /\ (session # None => session.realm # r)
    BY AuthenticateEffect
  <2>2. PICK k \in Tokens, w \in Identity : Stores(r, t, answered, k, w)
    BY AuthenticateEffect
  <2> QED BY <2>1, <2>2 DEF Stores
<1>2. PICK k \in Tokens, w \in Identity :
        /\ Owned(r, k, w)
        /\ store' = [store EXCEPT ![r][k] = w]
        /\ reused' = IF t # k \/ store[r][t] = None
                     THEN reused \cup {k} ELSE reused
        /\ store[r][k] \in {w, None}
  <2>1. PICK k \in Tokens, w \in Identity : Stores(r, t, answered, k, w)
    BY AuthenticateEffect
  <2> QED BY <2>1 DEF Stores
<1>3. /\ store' \in [Realms -> [Tokens -> Identity \cup {None}]]
      /\ \A x \in Realms, y \in Tokens : store'[x][y] = IF x = r /\ y = k THEN w ELSE store[x][y]
  BY <1>2, Types
<1>4. /\ reused' \subseteq Tokens /\ reused \subseteq reused'
      /\ k \notin reused' => store[r][k] = w
  BY <1>2, Types
<1>5. TypeOK'
  BY <1>1, <1>3, <1>4 DEF IInv, TypeOK
<1>6. StoreOK'
  <2>1. ASSUME NEW x \in Realms, NEW y \in Tokens, store'[x][y] # None
        PROVE  Owned(x, y, store'[x][y])
    <3>1. CASE x = r /\ y = k
      BY <1>2, <1>3, <3>1
    <3>2. CASE ~(x = r /\ y = k)
      BY <1>3, <2>1, <3>2 DEF IInv, StoreOK
    <3> QED BY <3>1, <3>2
  <2> QED BY <1>1, <2>1 DEF StoreOK, Owned
<1>7. IndexOK' /\ DataOK'
  BY <1>1 DEF IInv, IndexOK, DataOK, Owned
<1>8. SessionOK'
  <2>1. session # None => session.realm \in Realms /\ session.token \in Tokens
    BY DEF IInv, TypeOK, RequestSession
  <2>2. session # None => store'[session.realm][session.token] = store[session.realm][session.token]
    BY <1>1, <1>3, <2>1
  <2> QED BY <1>1, <1>4, <2>2 DEF IInv, SessionOK
<1>9. PrincipalOfToken'
  BY <1>1, <1>4 DEF IInv, PrincipalOfToken
<1>10. Indexed'
  <2>1. ASSUME NEW x \in Realms, NEW y \in issued, y \notin reused', store'[x][y] # None
        PROVE  store'[x][y] = store[x][y] /\ y \notin reused
    BY <1>3, <1>4, <2>1, Types
  <2>2. ASSUME NEW x \in Realms, NEW y \in issued, y \notin reused', store'[x][y] # None
        PROVE  Entry(y, store'[x][y]) \in index[x]
    BY <2>1, <2>2 DEF IInv, Indexed
  <2> QED BY <1>1, <2>2 DEF Indexed
<1>11. \A y \in issued' : owner'[y] # None
  BY <1>1 DEF IInv
<1> QED BY <1>5, <1>6, <1>7, <1>8, <1>9, <1>10, <1>11 DEF IInv

\* The other operations: nothing that is stored, indexed or issued changes its
\* owner, and a new token gets one.
LEMMA KeepStep ==
  ASSUME IInv, TypeOK', DataOK', SessionOK', Indexed',
         \A x \in Tokens : owner[x] # None => owner'[x] = owner[x],
         \A q \in Realms, x \in Tokens : store'[q][x] # None =>
           \/ store'[q][x] = store[q][x]
           \/ owner'[x] = [realm |-> q, who |-> store'[q][x]],
         \A q \in Realms : \A e \in index'[q] :
           e \in index[q] \/ owner'[e.token] = [realm |-> q, who |-> e.who],
         \A x \in issued' : x \in issued \/ owner'[x] # None,
         UNCHANGED reused,
         session' = session \/ session' = None
  PROVE  IInv'
<1>1. ASSUME NEW q \in Realms, NEW x \in Tokens, NEW w \in Identity, Owned(q, x, w)
      PROVE  owner'[x] = [realm |-> q, who |-> w]
  <2>1. owner[x] # None
    BY <1>1, NoneAssumption DEF Owned, Made
  <2> QED BY <1>1, <2>1 DEF Owned
<1>2. StoreOK'
  <2>1. ASSUME NEW q \in Realms, NEW x \in Tokens, store'[q][x] # None
        PROVE  owner'[x] = [realm |-> q, who |-> store'[q][x]]
    <3>1. CASE store'[q][x] = store[q][x]
      <4>1. store[q][x] \in Identity /\ Owned(q, x, store[q][x])
        <5>1. store[q][x] \in Identity
          BY <2>1, <3>1, Types
        <5> QED BY <2>1, <3>1, <5>1 DEF IInv, StoreOK
      <4> QED BY <1>1, <3>1, <4>1
    <3> QED BY <2>1, <3>1
  <2> QED BY <2>1 DEF StoreOK, Owned
<1>3. IndexOK'
  <2>1. ASSUME NEW q \in Realms, NEW e \in index'[q]
        PROVE  owner'[e.token] = [realm |-> q, who |-> e.who]
    <3>1. CASE e \in index[q]
      <4>1. e.token \in Tokens /\ e.who \in Identity
        BY <3>1, Types
      <4>2. Owned(q, e.token, e.who)
        BY <3>1 DEF IInv, IndexOK
      <4> QED BY <1>1, <4>1, <4>2
    <3> QED BY <3>1
  <2> QED BY <2>1 DEF IndexOK, Owned
<1>4. PrincipalOfToken'
  <2>1. ASSUME session' # None, session'.token \notin reused'
        PROVE  owner'[session'.token] =
                 [realm |-> session'.realm, who |-> session'.principal]
    <3>1. /\ session' = session /\ session.token \notin reused
          /\ session.realm \in Realms /\ session.token \in Tokens
          /\ session.principal \in Identity
      BY <2>1 DEF IInv, TypeOK, RequestSession
    <3>2. Owned(session.realm, session.token, session.principal)
      BY <2>1, <3>1 DEF IInv, PrincipalOfToken, Owned
    <3> QED BY <1>1, <3>1, <3>2
  <2> QED BY <2>1 DEF PrincipalOfToken
<1>5. \A x \in issued' : owner'[x] # None
  <2>1. \A x \in issued : x \in Tokens /\ owner[x] # None
    BY DEF IInv, TypeOK
  <2> QED BY <2>1
<1> QED BY <1>2, <1>3, <1>4, <1>5 DEF IInv

LEMMA InvLoginElsewhere ==
  ASSUME IInv, NEW r \in Realms, NEW u \in Users, NEW d \in Devices, LoginElsewhere(r, u, d)
  PROVE  IInv'
<1> DEFINE who == [user |-> u, device |-> d]
<1>0. who \in Identity /\ who # None
  BY NoneAssumption DEF Identity
<1>1. PICK t \in Tokens :
        /\ owner[t] = None
        /\ store' = [store EXCEPT ![r][t] = who]
        /\ index' = [index EXCEPT ![r] = @ \cup {Entry(t, who)}]
        /\ owner' = [owner EXCEPT ![t] = [realm |-> r, who |-> who]]
        /\ issued' = issued \cup {t}
        /\ UNCHANGED <<context, reused>>
  BY DEF LoginElsewhere, Fresh
<1> HIDE DEF who
<1>2. Entry(t, who) \in [token : Tokens, who : Identity] /\ [realm |-> r, who |-> who] \in Made
      /\ Entry(t, who).token = t /\ Entry(t, who).who = who /\ [realm |-> r, who |-> who] # None
  BY <1>0, NoneAssumption DEF Entry, Made
<1>3. /\ store' \in [Realms -> [Tokens -> Identity \cup {None}]]
      /\ \A q \in Realms, x \in Tokens :
           store'[q][x] = IF q = r /\ x = t THEN who ELSE store[q][x]
  BY <1>0, <1>1, Types
<1>4. /\ index' \in [Realms -> SUBSET [token : Tokens, who : Identity]]
      /\ \A q \in Realms :
           index'[q] = IF q = r THEN index[q] \cup {Entry(t, who)} ELSE index[q]
  BY <1>1, <1>2, Types
<1>5. /\ owner' \in [Tokens -> Made \cup {None}]
      /\ owner'[t] = [realm |-> r, who |-> who]
      /\ \A x \in Tokens : x # t => owner'[x] = owner[x]
  BY <1>1, <1>2, Types
<1>6. UNCHANGED <<data, session, reused>>
  BY <1>1 DEF context
<1>7. TypeOK'
  BY <1>1, <1>3, <1>4, <1>5, <1>6 DEF IInv, TypeOK
<1>8. DataOK'
  <2>1. ASSUME NEW q \in Realms, data[q] # None, data[q].token # None
        PROVE  owner'[data[q].token] = [realm |-> q, who |-> data[q].who]
    <3>1. data[q].token \in Tokens /\ data[q].token # t
      BY <1>1, <2>1, NotFresh, Types
    <3> QED BY <1>5, <2>1, <3>1 DEF IInv, DataOK, Owned
  <2> QED BY <1>6, <2>1 DEF IInv, DataOK, Owned
<1>9. SessionOK'
  <2>1. session # None => session.token \in reused \/ session.token # t
    BY <1>1, NotFresh
  <2>2. session # None => session.realm \in Realms /\ session.token \in Tokens
    BY DEF IInv, TypeOK, RequestSession
  <2> QED BY <1>3, <1>6, <2>1, <2>2 DEF IInv, SessionOK
<1>10. Indexed'
  <2>1. ASSUME NEW q \in Realms, NEW x \in issued \cup {t}, x \notin reused, store'[q][x] # None
        PROVE  Entry(x, store'[q][x]) \in index'[q]
    <3>0. x \in Tokens
      BY Types
    <3>1. CASE q = r /\ x = t
      BY <1>3, <1>4, <3>1
    <3>2. CASE q # r /\ x = t
      BY <1>1, <1>3, <2>1, <3>2, NotFresh
    <3>3. CASE x # t
      <4>1. store'[q][x] = store[q][x] /\ x \in issued
        BY <1>3, <3>0, <3>3
      <4> QED BY <1>4, <2>1, <4>1 DEF IInv, Indexed
    <3> QED BY <3>1, <3>2, <3>3
  <2> QED BY <1>1, <1>6, <2>1 DEF Indexed
<1>11. \A q \in Realms : \A e \in index'[q] :
         e \in index[q] \/ owner'[e.token] = [realm |-> q, who |-> e.who]
  BY <1>2, <1>4, <1>5
<1>12. \A q \in Realms, x \in Tokens : store'[q][x] # None =>
         store'[q][x] = store[q][x] \/ owner'[x] = [realm |-> q, who |-> store'[q][x]]
  BY <1>3, <1>5
<1>13. \A x \in issued' : x \in issued \/ owner'[x] # None
  BY <1>1, <1>2, <1>5
<1> QED BY <1>1, <1>5, <1>6, <1>7, <1>8, <1>9, <1>10, <1>11, <1>12, <1>13, KeepStep

\* Operations that only take away.
LEMMA ShrinkStep ==
  ASSUME IInv, UNCHANGED history,
         store' \in [Realms -> [Tokens -> Identity \cup {None}]],
         index' \in [Realms -> SUBSET [token : Tokens, who : Identity]],
         data' \in [Realms -> Data \cup {None}],
         \A q \in Realms, x \in Tokens : store'[q][x] \in {store[q][x], None},
         \A q \in Realms : index'[q] \subseteq index[q],
         \A q \in Realms, x \in issued \ reused :
           store'[q][x] # None /\ Entry(x, store[q][x]) \in index[q]
             => Entry(x, store[q][x]) \in index'[q],
         \A q \in Realms : data'[q] \in {data[q], None, Empty},
         session' = session \/ session' = None, SessionOK'
  PROVE  IInv'
<1>0. UNCHANGED <<owner, issued, reused>>
  BY DEF history
<1>1. TypeOK'
  BY <1>0 DEF IInv, TypeOK
<1>2. DataOK'
  <2>1. ASSUME NEW q \in Realms, data'[q] # None
        PROVE  /\ data'[q].token = None <=> data'[q].who = None
               /\ data'[q].token # None =>
                    owner[data'[q].token] = [realm |-> q, who |-> data'[q].who]
    <3>1. CASE data'[q] = Empty
      BY <3>1 DEF Empty
    <3>2. CASE data'[q] = data[q]
      BY <2>1, <3>2 DEF IInv, DataOK, Owned
    <3> QED BY <2>1, <3>1, <3>2
  <2> QED BY <1>0, <2>1 DEF DataOK, Owned
<1>3. Indexed'
  <2>1. ASSUME NEW q \in Realms, NEW x \in issued \ reused, store'[q][x] # None
        PROVE  Entry(x, store'[q][x]) \in index'[q]
    <3>0. x \in Tokens
      BY Types
    <3>1. store'[q][x] = store[q][x] /\ store[q][x] # None
      BY <2>1, <3>0
    <3> QED BY <2>1, <3>1 DEF IInv, Indexed
  <2> QED BY <1>0, <2>1 DEF Indexed
<1> QED BY <1>0, <1>1, <1>2, <1>3, KeepStep

LEMMA InvNextRequest ==
  ASSUME IInv, NextRequest
  PROVE  IInv'
<1>1. /\ UNCHANGED <<store, index, history>> /\ session' = None
      /\ data' = [q \in Realms |-> None]
  BY DEF NextRequest
<1>2. SessionOK'
  BY <1>1 DEF SessionOK
<1>3. data' \in [Realms -> Data \cup {None}] /\ \A q \in Realms : data'[q] = None
  BY <1>1
<1>4. store \in [Realms -> [Tokens -> Identity \cup {None}]]
      /\ index \in [Realms -> SUBSET [token : Tokens, who : Identity]]
  BY DEF IInv, TypeOK
<1> QED BY <1>1, <1>2, <1>3, <1>4, ShrinkStep

LEMMA InvLogoutUser ==
  ASSUME IInv, NEW R \in SUBSET Realms, NEW u \in Users, LogoutUser(R, u)
  PROVE  IInv'
<1> DEFINE of(q) == {e \in index[q] : e.who.user = u}
<1>1. UNCHANGED <<data, session, history>>
  BY DEF LogoutUser, context
<1>2. /\ store' = [q \in Realms |-> [x \in Tokens |->
                     IF q \in R /\ \E e \in of(q) : e.token = x THEN None ELSE store[q][x]]]
      /\ index' = [q \in Realms |-> IF q \in R THEN index[q] \ of(q) ELSE index[q]]
  BY DEF LogoutUser
<1>3. /\ store' \in [Realms -> [Tokens -> Identity \cup {None}]]
      /\ \A q \in Realms, x \in Tokens : store'[q][x] \in {store[q][x], None}
  BY <1>2, Types
<1>4. /\ index' \in [Realms -> SUBSET [token : Tokens, who : Identity]]
      /\ \A q \in Realms : index'[q] \subseteq index[q]
  BY <1>2, Types
<1>5. ASSUME NEW q \in Realms, NEW x \in issued \ reused,
             store'[q][x] # None, Entry(x, store[q][x]) \in index[q]
      PROVE  Entry(x, store[q][x]) \in index'[q]
  <2>1. x \in Tokens /\ Entry(x, store[q][x]).token = x
    BY Types DEF Entry
  <2>2. ~(q \in R /\ \E e \in of(q) : e.token = x)
    BY <1>2, <1>5, <2>1
  <2> QED BY <1>2, <1>5, <2>1, <2>2
<1>6. SessionOK'
  <2>1. session # None => session.realm \in Realms /\ session.token \in Tokens
    BY DEF IInv, TypeOK, RequestSession
  <2> QED BY <1>1, <1>3, <2>1 DEF IInv, SessionOK, history
<1>7. data' \in [Realms -> Data \cup {None}] /\ \A q \in Realms : data'[q] = data[q]
  BY <1>1 DEF IInv, TypeOK
<1> QED BY <1>1, <1>3, <1>4, <1>5, <1>6, <1>7, ShrinkStep

\* The token of the request session is dropped from the index only when its
\* session is gone.
LEMMA LogoutEffect ==
  ASSUME IInv, NEW r \in Realms, NEW fault \in {"no", "destroy", "unindex"},
         LogoutCurrent(r, fault)
  PROVE  /\ session # None /\ session.realm = r /\ data[r] # None
         /\ session.token \in Tokens /\ session.principal \in Identity
         /\ store' \in [Realms -> [Tokens -> Identity \cup {None}]]
         /\ \A q \in Realms, x \in Tokens : store'[q][x] \in {store[q][x], None}
         /\ \A q \in Realms, x \in Tokens : q # r => store'[q][x] = store[q][x]
         /\ fault # "destroy" /\ session.token \notin reused
              => store'[r][session.token] = None
         /\ index' \in [Realms -> SUBSET [token : Tokens, who : Identity]]
         /\ \A q \in Realms : index'[q] \in
              {index[q], index[q] \ {Entry(session.token, session.principal)}}
         /\ \A q \in Realms : q # r \/ fault = "destroy" => index'[q] = index[q]
         /\ fault = "no" => index'[r] = index[r] \ {Entry(session.token, session.principal)}
         /\ data' = IF fault = "destroy" THEN data ELSE [data EXCEPT ![r] = Empty]
         /\ UNCHANGED <<session, history>>
<1>1. /\ session # None /\ session.realm = r /\ UNCHANGED <<session, history>>
      /\ data' = IF fault = "destroy" THEN data ELSE [data EXCEPT ![r] = Empty]
  BY DEF LogoutCurrent
<1>2. /\ data[r] # None /\ session.token \in Tokens /\ session.principal \in Identity
      /\ session.token \notin reused =>
           data[r].token = session.token \/ store[r][session.token] = None
  BY <1>1 DEF IInv, SessionOK, TypeOK, RequestSession
<1> DEFINE gone == IF data[r].token = None THEN store
                   ELSE [store EXCEPT ![r][data[r].token] = None]
           unindexed == [index EXCEPT
                           ![r] = index[r] \ {Entry(session.token, session.principal)}]
<1>3. /\ gone \in [Realms -> [Tokens -> Identity \cup {None}]]
      /\ \A q \in Realms, x \in Tokens :
           gone[q][x] = IF q = r /\ x = data[r].token THEN None ELSE store[q][x]
  <2>1. CASE data[r].token = None
    BY <2>1, Types, NoneAssumption
  <2>2. CASE data[r].token # None
    BY <1>2, <2>2, Types
  <2> QED BY <2>1, <2>2
<1>4. /\ unindexed \in [Realms -> SUBSET [token : Tokens, who : Identity]]
      /\ \A q \in Realms : unindexed[q] =
           IF q = r THEN index[q] \ {Entry(session.token, session.principal)} ELSE index[q]
  BY Types
<1>5. store' = gone \/ (fault = "destroy" /\ store' = store)
  BY DEF LogoutCurrent
<1>6. /\ index' = unindexed \/ index' = index
      /\ fault = "destroy" => index' = index
      /\ fault = "no" => index' = unindexed
  <2>1. CASE fault = "destroy"
    BY <2>1 DEF LogoutCurrent
  <2>2. CASE fault = "unindex"
    BY <2>2 DEF LogoutCurrent
  <2>3. CASE fault = "no"
    BY <2>3 DEF LogoutCurrent
  <2> QED BY <2>1, <2>2, <2>3
<1> HIDE DEF gone, unindexed
<1>7. /\ store' \in [Realms -> [Tokens -> Identity \cup {None}]]
      /\ \A q \in Realms, x \in Tokens : store'[q][x] \in {store[q][x], None}
      /\ \A q \in Realms, x \in Tokens : q # r => store'[q][x] = store[q][x]
      /\ fault # "destroy" /\ session.token \notin reused => store'[r][session.token] = None
  BY <1>2, <1>3, <1>5, Types
<1>8. /\ index' \in [Realms -> SUBSET [token : Tokens, who : Identity]]
      /\ \A q \in Realms : index'[q] \in
           {index[q], index[q] \ {Entry(session.token, session.principal)}}
      /\ \A q \in Realms : q # r \/ fault = "destroy" => index'[q] = index[q]
      /\ fault = "no" => index'[r] = index[r] \ {Entry(session.token, session.principal)}
  BY <1>4, <1>6, Types
<1> QED BY <1>1, <1>2, <1>7, <1>8

LEMMA InvLogoutCurrent ==
  ASSUME IInv, NEW r \in Realms, NEW fault \in {"no", "destroy", "unindex"},
         LogoutCurrent(r, fault)
  PROVE  IInv'
<1>1. /\ session # None /\ session.realm = r /\ data[r] # None /\ session.token \in Tokens
      /\ store' \in [Realms -> [Tokens -> Identity \cup {None}]]
      /\ \A q \in Realms, x \in Tokens : store'[q][x] \in {store[q][x], None}
      /\ fault # "destroy" /\ session.token \notin reused => store'[r][session.token] = None
      /\ data' = IF fault = "destroy" THEN data ELSE [data EXCEPT ![r] = Empty]
      /\ UNCHANGED <<session, history>>
  BY LogoutEffect
<1>2. /\ index' \in [Realms -> SUBSET [token : Tokens, who : Identity]]
      /\ \A q \in Realms : index'[q] \in
           {index[q], index[q] \ {Entry(session.token, session.principal)}}
      /\ \A q \in Realms : q # r \/ fault = "destroy" => index'[q] = index[q]
  BY LogoutEffect
<1>3. Empty \in Data /\ Empty # None
  BY NoneAssumption DEF Empty, Data
<1>4. /\ data' \in [Realms -> Data \cup {None}]
      /\ \A q \in Realms : data'[q] \in {data[q], None, Empty}
      /\ data'[r] # None /\ (fault = "destroy" => data' = data)
  BY <1>1, <1>3, Types
<1>5. SessionOK'
  <2>1. CASE fault = "destroy"
    BY <1>1, <1>4, <2>1 DEF IInv, SessionOK, history
  <2>2. CASE fault # "destroy"
    BY <1>1, <1>4, <2>2 DEF SessionOK, history
  <2> QED BY <2>1, <2>2
<1>6. ASSUME NEW q \in Realms, NEW x \in issued \ reused,
             store'[q][x] # None, Entry(x, store[q][x]) \in index[q]
      PROVE  Entry(x, store[q][x]) \in index'[q]
  <2>1. CASE q # r \/ fault = "destroy"
    BY <1>2, <1>6, <2>1
  <2>2. CASE q = r /\ fault # "destroy"
    <3>1. x # session.token
      BY <1>1, <1>6, <2>2
    <3>2. Entry(x, store[q][x]) # Entry(session.token, session.principal)
      BY <3>1 DEF Entry
    <3> QED BY <1>2, <1>6, <3>2
  <2> QED BY <2>1, <2>2
<1>7. \A q \in Realms : index'[q] \subseteq index[q]
  BY <1>2
<1> QED BY <1>1, <1>2, <1>4, <1>5, <1>6, <1>7, ShrinkStep

\* The session data that a context holds of a realm.
Held(r) == IF data[r] = None THEN Empty ELSE data[r]

\* What a Login leaves in its realm, wherever it fails: the session that the
\* context held is gone or nothing has changed, and what is new is the login's.
LoginLeaves(r, who, fault, t, st, ix, dt) ==
    /\ owner[t] = None
    /\ store' = [store EXCEPT ![r] = st]
    /\ index' = [index EXCEPT ![r] = ix]
    /\ data' = IF data[r] = None THEN data ELSE [data EXCEPT ![r] = dt]
    /\ owner' = IF fault = "renew" THEN owner
                ELSE [owner EXCEPT ![t] = [realm |-> r, who |-> who]]
    /\ issued' = IF fault \in {"no", "unindex"} THEN issued \cup {t} ELSE issued
    /\ UNCHANGED <<session, reused>>
    /\ st \in [Tokens -> Identity \cup {None}]
    /\ \A x \in Tokens : \/ st[x] \in {store[r][x], None}
                         \/ x = t /\ st[x] = who /\ fault # "renew"
    /\ fault # "renew" /\ Held(r).token # None => st[Held(r).token] = None
    /\ fault \in {"no", "unindex"} => st[t] = who
    /\ ix \subseteq index[r] \cup {Entry(t, who)}
    /\ fault = "renew" => ix = index[r]
    /\ \A e \in index[r] : e \in ix \/ (fault # "renew" /\ e = Held(r))
    /\ fault \in {"no", "unindex"} => Entry(t, who) \in ix
    /\ fault = "renew" => dt = Held(r)
    /\ fault # "renew" => dt \in {Empty, Entry(t, who)}

LEMMA LoginEffect ==
  ASSUME IInv, NEW r \in Realms, NEW u \in Users, NEW d \in Devices, NEW fault \in LoginFaults,
         Login(r, u, d, fault)
  PROVE  \E t \in Tokens : \E st, ix, dt :
           LoginLeaves(r, [user |-> u, device |-> d], fault, t, st, ix, dt)
<1> DEFINE old == IF data[r] = None THEN Empty ELSE data[r]
           who == [user |-> u, device |-> d]
           kept == IF old.token = None THEN store[r] ELSE [store[r] EXCEPT ![old.token] = None]
<1>1. who \in Identity
  BY DEF Identity
<1>2. old.token \in Tokens \cup {None}
  BY Types DEF Empty
<1>3. /\ kept \in [Tokens -> Identity \cup {None}]
      /\ \A x \in Tokens : kept[x] \in {store[r][x], None}
      /\ old.token # None => kept[old.token] = None
  <2>1. CASE old.token = None
    BY <2>1, Types
  <2>2. CASE old.token # None
    BY <1>2, <2>2, Types
  <2> QED BY <2>1, <2>2
<1> DEFINE new(t) == Entry(t, who)
           stored(t) == [kept EXCEPT ![t] = who]
<1> HIDE DEF kept
<1>4. PICK t \in Fresh :
        /\ \E st \in StoresAfter(fault, store[r], kept, stored(t)) :
             store' = [store EXCEPT ![r] = st]
        /\ \E ix \in IndexesAfter(fault, index[r], index[r] \cup {new(t)},
                                  ReIndexed(index[r], old, new(t))) :
             index' = [index EXCEPT ![r] = ix]
        /\ Update(r, DataAfter(fault, old, new(t)))
        /\ owner' = IF fault = "renew" THEN owner
                    ELSE [owner EXCEPT ![t] = [realm |-> r, who |-> who]]
        /\ issued' = IF fault \in {"no", "unindex"} THEN issued \cup {t} ELSE issued
  BY Zenon DEF Login, NewTokens, kept
<1>st. PICK st \in StoresAfter(fault, store[r], kept, stored(t)) :
          store' = [store EXCEPT ![r] = st]
  BY <1>4, Zenon
<1>ix. PICK ix \in IndexesAfter(fault, index[r], index[r] \cup {new(t)},
                                ReIndexed(index[r], old, new(t))) :
          index' = [index EXCEPT ![r] = ix]
  BY <1>4, Zenon
<1>5. UNCHANGED <<session, reused>> /\ t \in Tokens /\ owner[t] = None
  BY <1>4 DEF Login, Fresh
<1>6. old.token # t
  BY <1>5, NotFresh, NoneAssumption DEF Empty
<1> DEFINE dt == DataAfter(fault, old, new(t))
<1>7. /\ stored(t) \in [Tokens -> Identity \cup {None}]
      /\ \A x \in Tokens : stored(t)[x] = IF x = t THEN who ELSE kept[x]
  BY <1>1, <1>3, <1>5
<1>8. new(t) # old
  BY <1>6 DEF Entry
<1> HIDE DEF old, who, new, stored
<1>9. /\ fault = "renew" => st \in {store[r], kept}
      /\ fault # "renew" => st \in {kept, stored(t)}
      /\ fault \in {"no", "unindex"} => st = stored(t)
  BY <1>st DEF LoginFaults, StoresAfter
<1>10. /\ st \in [Tokens -> Identity \cup {None}]
       /\ \A x \in Tokens : \/ st[x] \in {store[r][x], None}
                            \/ x = t /\ st[x] = who /\ fault # "renew"
       /\ fault # "renew" /\ old.token # None => st[old.token] = None
       /\ fault \in {"no", "unindex"} => st[t] = who
  <2>1. CASE fault = "renew"
    BY <1>3, <1>9, <2>1, Types
  <2>2. CASE fault # "renew" /\ st = stored(t)
    <3>1. old.token # None => st[old.token] = None
      BY <1>2, <1>3, <1>6, <1>7, <2>2
    <3> QED BY <1>3, <1>5, <1>7, <2>2, <3>1
  <2>3. CASE fault # "renew" /\ st # stored(t)
    BY <1>3, <1>9, <2>3
  <2> QED BY <2>1, <2>2, <2>3
<1>11. /\ ix \in {index[r], index[r] \cup {new(t)}, (index[r] \cup {new(t)}) \ {old}}
       /\ fault = "renew" => ix = index[r]
       /\ fault \in {"no", "unindex"} =>
            ix \in {index[r] \cup {new(t)}, (index[r] \cup {new(t)}) \ {old}}
  BY <1>ix DEF LoginFaults, ReIndexed, IndexesAfter
<1>12. /\ ix \subseteq index[r] \cup {new(t)}
       /\ \A e \in index[r] : e \in ix \/ (fault # "renew" /\ e = old)
       /\ fault \in {"no", "unindex"} => new(t) \in ix
  BY <1>8, <1>11
<1>13. /\ data' = IF data[r] = None THEN data ELSE [data EXCEPT ![r] = dt]
       /\ fault = "renew" => dt = old
       /\ fault # "renew" => dt \in {Empty, new(t)}
  BY <1>4 DEF Update, DataAfter
<1> HIDE DEF dt
<1>14. LoginLeaves(r, who, fault, t, st, ix, dt)
  <2>1. old = Held(r) /\ new(t) = Entry(t, who)
    BY DEF Held, old, new
  <2> QED BY <1>4, <1>st, <1>ix, <1>5, <1>10, <1>11, <1>12, <1>13, <2>1, Zenon DEF LoginLeaves
<1> QED BY <1>5, <1>14, Zenon DEF who

LEMMA InvLogin ==
  ASSUME IInv, NEW r \in Realms, NEW u \in Users, NEW d \in Devices, NEW fault \in LoginFaults,
         Login(r, u, d, fault)
  PROVE  IInv'
<1> DEFINE old == Held(r)
           who == [user |-> u, device |-> d]
<1>0a. PICK t \in Tokens : \E st, ix, dt : LoginLeaves(r, who, fault, t, st, ix, dt)
  BY LoginEffect, Zenon
<1>0. PICK st, ix, dt : LoginLeaves(r, who, fault, t, st, ix, dt)
  BY <1>0a, Zenon
<1> HIDE DEF old
<1>1. /\ owner[t] = None
      /\ store' = [store EXCEPT ![r] = st]
      /\ index' = [index EXCEPT ![r] = ix]
      /\ data' = IF data[r] = None THEN data ELSE [data EXCEPT ![r] = dt]
      /\ owner' = IF fault = "renew" THEN owner
                  ELSE [owner EXCEPT ![t] = [realm |-> r, who |-> who]]
      /\ issued' = IF fault \in {"no", "unindex"} THEN issued \cup {t} ELSE issued
      /\ UNCHANGED <<session, reused>>
      /\ st \in [Tokens -> Identity \cup {None}]
      /\ \A x \in Tokens : \/ st[x] \in {store[r][x], None}
                           \/ x = t /\ st[x] = who /\ fault # "renew"
      /\ fault # "renew" /\ old.token # None => st[old.token] = None
      /\ fault \in {"no", "unindex"} => st[t] = who
      /\ ix \subseteq index[r] \cup {Entry(t, who)}
      /\ \A e \in index[r] : e \in ix \/ (fault # "renew" /\ e = old)
      /\ fault = "renew" => ix = index[r]
      /\ fault \in {"no", "unindex"} => Entry(t, who) \in ix
      /\ fault = "renew" => dt = old
      /\ fault # "renew" => dt \in {Empty, Entry(t, who)}
  BY <1>0, Zenon DEF LoginLeaves, old
<1>2. /\ who \in Identity /\ who # None /\ t # None
      /\ [realm |-> r, who |-> who] \in Made /\ [realm |-> r, who |-> who] # None
  BY NoneAssumption DEF Identity, Made
<1>3. /\ Entry(t, who) \in [token : Tokens, who : Identity] /\ Entry(t, who) \in Data
      /\ Entry(t, who).token = t /\ Entry(t, who).who = who
      /\ Empty \in Data /\ Empty.token = None /\ Empty.who = None
  BY <1>2 DEF Entry, Empty, Data
<1>4. data[r] # None => old = data[r]
  BY DEF Held, old
<1>5. /\ old \in Data /\ (old.token = None <=> old.who = None)
      /\ old.token # None => data[r] = old
  BY <1>3, Types DEF Held, old
<1> HIDE DEF who
<1>6. /\ store' \in [Realms -> [Tokens -> Identity \cup {None}]]
      /\ \A q \in Realms : store'[q] = IF q = r THEN st ELSE store[q]
  BY <1>1, Types
<1>7. /\ index' \in [Realms -> SUBSET [token : Tokens, who : Identity]]
      /\ \A q \in Realms : index'[q] = IF q = r THEN ix ELSE index[q]
  <2>1. ix \in SUBSET [token : Tokens, who : Identity]
    BY <1>1, <1>3, Types
  <2> QED BY <1>1, <2>1, Types
<1>8. /\ owner' \in [Tokens -> Made \cup {None}]
      /\ fault # "renew" => owner'[t] = [realm |-> r, who |-> who]
      /\ \A x \in Tokens : x # t \/ fault = "renew" => owner'[x] = owner[x]
  <2>1. CASE fault = "renew"
    BY <1>1, <2>1, Types
  <2>2. CASE fault # "renew"
    BY <1>1, <1>2, <2>2, Types
  <2> QED BY <2>1, <2>2
<1>9. /\ dt \in Data /\ dt # None
      /\ dt \in {old, Empty, Entry(t, who)}
      /\ fault = "renew" => dt = old
      /\ fault # "renew" => dt \in {Empty, Entry(t, who)}
  BY <1>1, <1>3, <1>5, NoneAssumption
<1>10. /\ data' \in [Realms -> Data \cup {None}]
       /\ \A q \in Realms : data'[q] = IF q = r /\ data[r] # None THEN dt ELSE data[q]
  <2>1. CASE data[r] = None
    BY <1>1, <2>1, Types
  <2>2. CASE data[r] # None
    BY <1>1, <1>9, <2>2, Types
  <2> QED BY <2>1, <2>2
<1>11. /\ issued' \subseteq Tokens
       /\ \A x \in issued' : x \in issued \/ (x = t /\ fault \in {"no", "unindex"})
  BY <1>1, Types
<1>12. TypeOK'
  BY <1>1, <1>6, <1>7, <1>8, <1>10, <1>11 DEF IInv, TypeOK
<1>13. DataOK'
  <2>1. ASSUME NEW q \in Realms, data'[q] # None
        PROVE  /\ data'[q].token = None <=> data'[q].who = None
               /\ data'[q].token # None =>
                    owner'[data'[q].token] = [realm |-> q, who |-> data'[q].who]
    <3>1. CASE data'[q] = data[q]
      <4>1. data[q].token # None => data[q].token \in Tokens /\ data[q].token # t
        BY <1>1, <2>1, <3>1, NotFresh, Types
      <4> QED BY <1>8, <2>1, <3>1, <4>1 DEF IInv, DataOK, Owned
    <3>2. CASE q = r /\ data'[q] \in {Empty, Entry(t, who)} /\ fault # "renew"
      BY <1>2, <1>3, <1>8, <3>2
    <3> QED BY <1>4, <1>9, <1>10, <3>1, <3>2
  <2> QED BY <2>1 DEF DataOK, Owned
<1>14. SessionOK'
  <2>1. SUFFICES ASSUME session # None
                 PROVE  /\ data'[session.realm] # None
                        /\ session.token \notin reused =>
                             \/ data'[session.realm].token = session.token
                             \/ store'[session.realm][session.token] = None
    BY <1>1 DEF SessionOK
  <2>2. /\ session.realm \in Realms /\ session.token \in Tokens
        /\ data[session.realm] # None
        /\ session.token \notin reused =>
             \/ data[session.realm].token = session.token
             \/ store[session.realm][session.token] = None
    BY <2>1 DEF IInv, TypeOK, RequestSession, SessionOK
  <2>3. session.token \in reused \/ session.token # t
    BY <1>1, <2>1, NotFresh
  <2>4. CASE session.realm # r
    BY <1>6, <1>10, <2>2, <2>4
  <2>5. CASE session.realm = r
    <3>1. data'[r] = dt /\ dt # None /\ old = data[r]
      BY <1>4, <1>9, <1>10, <2>2, <2>5
    <3>2. session.token \notin reused => st[session.token] \in {store[r][session.token], None}
      BY <1>1, <2>2, <2>3
    <3>3. CASE fault = "renew"
      BY <1>6, <1>9, <2>2, <2>5, <3>1, <3>2, <3>3
    <3>4. CASE fault # "renew"
      <4>1. old.token = session.token => st[session.token] = None
        BY <1>1, <2>2, <3>4, NoneAssumption
      <4> QED BY <1>6, <2>2, <2>5, <3>1, <3>2, <4>1
    <3> QED BY <3>3, <3>4
  <2> QED BY <2>4, <2>5
<1>15. Indexed'
  <2>1. ASSUME NEW q \in Realms, NEW x \in issued', x \notin reused, store'[q][x] # None
        PROVE  Entry(x, store'[q][x]) \in index'[q]
    <3>0. x \in Tokens
      BY <1>11
    <3>1. CASE x = t
      <4>1. x \notin issued /\ store[q][x] = None
        BY <1>1, <3>1, NotFresh
      <4>2. q = r /\ fault \in {"no", "unindex"}
        BY <1>6, <1>11, <2>1, <4>1
      <4> QED BY <1>1, <1>6, <1>7, <3>1, <4>2
    <3>2. CASE x # t
      <4>1. x \in issued /\ store'[q][x] = store[q][x]
        BY <1>1, <1>6, <1>11, <2>1, <3>0, <3>2
      <4>2. Entry(x, store[q][x]) \in index[q]
        BY <2>1, <4>1 DEF IInv, Indexed
      <4>3. CASE q # r
        BY <1>7, <4>1, <4>2, <4>3
      <4>4. CASE q = r
        <5>1. ~(fault # "renew" /\ Entry(x, store[q][x]) = old)
          <6>1. SUFFICES ASSUME fault # "renew", old.token = x PROVE FALSE
            BY DEF Entry
          <6>2. st[x] = None
            BY <1>1, <3>0, <6>1, NoneAssumption
          <6> QED BY <1>6, <2>1, <4>4, <6>2
        <5> QED BY <1>1, <1>7, <4>1, <4>2, <4>4, <5>1
      <4> QED BY <4>3, <4>4
    <3> QED BY <3>1, <3>2
  <2> QED BY <1>1, <2>1 DEF Indexed
<1>16. \A q \in Realms : \A e \in index'[q] :
         e \in index[q] \/ owner'[e.token] = [realm |-> q, who |-> e.who]
  <2>1. ASSUME NEW e \in ix, e \notin index[r]
        PROVE  owner'[e.token] = [realm |-> r, who |-> e.who]
    BY <1>1, <1>3, <1>8, <2>1
  <2> QED BY <1>7, <2>1
<1>17. \A q \in Realms, x \in Tokens : store'[q][x] # None =>
         store'[q][x] = store[q][x] \/ owner'[x] = [realm |-> q, who |-> store'[q][x]]
  BY <1>1, <1>6, <1>8
<1>18. \A x \in issued' : x \in issued \/ owner'[x] # None
  BY <1>2, <1>8, <1>11
<1>19. \A x \in Tokens : owner[x] # None => owner'[x] = owner[x]
  BY <1>1, <1>8
<1> QED BY <1>1, <1>12, <1>13, <1>14, <1>15, <1>16, <1>17, <1>18, <1>19, KeepStep

-----------------------------------------------------------------------------
(* Theorems                                                                *)

LEMMA StepInv == IInv /\ [Next]_vars => IInv'
<1> SUFFICES ASSUME IInv, [Next]_vars PROVE IInv'
  OBVIOUS
<1>1. CASE UNCHANGED vars
  <2>1. UNCHANGED <<store, index, data, session, owner, issued, reused>>
    BY <1>1 DEF vars, context, history
  <2>2. TypeOK' /\ DataOK' /\ SessionOK' /\ Indexed'
    BY <2>1 DEF IInv, TypeOK, DataOK, SessionOK, Indexed, Owned
  <2>3. \A q \in Realms, x \in Tokens : store'[q][x] = store[q][x]
    BY <2>1
  <2> QED BY <2>1, <2>2, <2>3, KeepStep
<1>2. ASSUME NEW r \in Realms, NEW fault \in LoginFaults, LogoutCurrent(r, fault)
      PROVE  IInv'
  <2>1. fault \in {"no", "destroy", "unindex"}
    BY <1>2 DEF LogoutCurrent
  <2> QED BY <1>2, <2>1, InvLogoutCurrent
<1>3. ASSUME NEW r \in Realms, NEW t \in Tokens, NEW answered \in BOOLEAN,
             Authenticate(r, t, answered)
      PROVE  IInv'
  BY <1>3, InvAuthenticate, InvUnanswered
<1> QED BY <1>1, <1>2, <1>3, InvLogin, InvLoginElsewhere, InvLogoutUser,
           InvNextRequest DEF Next

\* The invariant holds throughout, for any realms, users, devices and tokens.
THEOREM Invariant == Spec => []IInv
<1> QED BY InitInv, StepInv, PTL DEF Spec

\* Every variable keeps within its values.
THEOREM TypeCorrect == Spec => []TypeOK
<1>1. IInv => TypeOK
  BY DEF IInv
<1> QED BY Invariant, <1>1, PTL

\* The request session names the login that made its token (realm.go:143, 151, 177).
THEOREM PrincipalIsOwner == Spec => []PrincipalOfToken
<1>1. IInv => PrincipalOfToken
  BY DEF IInv
<1> QED BY Invariant, <1>1, PTL

\* What a login returned can be found and logged out while it is stored
\* (realm.go:126, 195).
THEOREM IssuedIsIndexed == Spec => []Indexed
<1>1. IInv => Indexed
  BY DEF IInv
<1> QED BY Invariant, <1>1, PTL

\* LogoutCurrent ends the session that the request came with (realm.go:184).
THEOREM LogoutWorks == Spec => LogoutEndsCurrent
<1> DEFINE A == \A r \in Realms :
         LogoutCurrent(r, "no") /\ session.token \notin reused
            => /\ store'[r][session.token] = None
               /\ \A e \in index'[r] : e.token # session.token
<1>1. ASSUME IInv, [Next]_vars PROVE A
  <2> SUFFICES ASSUME NEW r \in Realms, LogoutCurrent(r, "no"), session.token \notin reused
               PROVE  /\ store'[r][session.token] = None
                      /\ \A e \in index'[r] : e.token # session.token
    OBVIOUS
  <2>1. /\ session # None /\ session.realm = r
        /\ store'[r][session.token] = None
        /\ index'[r] = index[r] \ {Entry(session.token, session.principal)}
    BY <1>1, LogoutEffect
  <2>2. Owned(r, session.token, session.principal)
    BY <1>1, <2>1 DEF IInv, PrincipalOfToken, Owned
  <2>3. ASSUME NEW e \in index'[r], e.token = session.token
        PROVE  FALSE
    <3>1. e \in index[r] /\ e # Entry(session.token, session.principal)
      BY <2>1
    <3>2. Owned(r, e.token, e.who) /\ e \in [token : Tokens, who : Identity]
      BY <1>1, <3>1, Types DEF IInv, IndexOK
    <3>3. e.who = session.principal
      BY <2>2, <2>3, <3>2, OneOwner
    <3>4. e = Entry(e.token, e.who)
      BY <3>2 DEF Entry
    <3> QED BY <2>3, <3>1, <3>3, <3>4
  <2> QED BY <2>1, <2>3
<1> QED BY <1>1, Invariant, PTL DEF Spec, LogoutEndsCurrent
=============================================================================
