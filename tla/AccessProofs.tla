----------------------------- MODULE AccessProofs -----------------------------
(***************************************************************************)
(* What holds of actors, credentials and sessions for any number of runs   *)
(* of the command line, of requests and of actors, proved with TLAPS.      *)
(***************************************************************************)
EXTENDS Access, SequenceTheorems, TLAPS

-----------------------------------------------------------------------------
(* The inductive invariants.                                               *)

\* A run has its order from the moment it looks up its actor; only a bootstrap
\* revokes passwords, and an actor that was found does not go away.
OrderInv ==
    \A c \in Commands :
        /\ cpc[c] \in {"idle", "issuer", "issued"} => order[c] = None
        /\ cpc[c] \in {"actor", "revoke", "insert", "audit", "ok", "conflict"} =>
            order[c] \in Orders
        /\ cpc[c] = "revoke" => order[c].op = "bootstrap"
        /\ cpc[c] = "actor" /\ known[c] => actors[order[c].handle] \in ActorRow

\* A request refers to rows that are there.
RequestInv ==
    \A q \in Requests :
        /\ request[q].at = "upgrade" =>
            /\ request[q].cred \in DOMAIN credentials
            /\ credentials[request[q].cred].kind = "token"
        /\ request[q].at \in {"cookie", "actor"} => request[q].session \in DOMAIN sessions
        /\ request[q].at = "verified" => request[q].handle \in Handles

TypeInv == TypeOK /\ OrderInv /\ RequestInv

\* A run that ended before another began has ended.
BeforeInv == \A c, d \in Commands : <<c, d>> \in before => cpc[c] \in Ended

\* A token's row opens for the secret its holder was given.
TokenInv ==
    \A i \in DOMAIN credentials :
        credentials[i].kind = "token" =>
            credentials[i].secret_hash.of = credentials[i].given

\* A password from a run is that of a bootstrap of its actor, which has gone on.
PasswordInv ==
    \A i \in DOMAIN credentials :
        LET c == credentials[i].by
        IN credentials[i].kind = "password" /\ c # None =>
            /\ c \in Bootstraps(credentials[i].handle)
            /\ cpc[c] \in {"audit", "ok", "error"}
            /\ PasswordOpens(i, order[c].password)

\* A bootstrap past its UPDATE has revoked the passwords of the runs before it.
ReplacedInv ==
    \A h \in Handles : \A d \in Bootstraps(h) :
        cpc[d] \in {"insert", "audit", "ok"} =>
            \A i \in DOMAIN credentials :
                /\ credentials[i].handle = h /\ credentials[i].kind = "password"
                /\ Follows(d, i)
                => credentials[i].revoked

\* The password of a bootstrap that none overlaps or follows is live.
LoneInv ==
    \A h \in Handles : \A d \in Bootstraps(h) :
        /\ cpc[d] \in {"audit", "ok"}
        /\ \A e \in Bootstraps(h) \ {d} : <<e, d>> \in before
        => \E i \in LivePasswords(h) : credentials[i].by = d

CredentialInv == BeforeInv /\ TokenInv /\ PasswordInv /\ ReplacedInv /\ LoneInv

Suspended(h) == actors[h] # None /\ ~actors[h].is_active

\* What was withdrawn when a request was made, and what has become of it.
LateOK(q) ==
    LET r == request[q]
    IN /\ r.at \in {"cookie", "actor"} =>
            /\ r.cred = 0 /\ r.handle = sessions[r.session].handle
            /\ "actor" \in r.late => Suspended(r.handle) \/ Bootstraps(r.handle) # {}
       /\ r.at = "cookie" /\ "session" \in r.late => sessions[r.session].revoked
       /\ r.at = "actor" => "session" \notin r.late
       /\ r.at = "upgrade" => r.session = 0 /\ r.late = {}
       /\ r.at = "in" =>
            /\ r.cred # 0 => "token" \notin r.late
            /\ r.session # 0 => "session" \notin r.late
            /\ "actor" \in r.late => Bootstraps(r.handle) # {}

LateInv == \A q \in Requests : LateOK(q)

AccessInv == TypeInv /\ CredentialInv /\ LateInv

-----------------------------------------------------------------------------
(* Lemmas about the data.                                                  *)

\* An order's fields have the types its readers expect.
LEMMA OrderFields ==
    ASSUME NEW o \in Orders
    PROVE  /\ o.op \in {"bootstrap", "issue"} /\ o.handle \in Handles
           /\ o.type \in {"human", "agent"} /\ o.expires_at \in Nat \cup {None}
           /\ o.op = "bootstrap" => o.password \in Passwords
           /\ o # None
  BY OrdersAreOrders, NoneIsNoOrder DEF Order

\* A request that is new, or has ended as an anonymous one, is a request.
LEMMA NewIsRequest ==
    /\ NewRequest \in Request /\ NewRequest.at = "idle"
    /\ Anonymous \in Request /\ Anonymous.at = "done"
  BY DEF NewRequest, Anonymous, Request

\* A row in place of another leaves the table a table.
LEMMA RowReplaced ==
    ASSUME NEW S, NEW s \in Seq(S), NEW i \in DOMAIN s, NEW x \in S
    PROVE  /\ [s EXCEPT ![i] = x] \in Seq(S)
           /\ DOMAIN [s EXCEPT ![i] = x] = DOMAIN s
  BY ExceptSeq

\* A row behind the others leaves them where they are.
LEMMA RowAppended ==
    ASSUME NEW S, NEW s \in Seq(S), NEW x \in S
    PROVE  /\ Append(s, x) \in Seq(S)
           /\ DOMAIN Append(s, x) = DOMAIN s \cup {Len(s) + 1}
           /\ Len(s) + 1 \notin DOMAIN s
           /\ \A i \in DOMAIN s : Append(s, x)[i] = s[i]
           /\ Append(s, x)[Len(s) + 1] = x
  <1>1. Len(s) \in Nat /\ DOMAIN s = 1..Len(s)
    BY LenProperties
  <1>2. /\ Append(s, x) \in Seq(S) /\ Len(Append(s, x)) = Len(s) + 1
        /\ \A i \in 1..Len(s) : Append(s, x)[i] = s[i]
        /\ Append(s, x)[Len(s) + 1] = x
    BY AppendProperties
  <1>3. DOMAIN Append(s, x) = 1..(Len(s) + 1)
    BY <1>2, LenProperties
  <1> QED
    BY <1>1, <1>2, <1>3

\* A table of the same length with other rows is a table.
LEMMA RowsMapped ==
    ASSUME NEW S, NEW s \in Seq(S), NEW t, DOMAIN t = DOMAIN s,
           t = [i \in DOMAIN s |-> t[i]], \A i \in DOMAIN s : t[i] \in S
    PROVE  t \in Seq(S)
  <1>1. Len(s) \in Nat /\ DOMAIN s = 1..Len(s)
    BY LenProperties
  <1>2. t \in [1..Len(s) -> S]
    BY <1>1
  <1> QED
    BY <1>1, <1>2, SeqDef

-----------------------------------------------------------------------------
(* Type correctness.                                                       *)

\* The initial states have the right types.
LEMMA InitType == Init => TypeInv
  <1> SUFFICES ASSUME Init PROVE TypeInv
    OBVIOUS
  <1>1. /\ clock \in 0..MaxClock /\ system \in BOOLEAN
        /\ actors \in [Handles -> ActorRow \cup {None}]
    <2>1. [type |-> "human", is_active |-> TRUE] \in ActorRow
      BY DEF ActorRow
    <2>2. clock \in 0..MaxClock
      BY LifetimeIsSeconds DEF Init
    <2>3. system \in BOOLEAN
      BY DEF Init
    <2> QED
      BY <2>1, <2>2, <2>3 DEF Init
  <1>2. credentials \in Seq(Credential) /\ sessions \in Seq(Session)
    <2>1. CASE credentials = <<>> /\ sessions = <<>>
      BY <2>1
    <2>2. ASSUME NEW admin \in Handles,
                 credentials = <<Old(admin, "password", OldPassword), Old(admin, "token", admin)>>,
                 sessions = <<[handle |-> admin, expires_at |-> Lifetime, revoked |-> FALSE]>>
          PROVE  credentials \in Seq(Credential) /\ sessions \in Seq(Session)
      <3>1. /\ Old(admin, "password", OldPassword) \in Credential
            /\ Old(admin, "token", admin) \in Credential
        BY OldPasswordIsOne DEF Old, Credential, Hash, Secrets, TokenSecrets
      <3>2. [handle |-> admin, expires_at |-> Lifetime, revoked |-> FALSE] \in Session
        BY LifetimeIsSeconds DEF Session
      <3> QED
        BY <2>2, <3>1, <3>2
    <2> QED
      BY <2>1, <2>2 DEF Init
  <1>3. OrderInv /\ RequestInv
    BY NewIsRequest DEF Init, OrderInv, RequestInv
  <1> QED
    BY <1>1, <1>2, <1>3, NewIsRequest DEF Init, TypeInv, TypeOK

\* A run without an order has done nothing, or has added an issuer.
LEMMA IssuerType ==
    ASSUME TypeInv, NEW c \in Commands, MissIssuer(c) \/ InsertIssuer(c)
    PROVE  TypeInv'
  BY DEF MissIssuer, InsertIssuer, Step, tables, TypeInv, TypeOK, OrderInv, RequestInv, Ended

\* A run takes an order when it looks up its actor.
LEMMA LookUpType ==
    ASSUME TypeInv, NEW c \in Commands, NEW o \in Orders, LookUpActor(c, o)
    PROVE  TypeInv'
  <1>1. o \in Orders /\ o.handle \in Handles
    BY OrderFields
  <1>2. actors[o.handle] # None => actors[o.handle] \in ActorRow
    BY <1>1 DEF TypeInv, TypeOK
  <1>3. /\ cpc[c] \in {"idle", "issued"}
        /\ cpc' = [cpc EXCEPT ![c] = cpc'[c]] /\ cpc'[c] \in {"conflict", "actor"}
        /\ order' = [order EXCEPT ![c] = o]
        /\ known' = [known EXCEPT ![c] = actors[o.handle] # None]
    BY DEF LookUpActor, TypeInv, TypeOK
  <1>4. before' \subseteq Commands \X Commands
    BY DEF LookUpActor, TypeInv, TypeOK
  <1>5. TypeOK'
    BY <1>1, <1>3, <1>4 DEF LookUpActor, tables, TypeInv, TypeOK, Ended
  <1>6. OrderInv'
    <2>1. ASSUME NEW d \in Commands \ {c}
          PROVE  cpc'[d] = cpc[d] /\ order'[d] = order[d] /\ known'[d] = known[d]
      BY <1>3 DEF TypeInv, TypeOK
    <2>2. cpc'[c] \in {"conflict", "actor"} /\ order'[c] = o
      BY <1>3 DEF TypeInv, TypeOK
    <2>3. known'[c] => actors[o.handle] # None
      BY <1>3 DEF TypeInv, TypeOK
    <2>4. actors' = actors
      BY DEF LookUpActor, tables
    <2> QED
      BY <1>1, <1>2, <2>1, <2>2, <2>3, <2>4 DEF TypeInv, OrderInv
  <1>7. RequestInv'
    BY DEF LookUpActor, tables, TypeInv, RequestInv
  <1> QED
    BY <1>5, <1>6, <1>7 DEF TypeInv

\* A run inserts the actor it did not find, or fails.
LEMMA InsertActorType ==
    ASSUME TypeInv, NEW c \in Commands, InsertActor(c)
    PROVE  TypeInv'
  <1> DEFINE o == order[c]
  <1>1. /\ cpc[c] = "actor" /\ o \in Orders /\ o.handle \in Handles
        /\ o.op \in {"bootstrap", "issue"} /\ o.type \in {"human", "agent"}
    BY OrderFields DEF InsertActor, TypeInv, OrderInv
  <1>2. [type |-> o.type, is_active |-> TRUE] \in ActorRow
    BY <1>1 DEF ActorRow
  <1>3. actors' \in [Handles -> ActorRow \cup {None}]
    BY <1>1, <1>2 DEF InsertActor, TypeInv, TypeOK
  <1>4. \A h \in Handles : actors[h] \in ActorRow => actors'[h] \in ActorRow
    BY <1>1, <1>2 DEF InsertActor, TypeInv, TypeOK
  <1>5. /\ cpc' = [cpc EXCEPT ![c] = cpc'[c]]
        /\ \/ cpc'[c] \in {"error", "insert"}
           \/ cpc'[c] = "revoke" /\ o.op = "bootstrap"
        /\ UNCHANGED <<clock, system, credentials, sessions, order, known, before, request>>
    BY <1>1 DEF InsertActor, Step, NextStatement, TypeInv, TypeOK
  <1>6. TypeOK' /\ RequestInv'
    BY <1>3, <1>5 DEF TypeInv, TypeOK, RequestInv, Ended
  <1>7. OrderInv'
    <2>1. \A d \in Commands : cpc[d] = "actor" => order[d].handle \in Handles
      BY OrderFields DEF TypeInv, OrderInv
    <2> QED
      BY <1>1, <1>4, <1>5, <2>1 DEF TypeInv, TypeOK, OrderInv
  <1> QED
    BY <1>6, <1>7 DEF TypeInv

\* A bootstrap activates the actor it found.
LEMMA UpdateActorType ==
    ASSUME TypeInv, NEW c \in Commands, UpdateActor(c)
    PROVE  TypeInv'
  <1> DEFINE o == order[c]
  <1>1. /\ cpc[c] = "actor" /\ o \in Orders /\ o.handle \in Handles
        /\ o.op \in {"bootstrap", "issue"} /\ actors[o.handle] \in ActorRow
    BY OrderFields DEF UpdateActor, TypeInv, OrderInv
  <1>2. [actors[o.handle] EXCEPT !.is_active = TRUE] \in ActorRow
    BY <1>1 DEF ActorRow
  <1>3. actors' \in [Handles -> ActorRow \cup {None}]
    BY <1>1, <1>2 DEF UpdateActor, TypeInv, TypeOK
  <1>4. \A h \in Handles : actors[h] \in ActorRow => actors'[h] \in ActorRow
    BY <1>1, <1>2 DEF UpdateActor, TypeInv, TypeOK
  <1> QED
    BY <1>1, <1>3, <1>4, OrderFields
    DEF UpdateActor, Step, NextStatement, TypeInv, TypeOK, OrderInv, RequestInv, Ended

\* A bootstrap revokes the live passwords of its actor, row by row.
LEMMA RevokePasswordsType ==
    ASSUME TypeInv, NEW c \in Commands, RevokePasswords(c)
    PROVE  /\ TypeInv'
           /\ DOMAIN credentials' = DOMAIN credentials
           /\ \A i \in DOMAIN credentials :
                credentials'[i] = IF i \in LivePasswords(order[c].handle)
                                    THEN [credentials[i] EXCEPT !.revoked = TRUE]
                                    ELSE credentials[i]
  <1>1. credentials \in Seq(Credential)
    BY DEF TypeInv, TypeOK
  <1>2. \A i \in DOMAIN credentials :
           [credentials[i] EXCEPT !.revoked = TRUE] \in Credential
    <2> SUFFICES ASSUME NEW i \in DOMAIN credentials
                 PROVE  [credentials[i] EXCEPT !.revoked = TRUE] \in Credential
      OBVIOUS
    <2>1. credentials[i] \in Credential
      BY <1>1, ElementOfSeq, LenProperties
    <2> QED
      BY <2>1 DEF Credential
  <1>3. \A i \in DOMAIN credentials : credentials[i] \in Credential
    BY <1>1, ElementOfSeq, LenProperties
  <1>4. /\ DOMAIN credentials' = DOMAIN credentials
        /\ credentials' = [i \in DOMAIN credentials |-> credentials'[i]]
        /\ \A i \in DOMAIN credentials :
             credentials'[i] = IF i \in LivePasswords(order[c].handle)
                                 THEN [credentials[i] EXCEPT !.revoked = TRUE]
                                 ELSE credentials[i]
    BY DEF RevokePasswords
  <1>5. credentials' \in Seq(Credential)
    BY <1>1, <1>2, <1>3, <1>4, RowsMapped
  <1>6. \A i \in DOMAIN credentials : credentials[i].kind = "token" => credentials'[i].kind = "token"
    BY <1>3, <1>4 DEF Credential
  <1>7. TypeInv'
    BY <1>4, <1>5, <1>6 DEF RevokePasswords, Step, TypeInv, TypeOK, OrderInv, RequestInv, Ended
  <1> QED
    BY <1>4, <1>7

\* The row a run inserts is a credential of its order.
LEMMA InsertCredentialType ==
    ASSUME TypeInv, NEW c \in Commands, InsertCredential(c)
    PROVE  /\ TypeInv'
           /\ \E row \in Credential :
                /\ credentials' = Append(credentials, row)
                /\ row.handle = order[c].handle /\ row.by = c /\ ~row.revoked
                /\ row.kind = IF order[c].op = "bootstrap" THEN "password" ELSE "token"
                /\ row.secret_hash = SecretHash(c)
                /\ row.given = IF order[c].op = "bootstrap" THEN order[c].password ELSE c
  <1> DEFINE o == order[c]
             row == [handle |-> o.handle,
                     kind |-> IF o.op = "bootstrap" THEN "password" ELSE "token",
                     secret_hash |-> SecretHash(c),
                     revoked |-> FALSE,
                     expires_at |-> o.expires_at,
                     created_at |-> clock,
                     by |-> c,
                     given |-> IF o.op = "bootstrap" THEN o.password ELSE c]
  <1>1. /\ cpc[c] = "insert" /\ o.handle \in Handles /\ o.expires_at \in Nat \cup {None}
        /\ o.op = "bootstrap" => o.password \in Passwords
    BY OrderFields DEF InsertCredential, Step, TypeInv, OrderInv
  <1>2. SecretHash(c) \in Hash
    BY <1>1 DEF SecretHash, Hash, Secrets, TokenSecrets
  <1>3. clock \in Nat
    BY LifetimeIsSeconds DEF TypeInv, TypeOK
  <1>4. row \in Credential
    BY <1>1, <1>2, <1>3 DEF Credential, Secrets, TokenSecrets
  <1>5. credentials' = Append(credentials, row)
    BY DEF InsertCredential
  <1>6. /\ credentials' \in Seq(Credential)
        /\ DOMAIN credentials \subseteq DOMAIN credentials'
        /\ \A i \in DOMAIN credentials : credentials'[i] = credentials[i]
    BY <1>4, <1>5, RowAppended DEF TypeInv, TypeOK
  <1>7. TypeInv'
    BY <1>6 DEF InsertCredential, Step, TypeInv, TypeOK, OrderInv, RequestInv, Ended
  <1> HIDE DEF row
  <1>8. /\ row.handle = order[c].handle /\ row.by = c /\ ~row.revoked
        /\ row.kind = IF order[c].op = "bootstrap" THEN "password" ELSE "token"
        /\ row.secret_hash = SecretHash(c)
        /\ row.given = IF order[c].op = "bootstrap" THEN order[c].password ELSE c
    BY DEF row
  <1> QED
    BY <1>4, <1>5, <1>7, <1>8

\* The end of a run keeps every type.
LEMMA EndType ==
    ASSUME TypeInv, NEW c \in Commands, Audit(c) \/ Fail(c)
    PROVE  TypeInv'
  BY DEF Audit, Fail, Step, tables, TypeInv, TypeOK, OrderInv, RequestInv, Ended

\* A row of a table has the table's type.
LEMMA Rows ==
    ASSUME TypeInv
    PROVE  /\ DOMAIN credentials \subseteq Nat /\ DOMAIN sessions \subseteq Nat
           /\ \A i \in DOMAIN credentials : credentials[i] \in Credential
           /\ \A s \in DOMAIN sessions : sessions[s] \in Session
  <1>1. /\ DOMAIN credentials = 1..Len(credentials) /\ Len(credentials) \in Nat
        /\ DOMAIN sessions = 1..Len(sessions) /\ Len(sessions) \in Nat
    BY LenProperties DEF TypeInv, TypeOK
  <1> QED
    BY <1>1, ElementOfSeq DEF TypeInv, TypeOK

\* A request moves on to a state of its own and leaves the tables alone.
LEMMA ResolveType ==
    ASSUME TypeInv, NEW q \in Requests, NEW r \in Request, Resolve(q, r),
           r.at = "upgrade" => /\ r.cred \in DOMAIN credentials
                               /\ credentials[r.cred].kind = "token",
           r.at \in {"cookie", "actor"} => r.session \in DOMAIN sessions,
           r.at = "verified" => r.handle \in Handles
    PROVE  TypeInv'
  BY DEF Resolve, tables, runs, TypeInv, TypeOK, OrderInv, RequestInv

\* A cookie's request is one for a session that is there.
LEMMA CookieRequest ==
    ASSUME TypeInv, NEW s \in DOMAIN sessions
    PROVE  /\ WithCookie(s) \in Request
           /\ WithCookie(s).at = "cookie" /\ WithCookie(s).cred = 0
           /\ WithCookie(s).session = s /\ WithCookie(s).handle = sessions[s].handle
           /\ WithCookie(s).late = Late(0, s, sessions[s].handle)
  <1>1. s \in Nat /\ sessions[s].handle \in Handles
    BY Rows DEF Session
  <1>2. Late(0, s, sessions[s].handle) \subseteq {"token", "session", "actor"}
    BY DEF Late
  <1>3. NewRequest \in Request /\ NewRequest.cred = 0
    BY NewIsRequest DEF NewRequest
  <1> QED
    BY <1>1, <1>2, <1>3 DEF WithCookie, Request

\* A token that opens is neither revoked nor of a suspended actor: nothing was
\* withdrawn when its request was made.
LEMMA TokenRequest ==
    ASSUME TypeInv, NEW i \in DOMAIN credentials, IsLiveToken(i)
    PROVE  /\ WithToken(i) \in Request
           /\ WithToken(i).at \in {"upgrade", "in"} /\ WithToken(i).cred = i
           /\ WithToken(i).session = 0 /\ WithToken(i).late = {}
  <1>1. i \in Nat /\ credentials[i].handle \in Handles
    BY Rows DEF Credential
  <1>2. Late(i, 0, credentials[i].handle) = {}
    BY DEF Late, IsLiveToken
  <1>3. NewRequest \in Request /\ NewRequest.session = 0
    BY NewIsRequest DEF NewRequest
  <1> QED
    BY <1>1, <1>2, <1>3 DEF WithToken, Request

\* What the first query of a request makes of it.
LEMMA PresentTokenKinds ==
    ASSUME TypeInv, NEW q \in Requests, NEW i \in DOMAIN credentials, NEW secret,
           NEW s \in {0} \cup DOMAIN sessions, PresentToken(q, i, secret, s)
    PROVE  \E r \in Request :
            /\ Resolve(q, r)
            /\ \/ /\ r.at \in {"upgrade", "in"} /\ r.cred = i /\ r.session = 0 /\ r.late = {}
                  /\ credentials[i].kind = "token"
               \/ s \in DOMAIN sessions /\ r = WithCookie(s)
               \/ r = Anonymous
  <1>1. CASE TokenOpens(i, secret)
    <2>1. Resolve(q, WithToken(i)) /\ credentials[i].kind = "token"
      BY <1>1 DEF PresentToken
    <2>2. IsLiveToken(i)
      BY <1>1 DEF TokenOpens
    <2> QED
      BY <2>1, <2>2, TokenRequest
  <1>2. CASE ~TokenOpens(i, secret) /\ s # 0
    <2>1. s \in DOMAIN sessions /\ Resolve(q, WithCookie(s))
      BY <1>2 DEF PresentToken
    <2> QED
      BY <2>1, CookieRequest
  <1>3. CASE ~TokenOpens(i, secret) /\ s = 0
    <2>1. Resolve(q, Anonymous)
      BY <1>3 DEF PresentToken
    <2> QED
      BY <2>1, NewIsRequest
  <1> QED
    BY <1>1, <1>2, <1>3

\* The first query of a request keeps every type.
LEMMA PresentType ==
    ASSUME TypeInv, NEW q \in Requests,
           \/ \E i \in DOMAIN credentials, s \in {0} \cup DOMAIN sessions :
                \E secret \in {credentials[i].given, None} : PresentToken(q, i, secret, s)
           \/ \E s \in DOMAIN sessions : PresentCookie(q, s)
    PROVE  TypeInv'
  <1>1. ASSUME NEW i \in DOMAIN credentials, NEW s \in {0} \cup DOMAIN sessions, NEW secret,
               PresentToken(q, i, secret, s)
        PROVE  TypeInv'
    <2>1. PICK r \in Request :
            /\ Resolve(q, r)
            /\ \/ /\ r.at \in {"upgrade", "in"} /\ r.cred = i /\ r.session = 0 /\ r.late = {}
                  /\ credentials[i].kind = "token"
               \/ s \in DOMAIN sessions /\ r = WithCookie(s)
               \/ r = Anonymous
      BY <1>1, PresentTokenKinds
    <2>2. CASE r.at \in {"upgrade", "in"} /\ r.cred = i /\ credentials[i].kind = "token"
      BY <2>1, <2>2, ResolveType
    <2>3. CASE s \in DOMAIN sessions /\ r = WithCookie(s)
      <3>1. r.at = "cookie" /\ r.session \in DOMAIN sessions
        BY <2>3, CookieRequest
      <3> QED
        BY <2>1, <3>1, ResolveType
    <2>4. CASE r = Anonymous
      BY <2>1, <2>4, NewIsRequest, ResolveType
    <2> QED
      BY <2>1, <2>2, <2>3, <2>4
  <1>2. ASSUME NEW s \in DOMAIN sessions, PresentCookie(q, s)
        PROVE  TypeInv'
    <2>1. /\ WithCookie(s) \in Request
          /\ WithCookie(s).at = "cookie" /\ WithCookie(s).session = s
      BY CookieRequest
    <2>2. Resolve(q, WithCookie(s))
      BY <1>2 DEF PresentCookie
    <2> QED
      BY <2>1, <2>2, ResolveType
  <1> QED
    BY <1>1, <1>2

\* The UPDATE of a legacy row changes its hash and nothing else.
LEMMA UpgradeType ==
    ASSUME TypeInv, NEW q \in Requests, Upgrade(q)
    PROVE  /\ TypeInv'
           /\ request[q].cred \in DOMAIN credentials
           /\ credentials[request[q].cred].kind = "token"
           /\ DOMAIN credentials' = DOMAIN credentials
           /\ \A i \in DOMAIN credentials :
                credentials'[i] = IF i = request[q].cred
                  THEN [credentials[i] EXCEPT !.secret_hash =
                          [scheme |-> "sha256", of |-> credentials[i].given]]
                  ELSE credentials[i]
  <1> DEFINE i == request[q].cred
             row == [credentials[i] EXCEPT !.secret_hash =
                       [scheme |-> "sha256", of |-> credentials[i].given]]
  <1>1. i \in DOMAIN credentials /\ credentials[i].kind = "token"
    BY DEF Upgrade, TypeInv, RequestInv
  <1>2. credentials[i] \in Credential
    BY <1>1, Rows
  <1>3. row \in Credential /\ row.kind = "token"
    BY <1>1, <1>2 DEF Credential, Hash
  <1>4. credentials' = [credentials EXCEPT ![i] = row]
    BY DEF Upgrade
  <1>5. credentials' \in Seq(Credential) /\ DOMAIN credentials' = DOMAIN credentials
    BY <1>1, <1>3, <1>4, RowReplaced DEF TypeInv, TypeOK
  <1>6. \A j \in DOMAIN credentials :
            credentials'[j] = IF j = i THEN row ELSE credentials[j]
    BY <1>4
  <1>7. [request[q] EXCEPT !.at = "in"] \in Request
    BY DEF TypeInv, TypeOK, Request
  <1>8. request' \in [Requests -> Request]
    BY <1>7 DEF Upgrade, TypeInv, TypeOK
  <1>9. RequestInv'
    <2> SUFFICES ASSUME NEW p \in Requests
                 PROVE
                   /\ request'[p].at = "upgrade" =>
                        /\ request'[p].cred \in DOMAIN credentials'
                        /\ credentials'[request'[p].cred].kind = "token"
                   /\ request'[p].at \in {"cookie", "actor"} =>
                        request'[p].session \in DOMAIN sessions'
                   /\ request'[p].at = "verified" => request'[p].handle \in Handles
      BY DEF RequestInv
    <2>1. CASE p = q
      BY <2>1 DEF Upgrade, TypeInv, TypeOK, Request
    <2>2. CASE p # q
      <3>1. request'[p] = request[p] /\ sessions' = sessions
        BY <2>2 DEF Upgrade, TypeInv, TypeOK
      <3> QED
        BY <3>1, <1>3, <1>5, <1>6 DEF TypeInv, RequestInv
    <2> QED
      BY <2>1, <2>2
  <1>10. TypeOK' /\ OrderInv'
    BY <1>5, <1>8 DEF Upgrade, runs, TypeInv, TypeOK, OrderInv
  <1> QED
    BY <1>1, <1>5, <1>6, <1>9, <1>10 DEF TypeInv

\* The later queries of a request keep every type.
LEMMA LookUpSessionType ==
    ASSUME TypeInv, NEW q \in Requests, UpgradeFails(q) \/ FindSession(q) \/ FindActor(q)
    PROVE  TypeInv'
  <1>1. request[q] \in Request
    BY DEF TypeInv, TypeOK
  <1>2. /\ [request[q] EXCEPT !.at = "in"] \in Request
        /\ [request[q] EXCEPT !.at = "in"].at = "in"
    BY <1>1 DEF Request
  <1>3. CASE UpgradeFails(q) \/ FindActor(q)
    <2>1. Resolve(q, [request[q] EXCEPT !.at = "in"]) \/ Resolve(q, Anonymous)
      BY <1>3 DEF UpgradeFails, FindActor
    <2> QED
      BY <1>2, <2>1, NewIsRequest, ResolveType
  <1>4. CASE FindSession(q)
    <2> DEFINE s == request[q].session
               r == [request[q] EXCEPT !.at = "actor", !.handle = sessions[s].handle]
    <2>1. s \in DOMAIN sessions /\ sessions[s].handle \in Handles
      BY <1>4, Rows DEF FindSession, TypeInv, RequestInv, Session
    <2>2. r \in Request /\ r.at = "actor" /\ r.session = s
      BY <1>1, <2>1 DEF Request
    <2>3. Resolve(q, r) \/ Resolve(q, Anonymous)
      BY <1>4 DEF FindSession
    <2> HIDE DEF r
    <2> QED
      BY <2>1, <2>2, <2>3, NewIsRequest, ResolveType
  <1> QED
    BY <1>3, <1>4

\* A login keeps every type.
LEMMA LogInType ==
    ASSUME TypeInv, NEW q \in Requests, NEW h \in Handles, NEW password \in Passwords,
           LogIn(q, h, password)
    PROVE  TypeInv'
  <1> DEFINE r == [NewRequest EXCEPT !.at = "verified", !.handle = h]
  <1>1. r \in Request /\ r.at = "verified" /\ r.handle = h
    BY DEF NewRequest, Request
  <1>2. Resolve(q, r) \/ Resolve(q, Anonymous)
    BY DEF LogIn
  <1> HIDE DEF r
  <1> QED
    BY <1>1, <1>2, NewIsRequest, ResolveType

\* A session is opened behind the others.
LEMMA OpenSessionType ==
    ASSUME TypeInv, NEW q \in Requests, OpenSession(q)
    PROVE  /\ TypeInv'
           /\ DOMAIN sessions \subseteq DOMAIN sessions'
           /\ \A s \in DOMAIN sessions : sessions'[s] = sessions[s]
  <1> DEFINE session == [handle |-> request[q].handle,
                         expires_at |-> clock + Lifetime, revoked |-> FALSE]
  <1>1. request[q].handle \in Handles
    BY DEF OpenSession, TypeInv, RequestInv
  <1>2. session \in Session
    BY <1>1, LifetimeIsSeconds DEF Session, TypeInv, TypeOK
  <1>3. /\ sessions' \in Seq(Session)
        /\ DOMAIN sessions \subseteq DOMAIN sessions'
        /\ \A s \in DOMAIN sessions : sessions'[s] = sessions[s]
    BY <1>2, RowAppended DEF OpenSession, TypeInv, TypeOK
  <1>4. request' = [request EXCEPT ![q] = Anonymous]
    BY DEF OpenSession
  <1>5. TypeOK' /\ OrderInv' /\ RequestInv'
    BY <1>3, <1>4, NewIsRequest DEF OpenSession, runs, TypeInv, TypeOK, OrderInv, RequestInv
  <1> QED
    BY <1>3, <1>5 DEF TypeInv

\* A session is revoked in its place.
LEMMA LogOutType ==
    ASSUME TypeInv, NEW q \in Requests, NEW s \in DOMAIN sessions, LogOut(q, s)
    PROVE  /\ TypeInv'
           /\ DOMAIN sessions' = DOMAIN sessions
           /\ \A z \in DOMAIN sessions :
                sessions'[z] = IF z = s THEN [sessions[z] EXCEPT !.revoked = TRUE]
                                        ELSE sessions[z]
  <1> DEFINE row == [sessions[s] EXCEPT !.revoked = TRUE]
  <1>1. sessions[s] \in Session
    BY Rows
  <1>2. row \in Session
    BY <1>1 DEF Session
  <1>3. sessions' = [sessions EXCEPT ![s] = row]
    BY DEF LogOut
  <1>4. sessions' \in Seq(Session) /\ DOMAIN sessions' = DOMAIN sessions
    BY <1>2, <1>3, RowReplaced DEF TypeInv, TypeOK
  <1>5. request' = [request EXCEPT ![q] = Anonymous]
    BY DEF LogOut
  <1>6. TypeOK' /\ OrderInv' /\ RequestInv'
    BY <1>4, <1>5, NewIsRequest DEF LogOut, runs, TypeInv, TypeOK, OrderInv, RequestInv
  <1> QED
    BY <1>3, <1>4, <1>6 DEF TypeInv

\* A suspension keeps every type.
LEMMA SuspendType ==
    ASSUME TypeInv, NEW h \in Handles, Suspend(h)
    PROVE  /\ TypeInv'
           /\ \A k \in Handles : actors[k] \in ActorRow => actors'[k] \in ActorRow
  <1>1. actors[h] \in ActorRow
    BY DEF Suspend, IsActive, TypeInv, TypeOK
  <1>2. [actors[h] EXCEPT !.is_active = FALSE] \in ActorRow
    BY <1>1 DEF ActorRow
  <1>3. /\ actors' \in [Handles -> ActorRow \cup {None}]
        /\ \A k \in Handles : actors[k] \in ActorRow => actors'[k] \in ActorRow
    BY <1>2 DEF Suspend, TypeInv, TypeOK
  <1>4. \A d \in Commands : cpc[d] = "actor" => order[d].handle \in Handles
    BY OrderFields DEF TypeInv, OrderInv
  <1> QED
    BY <1>3, <1>4 DEF Suspend, runs, TypeInv, TypeOK, OrderInv, RequestInv

\* A token is revoked in its place.
LEMMA RevokeTokenType ==
    ASSUME TypeInv, NEW i \in DOMAIN credentials, RevokeToken(i)
    PROVE  /\ TypeInv'
           /\ credentials[i].kind = "token"
           /\ DOMAIN credentials' = DOMAIN credentials
           /\ \A j \in DOMAIN credentials :
                credentials'[j] = IF j = i THEN [credentials[j] EXCEPT !.revoked = TRUE]
                                           ELSE credentials[j]
  <1> DEFINE row == [credentials[i] EXCEPT !.revoked = TRUE]
  <1>1. credentials[i] \in Credential /\ credentials[i].kind = "token"
    BY Rows DEF RevokeToken
  <1>2. row \in Credential /\ row.kind = "token"
    BY <1>1 DEF Credential
  <1>3. credentials' = [credentials EXCEPT ![i] = row]
    BY DEF RevokeToken
  <1>4. credentials' \in Seq(Credential) /\ DOMAIN credentials' = DOMAIN credentials
    BY <1>2, <1>3, RowReplaced DEF TypeInv, TypeOK
  <1>5. TypeInv'
    BY <1>2, <1>3, <1>4 DEF RevokeToken, runs, TypeInv, TypeOK, OrderInv, RequestInv
  <1> QED
    BY <1>1, <1>3, <1>4, <1>5

\* Time keeps every type.
LEMMA SetClockType ==
    ASSUME TypeInv, NEW t \in 0..MaxClock, SetClock(t)
    PROVE  TypeInv'
  BY DEF SetClock, tables, runs, TypeInv, TypeOK, OrderInv, RequestInv

\* Every step of the system keeps every type.
LEMMA NextType == TypeInv /\ [Next]_vars => TypeInv'
  <1> SUFFICES ASSUME TypeInv, [Next]_vars PROVE TypeInv'
    OBVIOUS
  <1>1. CASE UNCHANGED vars
    BY <1>1 DEF vars, tables, runs, TypeInv, TypeOK, OrderInv, RequestInv
  <1>2. ASSUME NEW c \in Commands, Command(c)
        PROVE  TypeInv'
    BY <1>2, IssuerType, LookUpType, InsertActorType, UpdateActorType, RevokePasswordsType,
       InsertCredentialType, EndType DEF Command
  <1>3. ASSUME NEW q \in Requests, Serve(q)
        PROVE  TypeInv'
    BY <1>3, PresentType, UpgradeType, LookUpSessionType, LogInType, OpenSessionType, LogOutType
    DEF Serve
  <1>4. ASSUME NEW h \in Handles, Suspend(h)
        PROVE  TypeInv'
    BY <1>4, SuspendType
  <1>5. ASSUME NEW i \in DOMAIN credentials, RevokeToken(i)
        PROVE  TypeInv'
    BY <1>5, RevokeTokenType
  <1>6. ASSUME NEW t \in 0..MaxClock, SetClock(t)
        PROVE  TypeInv'
    BY <1>6, SetClockType
  <1> QED
    BY <1>1, <1>2, <1>3, <1>4, <1>5, <1>6 DEF Next

-----------------------------------------------------------------------------
(* Credentials.                                                            *)

\* The initial tables hold no credential of a run.
LEMMA InitCredentials == Init => CredentialInv
  <1> SUFFICES ASSUME Init PROVE CredentialInv
    OBVIOUS
  <1>1. /\ \A i \in DOMAIN credentials : credentials[i].by = None
        /\ TokenInv
    <2>1. CASE credentials = <<>>
      BY <2>1 DEF TokenInv
    <2>2. ASSUME NEW admin \in Handles,
                 credentials = <<Old(admin, "password", OldPassword), Old(admin, "token", admin)>>
          PROVE  /\ \A i \in DOMAIN credentials : credentials[i].by = None
                 /\ TokenInv
      <3>1. \A i \in DOMAIN credentials : i \in {1, 2}
        BY <2>2
      <3>2. /\ credentials[1] = Old(admin, "password", OldPassword)
            /\ credentials[2] = Old(admin, "token", admin)
        BY <2>2
      <3> QED
        BY <3>1, <3>2 DEF TokenInv, Old
    <2> QED
      BY <2>1, <2>2 DEF Init
  <1>2. \A h \in Handles : Bootstraps(h) = {}
    BY DEF Init, Bootstraps
  <1>3. before = {}
    BY DEF Init
  <1> QED
    BY <1>1, <1>2, <1>3 DEF CredentialInv, BeforeInv, PasswordInv, ReplacedInv, LoneInv

\* A step that leaves runs and credentials alone.
LEMMA CredentialsAlone ==
    ASSUME CredentialInv, UNCHANGED <<credentials, runs>>
    PROVE  CredentialInv'
  BY DEF runs, CredentialInv, BeforeInv, TokenInv, PasswordInv, ReplacedInv, LoneInv,
         Bootstraps, Follows, LivePasswords, PasswordOpens

\* A step that changes tokens in their place.
LEMMA TokensInPlace ==
    ASSUME TypeInv, CredentialInv, UNCHANGED runs,
           DOMAIN credentials' = DOMAIN credentials,
           \A i \in DOMAIN credentials :
             /\ credentials[i].kind = "password" => credentials'[i] = credentials[i]
             /\ credentials[i].kind = "token" =>
                  /\ credentials'[i].kind = "token"
                  /\ credentials'[i].secret_hash.of = credentials'[i].given
    PROVE  CredentialInv'
  <1>1. \A i \in DOMAIN credentials : credentials[i].kind \in {"password", "token"}
    BY Rows DEF Credential
  <1>2. \A i \in DOMAIN credentials :
            credentials'[i].kind = "password" =>
              credentials[i].kind = "password" /\ credentials'[i] = credentials[i]
    BY <1>1
  <1>3. UNCHANGED <<cpc, order, before>>
    BY DEF runs
  <1>4. \A h \in Handles : Bootstraps(h)' = Bootstraps(h)
    BY <1>3 DEF Bootstraps
  <1>5. BeforeInv' /\ TokenInv'
    BY <1>1, <1>3 DEF CredentialInv, BeforeInv, TokenInv
  <1>6. PasswordInv'
    BY <1>2, <1>3, Rows DEF Credential, CredentialInv, PasswordInv, PasswordOpens, Bootstraps
  <1>7. ReplacedInv'
    BY <1>2, <1>3, <1>4 DEF CredentialInv, ReplacedInv, Follows
  <1>8. LoneInv'
    <2>1. \A h \in Handles : LivePasswords(h) \subseteq LivePasswords(h)'
      BY DEF LivePasswords
    <2>2. \A h \in Handles : \A i \in LivePasswords(h) : credentials'[i].by = credentials[i].by
      BY DEF LivePasswords
    <2> QED
      BY <1>3, <1>4, <2>1, <2>2 DEF CredentialInv, LoneInv
  <1> QED
    BY <1>5, <1>6, <1>7, <1>8 DEF CredentialInv

\* A step of a run that leaves the credentials alone: a bootstrap does not get
\* past its UPDATE or its INSERT of a credential by it.
LEMMA RunGoesOn ==
    ASSUME TypeInv, CredentialInv, NEW c \in Commands, NEW step,
           UNCHANGED <<credentials, order, before>>,
           cpc' = [cpc EXCEPT ![c] = step],
           cpc[c] \notin Ended,
           step = "insert" => order[c] = None \/ order[c].op # "bootstrap",
           step # "audit", step = "ok" => cpc[c] = "audit",
           cpc[c] = "audit" => step \in {"ok", "error"}
    PROVE  CredentialInv'
  <1>1. /\ cpc'[c] = step
        /\ \A d \in Commands \ {c} : cpc'[d] = cpc[d]
    BY DEF TypeInv, TypeOK
  <1>2. \A h \in Handles : Bootstraps(h)' = Bootstraps(h)
    BY DEF Bootstraps
  <1>3. \A h \in Handles : LivePasswords(h)' = LivePasswords(h)
    BY DEF LivePasswords
  <1>4. BeforeInv' /\ TokenInv'
    BY <1>1 DEF CredentialInv, BeforeInv, TokenInv
  <1>5. PasswordInv'
    BY <1>1, Rows DEF Credential, CredentialInv, PasswordInv, PasswordOpens, Bootstraps, Ended
  <1>6. ReplacedInv'
    <2>1. \A h \in Handles : \A d \in Bootstraps(h) :
            cpc'[d] \in {"insert", "audit", "ok"} => cpc[d] \in {"insert", "audit", "ok"}
      BY <1>1 DEF Bootstraps
    <2> QED
      BY <1>2, <2>1 DEF CredentialInv, ReplacedInv, Follows
  <1>7. LoneInv'
    <2>1. \A d \in Commands : cpc'[d] \in {"audit", "ok"} => cpc[d] \in {"audit", "ok"}
      BY <1>1
    <2>2. \A h \in Handles : \A d \in Bootstraps(h) : d \in Commands
      BY DEF Bootstraps
    <2> QED
      BY <1>2, <1>3, <2>1, <2>2 DEF CredentialInv, LoneInv
  <1> QED
    BY <1>4, <1>5, <1>6, <1>7 DEF CredentialInv

\* A run begins after the runs that have ended, and before it does anything.
LEMMA LookUpCredentials ==
    ASSUME TypeInv, CredentialInv, NEW c \in Commands, NEW o \in Orders, LookUpActor(c, o)
    PROVE  CredentialInv'
  <1>1. /\ cpc[c] \in {"idle", "issued"} /\ cpc'[c] \in {"conflict", "actor"}
        /\ \A d \in Commands \ {c} : cpc'[d] = cpc[d] /\ order'[d] = order[d]
        /\ order[c] = None
        /\ before' = before \cup {<<d, c>> : d \in {e \in Commands : cpc[e] \in Ended}}
        /\ UNCHANGED credentials
    BY DEF LookUpActor, tables, TypeInv, TypeOK, OrderInv
  <1>2. \A h \in Handles : Bootstraps(h) \subseteq Bootstraps(h)' \cap (Commands \ {c})
    BY <1>1 DEF Bootstraps
  <1>3. \A h \in Handles : \A d \in Bootstraps(h)' : d # c => d \in Bootstraps(h)
    BY <1>1 DEF Bootstraps
  <1>4. \A e, d : d # c /\ <<e, d>> \in before' => <<e, d>> \in before
    BY <1>1
  <1>5. BeforeInv'
    BY <1>1 DEF CredentialInv, BeforeInv, Ended
  <1>6. TokenInv'
    BY <1>1 DEF CredentialInv, TokenInv
  <1>7. PasswordInv'
    BY <1>1, <1>2, Rows DEF Credential, CredentialInv, PasswordInv, PasswordOpens
  <1>8. ReplacedInv'
    <2> SUFFICES ASSUME NEW h \in Handles, NEW d \in Bootstraps(h)',
                        cpc'[d] \in {"insert", "audit", "ok"},
                        NEW i \in DOMAIN credentials,
                        credentials[i].handle = h, credentials[i].kind = "password",
                        credentials[i].by = None \/ <<credentials[i].by, d>> \in before'
                 PROVE  credentials[i].revoked
      BY <1>1 DEF ReplacedInv, Follows
    <2>1. d # c /\ d \in Commands
      BY <1>1 DEF Bootstraps
    <2>2. d \in Bootstraps(h) /\ cpc[d] \in {"insert", "audit", "ok"}
      BY <1>1, <1>3, <2>1
    <2>3. Follows(d, i)
      BY <1>4, <2>1 DEF Follows
    <2> QED
      BY <2>2, <2>3 DEF CredentialInv, ReplacedInv
  <1>9. LoneInv'
    <2>1. \A h \in Handles : LivePasswords(h)' = LivePasswords(h)
      BY <1>1 DEF LivePasswords
    <2> QED
      BY <1>1, <1>2, <1>3, <1>4, <2>1 DEF CredentialInv, LoneInv
  <1> QED
    BY <1>5, <1>6, <1>7, <1>8, <1>9 DEF CredentialInv

\* A bootstrap revokes every live password of its actor; none of them is of a
\* run that came after it.
LEMMA RevokePasswordsCredentials ==
    ASSUME TypeInv, CredentialInv, NEW c \in Commands, RevokePasswords(c)
    PROVE  CredentialInv'
  <1>1. PICK h0 : h0 = order[c].handle
    OBVIOUS
  <1>2. /\ cpc[c] = "revoke" /\ cpc'[c] = "insert"
        /\ \A d \in Commands \ {c} : cpc'[d] = cpc[d]
        /\ UNCHANGED <<order, before>>
    BY DEF RevokePasswords, Step, TypeInv, TypeOK
  <1>3. h0 \in Handles /\ c \in Bootstraps(h0)
    <2>1. order[c] \in Orders /\ order[c].op = "bootstrap"
      BY <1>2 DEF TypeInv, OrderInv
    <2> QED
      BY <1>1, <2>1, OrderFields DEF Bootstraps
  <1>4. /\ DOMAIN credentials' = DOMAIN credentials
        /\ \A i \in DOMAIN credentials :
             credentials'[i] = IF i \in LivePasswords(h0)
                                 THEN [credentials[i] EXCEPT !.revoked = TRUE]
                                 ELSE credentials[i]
    BY <1>1, RevokePasswordsType
  <1>5. \A i \in DOMAIN credentials :
          /\ credentials'[i].handle = credentials[i].handle
          /\ credentials'[i].kind = credentials[i].kind
          /\ credentials'[i].by = credentials[i].by
          /\ credentials'[i].given = credentials[i].given
          /\ credentials'[i].secret_hash = credentials[i].secret_hash
          /\ credentials[i].revoked => credentials'[i].revoked
          /\ i \notin LivePasswords(h0) => credentials'[i].revoked = credentials[i].revoked
          /\ i \in LivePasswords(h0) => credentials'[i].revoked
    BY <1>4, Rows DEF Credential
  <1>6. \A h \in Handles : Bootstraps(h)' = Bootstraps(h)
    BY <1>2 DEF Bootstraps
  <1>7. BeforeInv' /\ TokenInv'
    BY <1>2, <1>4, <1>5 DEF CredentialInv, BeforeInv, TokenInv, Ended
  <1>8. PasswordInv'
    <2> SUFFICES ASSUME NEW i \in DOMAIN credentials',
                        credentials'[i].kind = "password", credentials'[i].by # None
                 PROVE  /\ credentials'[i].by \in Commands
                        /\ order'[credentials'[i].by] # None
                        /\ order'[credentials'[i].by].op = "bootstrap"
                        /\ order'[credentials'[i].by].handle = credentials'[i].handle
                        /\ cpc'[credentials'[i].by] \in {"audit", "ok", "error"}
                        /\ credentials'[i].secret_hash =
                             [scheme |-> "argon2", of |-> order'[credentials'[i].by].password]
      BY DEF PasswordInv, PasswordOpens, Bootstraps
    <2>1. /\ i \in DOMAIN credentials
          /\ credentials[i].kind = "password" /\ credentials[i].by # None
      BY <1>4, <1>5
    <2>2. credentials[i].by \in Commands /\ credentials[i].handle \in Handles
      BY <2>1, Rows DEF Credential
    <2>3. /\ credentials[i].by \in Bootstraps(credentials[i].handle)
          /\ cpc[credentials[i].by] \in {"audit", "ok", "error"}
          /\ credentials[i].secret_hash =
               [scheme |-> "argon2", of |-> order[credentials[i].by].password]
      BY <2>1 DEF CredentialInv, PasswordInv, PasswordOpens
    <2> QED
      BY <1>2, <1>5, <2>1, <2>2, <2>3 DEF Bootstraps
  <1>9. ReplacedInv'
    <2> SUFFICES ASSUME NEW h \in Handles, NEW d \in Bootstraps(h),
                        cpc'[d] \in {"insert", "audit", "ok"},
                        NEW i \in DOMAIN credentials,
                        credentials[i].handle = h, credentials[i].kind = "password",
                        credentials[i].by = None \/ <<credentials[i].by, d>> \in before
                 PROVE  credentials'[i].revoked
      BY <1>2, <1>4, <1>5, <1>6 DEF ReplacedInv, Follows
    <2>1. CASE d = c
      <3>1. h = h0
        BY <1>1, <2>1 DEF Bootstraps
      <3>2. credentials[i].revoked \/ i \in LivePasswords(h0)
        BY <3>1 DEF LivePasswords
      <3> QED
        BY <1>5, <3>2
    <2>2. CASE d # c
      <3>1. cpc[d] \in {"insert", "audit", "ok"}
        BY <1>2, <2>2 DEF Bootstraps
      <3>2. credentials[i].revoked
        BY <3>1 DEF CredentialInv, ReplacedInv, Follows
      <3> QED
        BY <1>5, <3>2
    <2> QED
      BY <2>1, <2>2
  <1>10. LoneInv'
    <2> SUFFICES ASSUME NEW h \in Handles, NEW d \in Bootstraps(h),
                        cpc'[d] \in {"audit", "ok"},
                        \A e \in Bootstraps(h) \ {d} : <<e, d>> \in before
                 PROVE  \E i \in LivePasswords(h)' : credentials'[i].by = d
      BY <1>2, <1>6 DEF LoneInv
    <2>1. d # c /\ d \in Commands
      BY <1>2 DEF Bootstraps
    <2>2. h # h0
      BY <1>2, <1>3, <2>1 DEF CredentialInv, BeforeInv, Ended
    <2>3. PICK i \in LivePasswords(h) : credentials[i].by = d
      BY <1>2, <2>1 DEF CredentialInv, LoneInv
    <2>4. i \in DOMAIN credentials /\ credentials[i].handle = h
      BY DEF LivePasswords
    <2>5. i \notin LivePasswords(h0)
      BY <2>2, <2>4 DEF LivePasswords
    <2>6. i \in LivePasswords(h)'
      BY <1>4, <1>5, <2>4, <2>5 DEF LivePasswords
    <2> QED
      BY <1>5, <2>3, <2>4, <2>6
  <1> QED
    BY <1>7, <1>8, <1>9, <1>10 DEF CredentialInv

\* The new row is of a run that is going on, so that no run came after it.
LEMMA InsertCredentialCredentials ==
    ASSUME TypeInv, CredentialInv, NEW c \in Commands, InsertCredential(c)
    PROVE  CredentialInv'
  <1>1. PICK row \in Credential :
          /\ credentials' = Append(credentials, row)
          /\ row.handle = order[c].handle /\ row.by = c /\ ~row.revoked
          /\ row.kind = IF order[c].op = "bootstrap" THEN "password" ELSE "token"
          /\ row.secret_hash = SecretHash(c)
          /\ row.given = IF order[c].op = "bootstrap" THEN order[c].password ELSE c
    BY InsertCredentialType
  <1>2. PICK n : n = Len(credentials) + 1
    OBVIOUS
  <1>3. /\ DOMAIN credentials' = DOMAIN credentials \cup {n} /\ n \notin DOMAIN credentials
        /\ credentials'[n] = row
        /\ \A i \in DOMAIN credentials : credentials'[i] = credentials[i]
    BY <1>1, <1>2, RowAppended DEF TypeInv, TypeOK
  <1>4. /\ cpc[c] = "insert" /\ cpc'[c] = "audit"
        /\ \A d \in Commands \ {c} : cpc'[d] = cpc[d]
        /\ UNCHANGED <<order, before>>
    BY DEF InsertCredential, Step, TypeInv, TypeOK
  <1>5. order[c] \in Orders /\ order[c] # None
    BY <1>4, OrderFields DEF TypeInv, OrderInv
  <1>6. \A h \in Handles : Bootstraps(h)' = Bootstraps(h)
    BY <1>4 DEF Bootstraps
  <1>7. BeforeInv'
    BY <1>4 DEF CredentialInv, BeforeInv, Ended
  <1>8. TokenInv'
    <2>1. row.kind = "token" => row.secret_hash.of = row.given
      BY <1>1 DEF SecretHash
    <2> QED
      BY <1>3, <2>1 DEF CredentialInv, TokenInv
  <1>9. PasswordInv'
    <2> SUFFICES ASSUME NEW i \in DOMAIN credentials',
                        credentials'[i].kind = "password", credentials'[i].by # None
                 PROVE  /\ credentials'[i].by \in Commands
                        /\ order'[credentials'[i].by] # None
                        /\ order'[credentials'[i].by].op = "bootstrap"
                        /\ order'[credentials'[i].by].handle = credentials'[i].handle
                        /\ cpc'[credentials'[i].by] \in {"audit", "ok", "error"}
                        /\ credentials'[i].secret_hash =
                             [scheme |-> "argon2", of |-> order'[credentials'[i].by].password]
      BY DEF PasswordInv, PasswordOpens, Bootstraps
    <2>1. CASE i = n
      <3>1. order[c].op = "bootstrap"
        BY <1>1, <1>3, <2>1
      <3>2. row.secret_hash = [scheme |-> "argon2", of |-> order[c].password]
        BY <1>1, <3>1 DEF SecretHash
      <3>3. credentials'[i] = row /\ row.by = c
        BY <1>1, <1>3, <2>1
      <3> QED
        BY <1>1, <1>4, <1>5, <3>1, <3>2, <3>3
    <2>2. CASE i # n
      <3>1. i \in DOMAIN credentials /\ credentials'[i] = credentials[i]
        BY <1>3, <2>2
      <3>2. credentials[i].by \in Commands
        BY <3>1, Rows DEF Credential
      <3>3. /\ credentials[i].by \in Bootstraps(credentials[i].handle)
            /\ cpc[credentials[i].by] \in {"audit", "ok", "error"}
            /\ credentials[i].secret_hash =
                 [scheme |-> "argon2", of |-> order[credentials[i].by].password]
        BY <3>1 DEF CredentialInv, PasswordInv, PasswordOpens
      <3> QED
        BY <1>4, <3>1, <3>2, <3>3 DEF Bootstraps
    <2> QED
      BY <2>1, <2>2
  <1>10. ReplacedInv'
    <2> SUFFICES ASSUME NEW h \in Handles, NEW d \in Bootstraps(h),
                        cpc'[d] \in {"insert", "audit", "ok"},
                        NEW i \in DOMAIN credentials',
                        credentials'[i].handle = h, credentials'[i].kind = "password",
                        credentials'[i].by = None \/ <<credentials'[i].by, d>> \in before
                 PROVE  credentials'[i].revoked
      BY <1>4, <1>6 DEF ReplacedInv, Follows
    <2>1. d \in Commands /\ cpc[d] \in {"insert", "audit", "ok"}
      BY <1>4 DEF Bootstraps
    <2>2. i # n
      <3>1. <<c, d>> \notin before
        BY <1>4, <2>1 DEF CredentialInv, BeforeInv, Ended
      <3> QED
        BY <1>1, <1>3, <3>1, NoneIsNoValue
    <2>3. i \in DOMAIN credentials /\ credentials'[i] = credentials[i]
      BY <1>3, <2>2
    <2> QED
      BY <2>1, <2>3 DEF CredentialInv, ReplacedInv, Follows
  <1>11. LoneInv'
    <2> SUFFICES ASSUME NEW h \in Handles, NEW d \in Bootstraps(h),
                        cpc'[d] \in {"audit", "ok"},
                        \A e \in Bootstraps(h) \ {d} : <<e, d>> \in before
                 PROVE  \E i \in LivePasswords(h)' : credentials'[i].by = d
      BY <1>4, <1>6 DEF LoneInv
    <2>1. CASE d = c
      <3>1. order[c].op = "bootstrap" /\ order[c].handle = h
        BY <2>1 DEF Bootstraps
      <3>2. n \in LivePasswords(h)'
        BY <1>1, <1>3, <3>1 DEF LivePasswords
      <3> QED
        BY <1>1, <1>3, <2>1, <3>2
    <2>2. CASE d # c
      <3>1. cpc[d] \in {"audit", "ok"}
        BY <1>4, <2>2 DEF Bootstraps
      <3>2. PICK i \in LivePasswords(h) : credentials[i].by = d
        BY <3>1 DEF CredentialInv, LoneInv
      <3>3. i \in LivePasswords(h)' /\ credentials'[i].by = d
        BY <1>3, <3>2 DEF LivePasswords
      <3> QED
        BY <3>3
    <2> QED
      BY <2>1, <2>2
  <1> QED
    BY <1>7, <1>8, <1>9, <1>10, <1>11 DEF CredentialInv

\* Every step of a run keeps what is said of credentials.
LEMMA CommandCredentials ==
    ASSUME TypeInv, CredentialInv, NEW c \in Commands, Command(c)
    PROVE  CredentialInv'
  <1>1. CASE MissIssuer(c)
    BY <1>1, RunGoesOn DEF MissIssuer, Step, tables, Ended
  <1>2. CASE InsertIssuer(c)
    <2>1. PICK step : step = IF system THEN "error" ELSE "issued"
      OBVIOUS
    <2> QED
      BY <1>2, <2>1, RunGoesOn DEF InsertIssuer, Step, Ended
  <1>3. CASE \E o \in Orders : LookUpActor(c, o)
    BY <1>3, LookUpCredentials
  <1>4. CASE InsertActor(c) \/ UpdateActor(c)
    <2>1. PICK step : /\ step \in {"error", NextStatement(order[c])}
                      /\ Step(c, "actor", step)
      BY <1>4 DEF InsertActor, UpdateActor
    <2>2. UNCHANGED credentials
      BY <1>4 DEF InsertActor, UpdateActor
    <2>3. step \in {"error", "revoke", "insert"}
      BY <2>1 DEF NextStatement
    <2>4. step = "insert" => order[c].op # "bootstrap"
      BY <2>1 DEF NextStatement
    <2> QED
      BY <2>1, <2>2, <2>3, <2>4, RunGoesOn DEF Step, Ended
  <1>5. CASE RevokePasswords(c)
    BY <1>5, RevokePasswordsCredentials
  <1>6. CASE InsertCredential(c)
    BY <1>6, InsertCredentialCredentials
  <1>7. CASE Audit(c)
    BY <1>7, RunGoesOn DEF Audit, Step, tables, Ended
  <1>8. CASE Fail(c)
    BY <1>8, RunGoesOn DEF Fail, Step, tables, Ended
  <1> QED
    BY <1>1, <1>2, <1>3, <1>4, <1>5, <1>6, <1>7, <1>8 DEF Command

\* Every step of the system keeps what is said of credentials.
LEMMA NextCredentials ==
    TypeInv /\ CredentialInv /\ [Next]_vars => CredentialInv'
  <1> SUFFICES ASSUME TypeInv, CredentialInv, [Next]_vars PROVE CredentialInv'
    OBVIOUS
  <1>1. CASE UNCHANGED vars
    BY <1>1, CredentialsAlone DEF vars, tables
  <1>2. ASSUME NEW c \in Commands, Command(c)
        PROVE  CredentialInv'
    BY <1>2, CommandCredentials
  <1>3. ASSUME NEW q \in Requests, Serve(q)
        PROVE  CredentialInv'
    <2>1. CASE Upgrade(q)
      <3>1. \A i \in DOMAIN credentials : credentials[i] \in Credential
        BY Rows
      <3>2. /\ DOMAIN credentials' = DOMAIN credentials
            /\ credentials[request[q].cred].kind = "token"
            /\ \A i \in DOMAIN credentials :
                 credentials'[i] = IF i = request[q].cred
                   THEN [credentials[i] EXCEPT !.secret_hash =
                           [scheme |-> "sha256", of |-> credentials[i].given]]
                   ELSE credentials[i]
        BY <2>1, UpgradeType
      <3>3. \A i \in DOMAIN credentials :
              /\ credentials[i].kind = "password" => credentials'[i] = credentials[i]
              /\ credentials[i].kind = "token" =>
                   /\ credentials'[i].kind = "token"
                   /\ credentials'[i].secret_hash.of = credentials'[i].given
        BY <3>1, <3>2 DEF Credential, CredentialInv, TokenInv
      <3> QED
        BY <2>1, <3>2, <3>3, TokensInPlace DEF Upgrade
    <2>2. CASE ~Upgrade(q)
      <3>1. UNCHANGED <<credentials, runs>>
        BY <1>3, <2>2
        DEF Serve, PresentToken, UpgradeFails, PresentCookie, LogOut, FindSession, FindActor,
            LogIn, OpenSession, Resolve, tables
      <3> QED
        BY <3>1, CredentialsAlone
    <2> QED
      BY <2>1, <2>2
  <1>4. ASSUME NEW i \in DOMAIN credentials, RevokeToken(i)
        PROVE  CredentialInv'
    <2>1. \A j \in DOMAIN credentials : credentials[j] \in Credential
      BY Rows
    <2>2. \A j \in DOMAIN credentials :
            /\ credentials[j].kind = "password" => credentials'[j] = credentials[j]
            /\ credentials[j].kind = "token" =>
                 /\ credentials'[j].kind = "token"
                 /\ credentials'[j].secret_hash.of = credentials'[j].given
      <3> TAKE j \in DOMAIN credentials
      <3>1. /\ credentials[i].kind = "token"
            /\ credentials'[j] = IF j = i THEN [credentials[j] EXCEPT !.revoked = TRUE]
                                          ELSE credentials[j]
        BY <1>4, RevokeTokenType
      <3>2. CASE j = i
        <4>1. credentials'[j] = [credentials[j] EXCEPT !.revoked = TRUE]
          BY <3>1, <3>2
        <4>2. /\ credentials'[j].kind = "token"
              /\ credentials'[j].secret_hash = credentials[j].secret_hash
              /\ credentials'[j].given = credentials[j].given
          BY <2>1, <3>1, <3>2, <4>1 DEF Credential
        <4>3. credentials[j].secret_hash.of = credentials[j].given
          BY <3>1, <3>2 DEF CredentialInv, TokenInv
        <4> QED
          BY <3>1, <3>2, <4>2, <4>3
      <3>3. CASE j # i
        <4>1. credentials'[j] = credentials[j]
          BY <3>1, <3>3
        <4> QED
          BY <4>1 DEF CredentialInv, TokenInv
      <3> QED
        BY <3>2, <3>3
    <2>3. DOMAIN credentials' = DOMAIN credentials
      BY <1>4, RevokeTokenType
    <2> QED
      BY <1>4, <2>2, <2>3, TokensInPlace DEF RevokeToken
  <1>5. CASE \/ \E h \in Handles : Suspend(h)
             \/ \E t \in 0..MaxClock : SetClock(t)
    BY <1>5, CredentialsAlone DEF Suspend, SetClock, tables
  <1> QED
    BY <1>1, <1>2, <1>3, <1>4, <1>5 DEF Next

-----------------------------------------------------------------------------
(* Requests, and what was withdrawn when they were made.                   *)

\* No order is forgotten: a bootstrap that has begun has begun.
LEMMA OrdersGrow ==
    ASSUME TypeInv, [Next]_vars
    PROVE  \A h : Bootstraps(h) \subseteq Bootstraps(h)'
  <1>1. CASE UNCHANGED order
    BY <1>1 DEF Bootstraps
  <1>2. ASSUME NEW c \in Commands, NEW o \in Orders, LookUpActor(c, o)
        PROVE  \A h : Bootstraps(h) \subseteq Bootstraps(h)'
    <2>1. order[c] = None /\ \A d \in Commands \ {c} : order'[d] = order[d]
      BY <1>2 DEF LookUpActor, TypeInv, TypeOK, OrderInv
    <2> QED
      BY <2>1 DEF Bootstraps
  <1>3. \/ UNCHANGED order
        \/ \E c \in Commands, o \in Orders : LookUpActor(c, o)
    <2>1. ASSUME NEW c \in Commands, Command(c)
          PROVE  UNCHANGED order \/ \E o \in Orders : LookUpActor(c, o)
      BY <2>1 DEF Command, MissIssuer, InsertIssuer, InsertActor, UpdateActor, RevokePasswords,
                  InsertCredential, Audit, Fail, Step
    <2>2. ASSUME NEW q \in Requests, Serve(q)
          PROVE  UNCHANGED order
      BY <2>2 DEF Serve, PresentToken, Upgrade, UpgradeFails, PresentCookie, LogOut, FindSession,
                  FindActor, LogIn, OpenSession, Resolve, runs
    <2> QED
      BY <2>1, <2>2 DEF Next, Suspend, RevokeToken, SetClock, runs, vars
  <1> QED
    BY <1>1, <1>2, <1>3

\* A suspended actor stays suspended, unless a bootstrap restores it.
LEMMA SuspensionsStay ==
    ASSUME TypeInv, [Next]_vars
    PROVE  \A h \in Handles : Suspended(h) => Suspended(h)' \/ Bootstraps(h)' # {}
  <1>1. CASE UNCHANGED actors
    BY <1>1 DEF Suspended
  <1>2. ASSUME NEW c \in Commands, InsertActor(c)
        PROVE  \A h \in Handles : Suspended(h) => Suspended(h)'
    <2>1. order[c].handle \in Handles
      BY <1>2, OrderFields DEF InsertActor, TypeInv, OrderInv
    <2> QED
      BY <1>2, <2>1 DEF InsertActor, Suspended, TypeInv, TypeOK
  <1>3. ASSUME NEW c \in Commands, UpdateActor(c), NEW h \in Handles, Suspended(h)
        PROVE  Suspended(h)' \/ Bootstraps(h)' # {}
    <2>1. order[c] \in Orders /\ order[c] # None /\ order'[c] = order[c]
      BY <1>3, OrderFields DEF UpdateActor, Step, TypeInv, OrderInv
    <2>2. CASE order[c].op = "bootstrap" /\ order[c].handle = h
      BY <2>1, <2>2 DEF Bootstraps
    <2>3. CASE ~(order[c].op = "bootstrap" /\ order[c].handle = h)
      BY <1>3, <2>3 DEF UpdateActor, Suspended, TypeInv, TypeOK
    <2> QED
      BY <2>2, <2>3
  <1>4. ASSUME NEW k \in Handles, Suspend(k)
        PROVE  \A h \in Handles : Suspended(h) => Suspended(h)'
    BY <1>4 DEF Suspend, IsActive, Suspended, TypeInv, TypeOK
  <1>5. \/ UNCHANGED actors
        \/ \E c \in Commands : InsertActor(c) \/ UpdateActor(c)
        \/ \E k \in Handles : Suspend(k)
    <2>1. ASSUME NEW c \in Commands, Command(c)
          PROVE  UNCHANGED actors \/ InsertActor(c) \/ UpdateActor(c)
      BY <2>1 DEF Command, MissIssuer, InsertIssuer, LookUpActor, RevokePasswords,
                  InsertCredential, Audit, Fail, tables
    <2>2. ASSUME NEW q \in Requests, Serve(q)
          PROVE  UNCHANGED actors
      BY <2>2 DEF Serve, PresentToken, Upgrade, UpgradeFails, PresentCookie, LogOut, FindSession,
                  FindActor, LogIn, OpenSession, Resolve, tables
    <2> QED
      BY <2>1, <2>2 DEF Next, RevokeToken, SetClock, tables, vars
  <1> QED
    BY <1>1, <1>2, <1>3, <1>4, <1>5

\* A session keeps its row and its actor, and stays revoked.
LEMMA SessionsStay ==
    ASSUME TypeInv, [Next]_vars
    PROVE  \A s \in DOMAIN sessions :
             /\ s \in DOMAIN sessions'
             /\ sessions'[s].handle = sessions[s].handle
             /\ sessions[s].revoked => sessions'[s].revoked
  <1>1. CASE UNCHANGED sessions
    BY <1>1
  <1>2. ASSUME NEW q \in Requests, OpenSession(q), NEW s \in DOMAIN sessions
        PROVE  s \in DOMAIN sessions' /\ sessions'[s] = sessions[s]
    BY <1>2, OpenSessionType
  <1>3. ASSUME NEW q \in Requests, NEW z \in DOMAIN sessions, LogOut(q, z),
               NEW s \in DOMAIN sessions
        PROVE  /\ s \in DOMAIN sessions'
               /\ sessions'[s].handle = sessions[s].handle
               /\ sessions[s].revoked => sessions'[s].revoked
    BY <1>3, LogOutType, Rows DEF Session
  <1>4. \/ UNCHANGED sessions
        \/ \E q \in Requests :
             OpenSession(q) \/ \E z \in DOMAIN sessions : LogOut(q, z)
    <2>1. ASSUME NEW c \in Commands, Command(c)
          PROVE  UNCHANGED sessions
      BY <2>1 DEF Command, MissIssuer, InsertIssuer, LookUpActor, InsertActor, UpdateActor,
                  RevokePasswords, InsertCredential, Audit, Fail, tables
    <2>2. ASSUME NEW q \in Requests, Serve(q)
          PROVE  \/ UNCHANGED sessions
                 \/ OpenSession(q) \/ \E z \in DOMAIN sessions : LogOut(q, z)
      BY <2>2 DEF Serve, PresentToken, Upgrade, UpgradeFails, PresentCookie, FindSession,
                  FindActor, LogIn, Resolve, tables
    <2> QED
      BY <2>1, <2>2 DEF Next, Suspend, RevokeToken, SetClock, tables, vars
  <1> QED
    BY <1>1, <1>2, <1>3, <1>4

\* A credential keeps its row and stays revoked.
LEMMA RevocationsStay ==
    ASSUME TypeInv, [Next]_vars
    PROVE  \A i \in DOMAIN credentials : credentials[i].revoked => credentials'[i].revoked
  <1> SUFFICES ASSUME NEW i \in DOMAIN credentials, credentials[i].revoked
               PROVE  credentials'[i].revoked
    OBVIOUS
  <1>1. credentials[i] \in Credential
    BY Rows
  <1>2. CASE UNCHANGED credentials
    BY <1>2
  <1>3. ASSUME NEW c \in Commands, RevokePasswords(c)
        PROVE  credentials'[i].revoked
    BY <1>1, <1>3, RevokePasswordsType DEF Credential
  <1>4. ASSUME NEW c \in Commands, InsertCredential(c)
        PROVE  credentials'[i].revoked
    <2>1. PICK row \in Credential : credentials' = Append(credentials, row)
      BY <1>4, InsertCredentialType
    <2>2. credentials'[i] = credentials[i]
      BY <2>1, RowAppended DEF TypeInv, TypeOK
    <2> QED
      BY <2>2
  <1>5. ASSUME NEW q \in Requests, Upgrade(q)
        PROVE  credentials'[i].revoked
    BY <1>1, <1>5, UpgradeType DEF Credential
  <1>6. ASSUME NEW j \in DOMAIN credentials, RevokeToken(j)
        PROVE  credentials'[i].revoked
    BY <1>1, <1>6, RevokeTokenType DEF Credential
  <1>7. \/ UNCHANGED credentials
        \/ \E c \in Commands : RevokePasswords(c) \/ InsertCredential(c)
        \/ \E q \in Requests : Upgrade(q)
        \/ \E j \in DOMAIN credentials : RevokeToken(j)
    <2>1. ASSUME NEW c \in Commands, Command(c)
          PROVE  UNCHANGED credentials \/ RevokePasswords(c) \/ InsertCredential(c)
      BY <2>1 DEF Command, MissIssuer, InsertIssuer, LookUpActor, InsertActor, UpdateActor,
                  Audit, Fail, tables
    <2>2. ASSUME NEW q \in Requests, Serve(q)
          PROVE  UNCHANGED credentials \/ Upgrade(q)
      BY <2>2 DEF Serve, PresentToken, UpgradeFails, PresentCookie, LogOut, FindSession,
                  FindActor, LogIn, OpenSession, Resolve, tables
    <2> QED
      BY <2>1, <2>2 DEF Next, Suspend, SetClock, tables, vars
  <1> QED
    BY <1>2, <1>3, <1>4, <1>5, <1>6, <1>7

\* What is said of a request that a step leaves alone goes on to hold.
LEMMA RequestAlone ==
    ASSUME TypeInv, [Next]_vars, NEW q \in Requests, request'[q] = request[q], LateOK(q)
    PROVE  LateOK(q)'
  <1>1. request[q].at \in {"cookie", "actor"} =>
            /\ request[q].session \in DOMAIN sessions
            /\ sessions[request[q].session].handle \in Handles
    BY Rows DEF TypeInv, RequestInv, Session
  <1>2. \A h : Bootstraps(h) # {} => Bootstraps(h)' # {}
    BY OrdersGrow
  <1>3. PICK r : r = request[q]
    OBVIOUS
  <1>4. request'[q] = r
    BY <1>3
  <1>5. ("actor" \in r.late /\ r.at \in {"cookie", "actor"}) =>
            Suspended(r.handle)' \/ Bootstraps(r.handle)' # {}
    <2>1. CASE Suspended(r.handle) /\ r.handle \in Handles
      BY <2>1, SuspensionsStay
    <2>2. CASE Bootstraps(r.handle) # {}
      BY <2>2, <1>2
    <2> QED
      BY <1>1, <1>3, <2>1, <2>2 DEF LateOK
  <1>6. ("actor" \in r.late /\ r.at = "in") => Bootstraps(r.handle)' # {}
    BY <1>2, <1>3 DEF LateOK
  <1>7. r.at \in {"cookie", "actor"} =>
            /\ r.handle = sessions'[r.session].handle
            /\ sessions[r.session].revoked => sessions'[r.session].revoked
    BY <1>1, <1>3, SessionsStay DEF LateOK
  <1>8. /\ Bootstraps(request[q].handle)' = Bootstraps(r.handle)'
        /\ Suspended(request[q].handle)' <=> Suspended(r.handle)'
    BY <1>4 DEF Bootstraps, Suspended
  <1> QED
    BY <1>3, <1>4, <1>5, <1>6, <1>7, <1>8 DEF LateOK

\* A request that has just been made, or goes on, carries what was withdrawn.
LEMMA RequestServed ==
    ASSUME TypeInv, NEW q \in Requests, LateOK(q), Serve(q)
    PROVE  LateOK(q)' /\ \A p \in Requests \ {q} : request'[p] = request[p]
  <1> USE DEF LateOK
  <1>1. ASSUME NEW i \in DOMAIN credentials, NEW s \in {0} \cup DOMAIN sessions, NEW secret,
               PresentToken(q, i, secret, s)
        PROVE  \/ \E r \in Request : Resolve(q, r) /\ r.at \in {"upgrade", "in"}
                                  /\ r.session = 0 /\ r.late = {}
               \/ \E z \in DOMAIN sessions : Resolve(q, WithCookie(z))
               \/ Resolve(q, Anonymous)
    BY <1>1, PresentTokenKinds
  <1>2. ASSUME NEW r, Resolve(q, r)
        PROVE  /\ request'[q] = r /\ \A p \in Requests \ {q} : request'[p] = request[p]
               /\ UNCHANGED <<actors, order, sessions>>
    BY <1>2 DEF Resolve, tables, runs, TypeInv, TypeOK
  <1>3. ASSUME NEW r \in Request, Resolve(q, r),
               r.at \in {"upgrade", "in"}, r.session = 0, r.late = {}
        PROVE  LateOK(q)'
    BY <1>2, <1>3
  <1>4. ASSUME NEW s \in DOMAIN sessions, Resolve(q, WithCookie(s))
        PROVE  LateOK(q)'
    <2>1. PICK r : r = WithCookie(s)
      OBVIOUS
    <2>2. /\ r.at = "cookie" /\ r.cred = 0 /\ r.session = s /\ r.handle = sessions[s].handle
          /\ r.late = Late(0, s, r.handle)
      BY <2>1, CookieRequest
    <2>3. /\ "session" \in r.late => sessions[s].revoked
          /\ "actor" \in r.late => Suspended(r.handle)
      BY <2>2 DEF Late, IsActive, Suspended
    <2>4. request'[q] = r /\ UNCHANGED <<actors, sessions>>
      BY <1>2, <1>4, <2>1
    <2>5. "actor" \in r.late => Suspended(request[q].handle)'
      BY <2>3, <2>4 DEF Suspended
    <2> QED
      BY <2>2, <2>3, <2>4, <2>5
  <1>5. ASSUME request'[q].at \in {"done", "verified"}
        PROVE  LateOK(q)'
    BY <1>5
  <1>6. ASSUME Upgrade(q) \/ UpgradeFails(q)
        PROVE  LateOK(q)'
    <2>1. request'[q] = [request[q] EXCEPT !.at = "in"] /\ request[q].at = "upgrade"
      BY <1>6 DEF Upgrade, UpgradeFails, Resolve, TypeInv, TypeOK
    <2>2. request[q] \in Request
      BY DEF TypeInv, TypeOK
    <2>3. request'[q].at = "in" /\ request'[q].session = 0 /\ request'[q].late = {}
      BY <2>1, <2>2 DEF Request
    <2> QED
      BY <2>3
  <1>7. ASSUME FindSession(q)
        PROVE  LateOK(q)'
    <2>1. CASE Resolve(q, Anonymous)
      BY <1>2, <1>5, <2>1, NewIsRequest
    <2>2. CASE ~Resolve(q, Anonymous)
      <3>1. PICK s : s = request[q].session
        OBVIOUS
      <3>2. PICK r : r = [request[q] EXCEPT !.at = "actor", !.handle = sessions[s].handle]
        OBVIOUS
      <3>3. ~sessions[s].revoked /\ request[q].at = "cookie" /\ Resolve(q, r)
        BY <1>7, <2>2, <3>1, <3>2 DEF FindSession
      <3>4. request[q] \in Request
        BY DEF TypeInv, TypeOK
      <3>5. /\ r.at = "actor" /\ r.cred = request[q].cred /\ r.late = request[q].late
            /\ r.session = s /\ r.handle = request[q].handle
        BY <3>1, <3>2, <3>3, <3>4 DEF Request
      <3>6. request'[q] = r /\ UNCHANGED <<actors, order, sessions>>
        BY <1>2, <3>3
      <3>7. /\ Suspended(request[q].handle)' <=> Suspended(request[q].handle)
            /\ Bootstraps(request[q].handle)' = Bootstraps(request[q].handle)
        BY <3>5, <3>6 DEF Suspended, Bootstraps
      <3> QED
        BY <3>1, <3>3, <3>5, <3>6, <3>7
    <2> QED
      BY <2>1, <2>2
  <1>8. ASSUME FindActor(q)
        PROVE  LateOK(q)'
    <2>1. CASE Resolve(q, Anonymous)
      BY <1>2, <1>5, <2>1, NewIsRequest
    <2>2. CASE ~Resolve(q, Anonymous)
      <3>1. PICK r : r = [request[q] EXCEPT !.at = "in"]
        OBVIOUS
      <3>2. IsActive(request[q].handle) /\ request[q].at = "actor" /\ Resolve(q, r)
        BY <1>8, <2>2, <3>1 DEF FindActor
      <3>3. request[q] \in Request
        BY DEF TypeInv, TypeOK
      <3>4. /\ r.at = "in" /\ r.cred = request[q].cred /\ r.late = request[q].late
            /\ r.session = request[q].session /\ r.handle = request[q].handle
        BY <3>1, <3>3 DEF Request
      <3>5. request'[q] = r /\ UNCHANGED <<actors, order, sessions>>
        BY <1>2, <3>2
      <3>6. ~Suspended(request[q].handle)
        BY <3>2 DEF Suspended, IsActive
      <3>7. Bootstraps(request[q].handle)' = Bootstraps(request[q].handle)
        BY <3>4, <3>5 DEF Bootstraps
      <3> QED
        BY <3>2, <3>4, <3>5, <3>6, <3>7
    <2> QED
      BY <2>1, <2>2
  <1>9. ASSUME NEW h \in Handles, NEW password \in Passwords, LogIn(q, h, password)
        PROVE  request'[q].at \in {"done", "verified"}
    <2>1. /\ [NewRequest EXCEPT !.at = "verified", !.handle = h].at = "verified"
          /\ Anonymous.at = "done"
      BY NewIsRequest DEF NewRequest
    <2> QED
      BY <1>2, <1>9, <2>1 DEF LogIn
  <1>10. ASSUME OpenSession(q) \/ \E s \in DOMAIN sessions : LogOut(q, s)
         PROVE  request'[q].at = "done"
    BY <1>10, NewIsRequest DEF OpenSession, LogOut, TypeInv, TypeOK
  <1>11. \A p \in Requests \ {q} : request'[p] = request[p]
    BY DEF Serve, PresentToken, Upgrade, UpgradeFails, PresentCookie, LogOut, FindSession,
           FindActor, LogIn, OpenSession, Resolve, TypeInv, TypeOK
  <1>12. LateOK(q)'
    <2> HIDE DEF LateOK
    <2>1. CASE \E i \in DOMAIN credentials, s \in {0} \cup DOMAIN sessions :
                 \E secret \in {credentials[i].given, None} : PresentToken(q, i, secret, s)
      <3>1. CASE Resolve(q, Anonymous)
        BY <1>2, <1>5, <3>1, NewIsRequest
      <3> QED
        BY <1>1, <1>3, <1>4, <2>1, <3>1
    <2>2. CASE \E s \in DOMAIN sessions : PresentCookie(q, s)
      BY <1>4, <2>2 DEF PresentCookie
    <2> QED
      BY <1>5, <1>6, <1>7, <1>8, <1>9, <1>10, <2>1, <2>2 DEF Serve
  <1> QED
    BY <1>11, <1>12

\* Every step of the system keeps what is said of requests.
LEMMA NextLate == TypeInv /\ LateInv /\ [Next]_vars => LateInv'
  <1> SUFFICES ASSUME TypeInv, LateInv, [Next]_vars, NEW q \in Requests
               PROVE  LateOK(q)'
    BY DEF LateInv
  <1>1. LateOK(q)
    BY DEF LateInv
  <1>2. CASE request'[q] = request[q]
    BY <1>1, <1>2, RequestAlone
  <1>3. CASE request'[q] # request[q]
    <2>1. ~UNCHANGED request
      BY <1>3
    <2>2. ASSUME NEW c \in Commands, Command(c)
          PROVE  UNCHANGED request
      BY <2>2 DEF Command, MissIssuer, InsertIssuer, LookUpActor, InsertActor, UpdateActor,
                  RevokePasswords, InsertCredential, Audit, Fail, Step
    <2>3. PICK p \in Requests : Serve(p)
      BY <2>1, <2>2 DEF Next, Suspend, RevokeToken, SetClock, vars
    <2>4. LateOK(p)
      BY DEF LateInv
    <2>5. p = q
      BY <1>3, <2>3, <2>4, RequestServed
    <2> QED
      BY <1>1, <2>3, <2>5, RequestServed
  <1> QED
    BY <1>2, <1>3

-----------------------------------------------------------------------------
(* The theorems.                                                           *)

\* Whatever the order of the statements of runs, requests and administration,
\* the tables and the runs keep to what the invariants above say of them.
THEOREM AccessInvariance == Spec => []AccessInv
  <1>1. Init => AccessInv
    <2>1. Init => LateInv
      BY NewIsRequest DEF Init, LateInv, LateOK
    <2> QED
      BY <2>1, InitType, InitCredentials DEF AccessInv
  <1>2. AccessInv /\ [Next]_vars => AccessInv'
    BY NextType, NextCredentials, NextLate DEF AccessInv
  <1> QED
    BY <1>1, <1>2, PTL DEF Spec

\* Every variable keeps to the values its table or task can have.
THEOREM AccessTypeCorrect == Spec => []TypeOK
  <1>1. AccessInv => TypeOK
    BY DEF AccessInv, TypeInv
  <1> QED
    BY <1>1, AccessInvariance, PTL

\* A password that a successful bootstrap replaced opens no login, whatever runs
\* overlapped the one that had set it.
THEOREM ReplacedPasswordStaysShut == Spec => []ReplacedPasswordIsShut
  <1>1. AccessInv => ReplacedPasswordIsShut
    BY DEF AccessInv, CredentialInv, ReplacedInv, ReplacedPasswordIsShut,
           NewestPasswords, LivePasswords
  <1> QED
    BY <1>1, AccessInvariance, PTL

\* The password of a bootstrap that was alone opens the actor's login: it is the
\* one password that is live.
THEOREM LonePasswordOpens == Spec => []NewPasswordOpens
  <1>1. ASSUME AccessInv, NEW h \in Handles, NEW d \in Bootstraps(h), cpc[d] = "ok",
               \A e \in Bootstraps(h) \ {d} : <<e, d>> \in before
        PROVE  /\ LivePasswords(h) # {}
               /\ \A i \in NewestPasswords(h) : PasswordOpens(i, order[d].password)
    <2>1. LivePasswords(h) # {}
      BY <1>1 DEF AccessInv, CredentialInv, LoneInv
    <2>2. ASSUME NEW i \in NewestPasswords(h)
          PROVE  PasswordOpens(i, order[d].password)
      <3>1. /\ i \in DOMAIN credentials /\ credentials[i].kind = "password"
            /\ credentials[i].handle = h /\ ~credentials[i].revoked
        BY DEF NewestPasswords, LivePasswords
      <3>2. ~Follows(d, i)
        BY <1>1, <3>1 DEF AccessInv, CredentialInv, ReplacedInv
      <3>3. credentials[i].by # None
        BY <3>2 DEF Follows
      <3>4. credentials[i].by \in Bootstraps(h)
        BY <1>1, <3>1, <3>3 DEF AccessInv, CredentialInv, PasswordInv
      <3>5. credentials[i].by = d
        BY <1>1, <3>2, <3>4 DEF Follows
      <3> QED
        BY <1>1, <3>1, <3>3, <3>5 DEF AccessInv, CredentialInv, PasswordInv
    <2> QED
      BY <2>1, <2>2
  <1>2. AccessInv => NewPasswordOpens
    BY <1>1 DEF NewPasswordOpens
  <1> QED
    BY <1>2, AccessInvariance, PTL

\* A token that is live opens for its secret, whoever upgrades its row.
THEOREM LiveTokensOpen == Spec => []TokenKeepsOpening
  <1>1. AccessInv => TokenKeepsOpening
    BY DEF AccessInv, CredentialInv, TokenInv, TokenKeepsOpening, TokenOpens, IsLiveToken
  <1> QED
    BY <1>1, AccessInvariance, PTL

\* A request made after its actor was suspended is let in only once a bootstrap
\* of the actor has begun.
THEOREM SuspendedStaysShut == Spec => []SuspendedIsShut
  <1>1. AccessInv => SuspendedIsShut
    BY DEF AccessInv, LateInv, LateOK, SuspendedIsShut
  <1> QED
    BY <1>1, AccessInvariance, PTL

\* No step takes a revocation back, or lets in a request that was made after
\* its token was revoked or its session logged out.
THEOREM RevokedStaysShut == Spec => RevokedIsShut
  <1>1. AccessInv /\ AccessInv' /\ [Next]_vars =>
          [ /\ \A i \in DOMAIN credentials : credentials[i].revoked => credentials'[i].revoked
            /\ \A s \in DOMAIN sessions : sessions[s].revoked => sessions'[s].revoked
            /\ \A q \in Requests :
                request'[q].at = "in" =>
                    /\ request'[q].cred # 0 => "token" \notin request'[q].late
                    /\ request'[q].session # 0 => "session" \notin request'[q].late ]_vars
    <2> SUFFICES ASSUME AccessInv, AccessInv', [Next]_vars
                 PROVE
                   /\ \A i \in DOMAIN credentials :
                        credentials[i].revoked => credentials'[i].revoked
                   /\ \A s \in DOMAIN sessions : sessions[s].revoked => sessions'[s].revoked
                   /\ \A q \in Requests :
                        request'[q].at = "in" =>
                          /\ request'[q].cred # 0 => "token" \notin request'[q].late
                          /\ request'[q].session # 0 => "session" \notin request'[q].late
      OBVIOUS
    <2>1. \A i \in DOMAIN credentials : credentials[i].revoked => credentials'[i].revoked
      BY RevocationsStay DEF AccessInv
    <2>2. \A s \in DOMAIN sessions : sessions[s].revoked => sessions'[s].revoked
      BY SessionsStay DEF AccessInv
    <2>3. \A q \in Requests :
            request'[q].at = "in" =>
              /\ request'[q].cred # 0 => "token" \notin request'[q].late
              /\ request'[q].session # 0 => "session" \notin request'[q].late
      BY DEF AccessInv, LateInv, LateOK
    <2> QED
      BY <2>1, <2>2, <2>3
  <1> QED
    BY <1>1, AccessInvariance, PTL DEF Spec, RevokedIsShut

=============================================================================
