-------------------------------- MODULE Access --------------------------------
(***************************************************************************)
(* Who may act: the tables actors, credentials and sessions, changed by    *)
(* runs of `wikikiki bootstrap` and `wikikiki issue-token` (src/main.rs,   *)
(* src/actor/mod.rs) one statement at a time and without a transaction,    *)
(* while the server resolves requests to actors (src/web/mod.rs,           *)
(* src/auth/token.rs, src/auth/session.rs) and an administrator suspends   *)
(* actors and revokes credentials.                                         *)
(***************************************************************************)
EXTENDS Integers, Sequences, FiniteSets

CONSTANTS
    Handles,     \* actors.handle
    Passwords,   \* passwords an operator may choose
    Commands,    \* runs of the command line, each made at most once
    Orders,      \* what a run may be asked to do
    Requests,    \* HTTP requests, each made at most once
    OldPassword, \* the password of an actor there is at the start
    Lifetime,    \* session_lifetime
    MaxClock,    \* bound of the clock, in seconds
    None         \* no row, no expiry, no order

\* A token's expiry is computed before the run looks up its actor.
Order == [op : {"bootstrap"}, handle : Handles, type : {"human"},
          password : Passwords, expires_at : {None}]
            \cup [op : {"issue"}, handle : Handles, type : {"human", "agent"},
                  password : {None}, expires_at : Nat \cup {None}]

ASSUME OrdersAreOrders == Orders \subseteq Order
ASSUME OldPasswordIsOne == OldPassword \in Passwords
ASSUME LifetimeIsSeconds == Lifetime \in Nat /\ MaxClock \in Nat
ASSUME NoneIsNoValue == None \notin Handles \cup Passwords \cup Commands \cup Nat
ASSUME NoneIsNoOrder == None \notin Order

VARIABLES
    clock,        \* wall clock
    actors,       \* the table actors: [Handles -> a row or None]
    system,       \* whether it has the row `system`, in whose name tokens are issued
    credentials,  \* the table credentials, in the order of its ids
    sessions,     \* the table sessions, in the order of insertion
    cpc,          \* [Commands -> the statement a run is at, or how it ended]
    order,        \* [Commands -> what it was asked to do, None before]
    known,        \* [Commands -> whether the run found its actor]
    request,      \* [Requests -> how far the server has resolved it]
    before        \* history variable: <<c, d>> when run c ended before d began

tables == <<actors, system, credentials, sessions>>
runs == <<cpc, order, known, before>>
vars == <<clock, tables, runs, request>>

ActorRow == [type : {"human", "agent"}, is_active : BOOLEAN]

ASSUME NoneIsNoRow == None \notin ActorRow

\* A token's secret is drawn by the run that issues it, and no other draws the
\* same; the secret of a token from the start is named after its actor.
TokenSecrets == Commands \cup Handles
Secrets == Passwords \cup TokenSecrets

\* What is stored of a secret: the scheme, and what it was made from.
Hash == [scheme : {"argon2", "sha256"}, of : Secrets]

\* `given` is the secret its holder was given; it is nowhere in the table.
Credential == [handle : Handles, kind : {"password", "token"}, secret_hash : Hash,
               revoked : BOOLEAN, expires_at : Nat \cup {None}, created_at : Nat,
               by : Commands \cup {None}, given : Secrets]

Session == [handle : Handles, expires_at : Nat, revoked : BOOLEAN]

\* `late` is a history field: what had already been withdrawn when the request
\* was made.  A request that ends as an anonymous one is "done".
Request == [at : {"idle", "upgrade", "cookie", "actor", "verified", "in", "done"},
            handle : Handles \cup {None}, cred : Nat, session : Nat,
            late : SUBSET {"token", "session", "actor"}]

NewRequest == [at |-> "idle", handle |-> None, cred |-> 0, session |-> 0, late |-> {}]
Anonymous == [NewRequest EXCEPT !.at = "done"]

Ended == {"ok", "conflict", "error"}

Old(h, k, secret) ==
    [handle |-> h, kind |-> k, secret_hash |-> [scheme |-> "argon2", of |-> secret],
     revoked |-> FALSE, expires_at |-> None, created_at |-> 0, by |-> None,
     given |-> secret]

\* Either a new installation, or one with an administrator who has a password,
\* an open session, and a token that an old version stored under Argon2.
Init ==
    /\ clock = 0
    /\ \/ /\ actors = [h \in Handles |-> None]
          /\ system = FALSE
          /\ credentials = <<>>
          /\ sessions = <<>>
       \/ \E admin \in Handles :
          /\ actors = [h \in Handles |->
               IF h = admin THEN [type |-> "human", is_active |-> TRUE]
                            ELSE None]
          /\ system = TRUE
          /\ credentials = <<Old(admin, "password", OldPassword), Old(admin, "token", admin)>>
          /\ sessions = <<[handle |-> admin, expires_at |-> Lifetime, revoked |-> FALSE]>>
    /\ cpc = [c \in Commands |-> "idle"]
    /\ order = [c \in Commands |-> None]
    /\ known = [c \in Commands |-> FALSE]
    /\ request = [q \in Requests |-> NewRequest]
    /\ before = {}

IsActive(h) == actors[h] # None /\ actors[h].is_active

-----------------------------------------------------------------------------
(* bootstrap_admin and issue_actor_token.                                  *)

\* The run goes on to `step`, or ends as `step` says.
Step(c, from, step) ==
    /\ cpc[c] = from
    /\ cpc' = [cpc EXCEPT ![c] = step]
    /\ UNCHANGED <<clock, order, known, before, request>>

\* issue-token finds no issuer ...
MissIssuer(c) ==
    /\ ~system
    /\ Step(c, "idle", "issuer")
    /\ UNCHANGED tables

\* ... and inserts one, and fails if another run was faster.
InsertIssuer(c) ==
    /\ Step(c, "issuer", IF system THEN "error" ELSE "issued")
    /\ system' = TRUE
    /\ UNCHANGED <<actors, credentials, sessions>>

\* actor_by_handle: an actor of another type ends the run.  Where there is an
\* issuer it stays, and has been looked up just before.
LookUpActor(c, o) ==
    LET row == actors[o.handle]
    IN /\ \/ cpc[c] = "idle" /\ (o.op = "issue" => system)
          \/ cpc[c] = "issued" /\ o.op = "issue"
       /\ cpc' = [cpc EXCEPT ![c] =
                    IF row # None /\ row.type # o.type THEN "conflict" ELSE "actor"]
       /\ order' = [order EXCEPT ![c] = o]
       /\ known' = [known EXCEPT ![c] = row # None]
       /\ before' = before \cup {<<d, c>> : d \in {e \in Commands : cpc[e] \in Ended}}
       /\ UNCHANGED <<clock, tables, request>>

NextStatement(o) == IF o.op = "bootstrap" THEN "revoke" ELSE "insert"

\* A run that found no actor inserts it, and fails if another run was faster
\* (handle is UNIQUE) ...
InsertActor(c) ==
    LET o == order[c]
        row == [type |-> o.type, is_active |-> TRUE]
    IN /\ cpc[c] = "actor" /\ ~known[c]
       /\ \/ /\ actors[o.handle] = None
             /\ Step(c, "actor", NextStatement(o))
             /\ actors' = [actors EXCEPT ![o.handle] = row]
          \/ /\ actors[o.handle] # None
             /\ Step(c, "actor", "error")
             /\ UNCHANGED actors
       /\ UNCHANGED <<system, credentials, sessions>>

\* ... and one that found it activates it, if it is a bootstrap.
UpdateActor(c) ==
    LET o == order[c]
    IN /\ cpc[c] = "actor" /\ known[c]
       /\ Step(c, "actor", NextStatement(o))
       /\ actors' = IF o.op = "bootstrap"
                      THEN [actors EXCEPT ![o.handle].is_active = TRUE]
                      ELSE actors
       /\ UNCHANGED <<system, credentials, sessions>>

LivePasswords(h) ==
    {i \in DOMAIN credentials :
        /\ credentials[i].handle = h
        /\ credentials[i].kind = "password"
        /\ ~credentials[i].revoked}

\* Mutant of RevokePasswords: login takes the newest password anyway.
RevokeNoPasswords(c) ==
    /\ Step(c, "revoke", "insert")
    /\ UNCHANGED tables

RevokePasswords(c) ==
    /\ Step(c, "revoke", "insert")
    /\ credentials' = [i \in DOMAIN credentials |->
         IF i \in LivePasswords(order[c].handle)
           THEN [credentials[i] EXCEPT !.revoked = TRUE] ELSE credentials[i]]
    /\ UNCHANGED <<actors, system, sessions>>

\* Mutant of SecretHash: a password is stored the way a token is.
SecretHashDigest(c) ==
    [scheme |-> "sha256",
     of |-> IF order[c].op = "bootstrap" THEN order[c].password ELSE c]

\* A password is stored under Argon2, a token as its digest.
SecretHash(c) ==
    IF order[c].op = "bootstrap" THEN [scheme |-> "argon2", of |-> order[c].password]
                                 ELSE [scheme |-> "sha256", of |-> c]

InsertCredential(c) ==
    LET o == order[c]
        row == [handle |-> o.handle,
                kind |-> IF o.op = "bootstrap" THEN "password" ELSE "token",
                secret_hash |-> SecretHash(c),
                revoked |-> FALSE,
                expires_at |-> o.expires_at,
                created_at |-> clock,
                by |-> c,
                given |-> IF o.op = "bootstrap" THEN o.password ELSE c]
    IN /\ Step(c, "insert", "audit")
       /\ credentials' = Append(credentials, row)
       /\ UNCHANGED <<actors, system, sessions>>

\* log_admin, and the run reports success: issue-token prints its token.
Audit(c) ==
    /\ Step(c, "audit", "ok")
    /\ UNCHANGED tables

\* A statement fails, log_admin's among them, or the run is killed between two.
Fail(c) ==
    /\ cpc[c] \notin {"idle"} \cup Ended
    /\ Step(c, cpc[c], "error")
    /\ UNCHANGED tables

Command(c) ==
    \/ MissIssuer(c) \/ InsertIssuer(c)
    \/ \E o \in Orders : LookUpActor(c, o)
    \/ InsertActor(c) \/ UpdateActor(c) \/ RevokePasswords(c)
    \/ InsertCredential(c) \/ Audit(c) \/ Fail(c)

-----------------------------------------------------------------------------
(* The server resolves a request.                                          *)

IsLiveToken(i) ==
    /\ credentials[i].kind = "token"
    /\ ~credentials[i].revoked
    /\ credentials[i].expires_at = None \/ clock < credentials[i].expires_at
    /\ IsActive(credentials[i].handle)

\* The row opens for a secret under the scheme it is stored by.
TokenOpens(i, secret) == IsLiveToken(i) /\ credentials[i].secret_hash.of = secret

\* verify_password_login compares under Argon2 only.
PasswordOpens(i, password) ==
    credentials[i].secret_hash = [scheme |-> "argon2", of |-> password]

Late(token, session, h) ==
    {x \in {"token", "session", "actor"} :
        \/ x = "token" /\ token # 0 /\ credentials[token].revoked
        \/ x = "session" /\ session # 0 /\ sessions[session].revoked
        \/ x = "actor" /\ actors[h] # None /\ ~IsActive(h)}

Resolve(q, r) ==
    /\ request' = [request EXCEPT ![q] = r]
    /\ UNCHANGED <<clock, tables, runs>>

\* The cookie of session s, still to be looked up.
WithCookie(s) ==
    LET h == sessions[s].handle
    IN [NewRequest EXCEPT !.at = "cookie", !.session = s, !.handle = h,
                          !.late = Late(0, s, h)]

\* The actor of token i, whose row has opened.
WithToken(i) ==
    LET h == credentials[i].handle
        legacy == credentials[i].secret_hash.scheme = "argon2"
    IN [NewRequest EXCEPT !.at = IF legacy THEN "upgrade" ELSE "in",
                          !.cred = i, !.handle = h, !.late = Late(i, 0, h)]

\* token::verify reads the row of the token's lookup key joined with its actor,
\* and compares; resolve_actor tries the session cookie, if there is one, when
\* the token does not open.  A wrong secret is None.
PresentToken(q, i, secret, s) ==
    /\ request[q].at = "idle"
    /\ credentials[i].kind = "token"
    /\ Resolve(q, CASE TokenOpens(i, secret) -> WithToken(i)
                    [] ~TokenOpens(i, secret) /\ s # 0 -> WithCookie(s)
                    [] OTHER -> Anonymous)

\* Mutants of Upgrade: the digest is taken of the stored hash; the row is
\* replaced by a fresh one.
UpgradeOfHash(q) ==
    /\ request[q].at = "upgrade"
    /\ credentials' = [credentials EXCEPT ![request[q].cred].secret_hash =
                         [scheme |-> "sha256", of |-> None]]
    /\ request' = [request EXCEPT ![q].at = "in"]
    /\ UNCHANGED <<clock, actors, system, sessions, runs>>

UpgradeReplacesRow(q) ==
    LET i == request[q].cred
    IN /\ request[q].at = "upgrade"
       /\ credentials' = [credentials EXCEPT
            ![i].secret_hash = [scheme |-> "sha256", of |-> credentials[i].given],
            ![i].revoked = FALSE]
       /\ request' = [request EXCEPT ![q].at = "in"]
       /\ UNCHANGED <<clock, actors, system, sessions, runs>>

\* The UPDATE that stores a legacy token's digest, taken of the secret that has
\* just opened it, whatever has become of the row since it was read.
Upgrade(q) ==
    LET i == request[q].cred
    IN /\ request[q].at = "upgrade"
       /\ credentials' = [credentials EXCEPT
            ![i].secret_hash = [scheme |-> "sha256", of |-> credentials[i].given]]
       /\ request' = [request EXCEPT ![q].at = "in"]
       /\ UNCHANGED <<clock, actors, system, sessions, runs>>

\* A failed upgrade is not a failed authentication.
UpgradeFails(q) ==
    /\ request[q].at = "upgrade"
    /\ Resolve(q, [request[q] EXCEPT !.at = "in"])

PresentCookie(q, s) ==
    /\ request[q].at = "idle"
    /\ Resolve(q, WithCookie(s))

\* session::lookup: first the session's row ...
FindSession(q) ==
    LET s == request[q].session
        live == ~sessions[s].revoked /\ clock < sessions[s].expires_at
    IN /\ request[q].at = "cookie"
       /\ Resolve(q, IF live THEN [request[q] EXCEPT !.at = "actor",
                                                     !.handle = sessions[s].handle]
                             ELSE Anonymous)

\* Mutant of FindActor: the session is taken for the actor's permission.
FindActorUnchecked(q) ==
    /\ request[q].at = "actor"
    /\ Resolve(q, [request[q] EXCEPT !.at = "in"])

\* ... then the actor it is of.
FindActor(q) ==
    /\ request[q].at = "actor"
    /\ Resolve(q, IF IsActive(request[q].handle) THEN [request[q] EXCEPT !.at = "in"]
                                                 ELSE Anonymous)

\* ORDER BY created_at DESC LIMIT 1: of passwords of the same second, any.
NewestPasswords(h) ==
    {i \in LivePasswords(h) :
        \A j \in LivePasswords(h) : credentials[j].created_at <= credentials[i].created_at}

\* verify_password_login.
LogIn(q, h, password) ==
    /\ request[q].at = "idle"
    /\ \/ /\ IsActive(h)
          /\ \E i \in NewestPasswords(h) : PasswordOpens(i, password)
          /\ Resolve(q, [NewRequest EXCEPT !.at = "verified", !.handle = h])
       \/ /\ IsActive(h) => LivePasswords(h) = {}
                \/ \E i \in NewestPasswords(h) : ~PasswordOpens(i, password)
          /\ Resolve(q, Anonymous)

\* session::create.
OpenSession(q) ==
    LET session == [handle |-> request[q].handle,
                    expires_at |-> clock + Lifetime, revoked |-> FALSE]
    IN /\ request[q].at = "verified"
       /\ sessions' = Append(sessions, session)
       /\ request' = [request EXCEPT ![q] = Anonymous]
       /\ UNCHANGED <<clock, actors, system, credentials, runs>>

\* session::revoke, for whatever session the cookie names.
LogOut(q, s) ==
    /\ request[q].at = "idle"
    /\ sessions' = [sessions EXCEPT ![s].revoked = TRUE]
    /\ request' = [request EXCEPT ![q] = Anonymous]
    /\ UNCHANGED <<clock, actors, system, credentials, runs>>

Serve(q) ==
    \/ \E i \in DOMAIN credentials, s \in {0} \cup DOMAIN sessions :
        \E secret \in {credentials[i].given, None} : PresentToken(q, i, secret, s)
    \/ Upgrade(q) \/ UpgradeFails(q)
    \/ \E s \in DOMAIN sessions : PresentCookie(q, s) \/ LogOut(q, s)
    \/ FindSession(q) \/ FindActor(q)
    \/ \E h \in Handles, password \in Passwords : LogIn(q, h, password)
    \/ OpenSession(q)

-----------------------------------------------------------------------------
(* Administration, and time.                                               *)

Suspend(h) ==
    /\ IsActive(h)
    /\ actors' = [actors EXCEPT ![h].is_active = FALSE]
    /\ UNCHANGED <<clock, system, credentials, sessions, runs, request>>

\* token::revoke.
RevokeToken(i) ==
    /\ credentials[i].kind = "token"
    /\ ~credentials[i].revoked
    /\ credentials' = [credentials EXCEPT ![i].revoked = TRUE]
    /\ UNCHANGED <<clock, actors, system, sessions, runs, request>>

\* The wall clock goes on, or is adjusted.
SetClock(t) ==
    /\ clock' = t
    /\ UNCHANGED <<tables, runs, request>>

Next ==
    \/ \E c \in Commands : Command(c)
    \/ \E q \in Requests : Serve(q)
    \/ \E h \in Handles : Suspend(h)
    \/ \E i \in DOMAIN credentials : RevokeToken(i)
    \/ \E t \in 0..MaxClock : SetClock(t)

Spec == Init /\ [][Next]_vars

-----------------------------------------------------------------------------
(* Properties.                                                             *)

\* Every variable keeps to the values its table or task can have.
TypeOK ==
    /\ clock \in 0..MaxClock
    /\ actors \in [Handles -> ActorRow \cup {None}]
    /\ system \in BOOLEAN
    /\ credentials \in Seq(Credential)
    /\ sessions \in Seq(Session)
    /\ cpc \in [Commands -> {"idle", "issuer", "issued", "actor", "revoke", "insert", "audit"} \cup Ended]
    /\ order \in [Commands -> Orders \cup {None}]
    /\ known \in [Commands -> BOOLEAN]
    /\ request \in [Requests -> Request]
    /\ before \subseteq Commands \X Commands

\* The bootstraps of a handle that have begun.
Bootstraps(h) ==
    {c \in Commands : order[c] # None /\ order[c].op = "bootstrap" /\ order[c].handle = h}

\* Whether run d began after the credential's run had ended.
Follows(d, i) == credentials[i].by = None \/ <<credentials[i].by, d>> \in before

\* Once a bootstrap has succeeded, login takes no password that was set by a run
\* that had ended before it began, whatever runs overlap them and however the
\* clock is adjusted (src/actor/mod.rs, "Replace any prior password credential").
ReplacedPasswordIsShut ==
    \A h \in Handles : \A i \in NewestPasswords(h), d \in Bootstraps(h) :
        cpc[d] = "ok" => ~Follows(d, i)

\* The password of a bootstrap that succeeded opens, unless another bootstrap of
\* the handle overlapped it or came later.
NewPasswordOpens ==
    \A h \in Handles : \A d \in Bootstraps(h) :
        /\ cpc[d] = "ok"
        /\ \A e \in Bootstraps(h) \ {d} : <<e, d>> \in before
        => /\ LivePasswords(h) # {}
           /\ \A i \in NewestPasswords(h) : PasswordOpens(i, order[d].password)

\* A token that is neither revoked nor expired, of an active actor, opens for
\* its secret, whichever requests have upgraded its row or are about to
\* (src/auth/token.rs, "no reissue, no flag day").
TokenKeepsOpening ==
    \A i \in DOMAIN credentials : IsLiveToken(i) => TokenOpens(i, credentials[i].given)

\* What is revoked stays revoked, and a request made after its session was
\* logged out, or its token revoked, is not let in by it
\* (src/auth/token.rs, "Revocation is immediate").
RevokedIsShut ==
    [][ /\ \A i \in DOMAIN credentials : credentials[i].revoked => credentials'[i].revoked
        /\ \A s \in DOMAIN sessions : sessions[s].revoked => sessions'[s].revoked
        /\ \A q \in Requests :
            request'[q].at = "in" =>
                /\ request'[q].cred # 0 => "token" \notin request'[q].late
                /\ request'[q].session # 0 => "session" \notin request'[q].late ]_vars

\* A request made after its actor was suspended is not let in, by a token or a
\* session, unless a bootstrap restores the actor (DESIGN.md, "revoking an actor
\* immediately revokes their access").
SuspendedIsShut ==
    \A q \in Requests :
        request[q].at = "in" /\ "actor" \in request[q].late
            => Bootstraps(request[q].handle) # {}
=============================================================================
