------------------------------- MODULE Browser -------------------------------
(***************************************************************************)
(* A person's browser and the server: logging in and out from several tabs *)
(* at once (src/web/mod.rs).  The session is in the table, the cookie that *)
(* names it in the browser, and different messages change the two: answers *)
(* may come in another order than their requests, or never, and the server *)
(* may be restarted with another configuration in between.  How a session  *)
(* resolves to an actor in two queries, and what an administrator may do   *)
(* meanwhile, is in module Access.                                         *)
(***************************************************************************)
EXTENDS Integers, Sequences

CONSTANTS
    Browsers,
    Exchanges,   \* requests with their answers, each made at most once
    Handles,     \* people with a password
    Configs,     \* what the server may be started with
    Lifetime,    \* session_lifetime, in seconds
    MaxClock,    \* bound of the clock
    MaxRestarts, \* bound on restarts
    None         \* no cookie, no actor, no override, nobody logged in

\* public_url by its scheme, and the override auth.cookie_secure.
Config == [public_url : {"http", "https"}, cookie_secure : BOOLEAN \cup {None}]

ASSUME ConfigsAreConfigs == Configs \subseteq Config
ASSUME LifetimeIsSeconds == Lifetime \in Nat
ASSUME BoundsAreNaturals == MaxClock \in Nat /\ MaxRestarts \in Nat
ASSUME NoneIsNoValue == None \notin Handles \cup Nat \cup BOOLEAN

VARIABLES
    clock,      \* seconds, for server and browsers alike
    config,     \* what the server runs with
    sessions,   \* the table sessions, in the order of insertion
    jar,        \* [Browsers -> the cookies named wk_session]
    exchange,   \* [Exchanges -> how far it has come]
    logged,     \* sessions of which access_log was told, be it in vain
    restarts,   \* restarts so far
    signedIn,   \* history: [Browsers -> the login that was answered last]
    signedOut   \* history: [Browsers -> schemes by which a logout was answered]

historyVars == <<signedIn, signedOut>>
vars == <<clock, config, sessions, jar, exchange, logged, restarts, historyVars>>

Schemes == {"http", "https"}

\* A login that was answered: its session, and the scheme it was made over.
Login == [sid : Nat, scheme : Schemes]

ASSUME NoneIsNoLogin == None \notin Login

NewExchange == [at |-> "idle", browser |-> None, kind |-> None, scheme |-> None,
                cookie |-> None, actor |-> None, session |-> None, set |-> None,
                fits |-> FALSE, revoked |-> FALSE]

Over == [NewExchange EXCEPT !.at = "done"]

Init ==
    /\ clock = 0
    /\ config \in Configs
    /\ sessions = <<>>
    /\ jar = [b \in Browsers |-> {}]
    /\ exchange = [e \in Exchanges |-> NewExchange]
    /\ logged = {}
    /\ restarts = 0
    /\ signedIn = [b \in Browsers |-> None]
    /\ signedOut = [b \in Browsers |-> {}]

-----------------------------------------------------------------------------
(* Cookies.                                                                *)

\* Mutant of CookieSecure: the override can only add the attribute.
CookieSecureAlways(c) == c.public_url = "https" \/ c.cookie_secure = TRUE

CookieSecure(c) == IF c.cookie_secure = None THEN c.public_url = "https" ELSE c.cookie_secure

BuildSessionCookie(sid, c) ==
    [sid |-> sid, path |-> "/", max_age |-> Lifetime, secure |-> CookieSecure(c)]

\* Mutant of ClearSessionCookie: cleared for the path of the request only.
ClearSessionCookieThere(c) ==
    [sid |-> None, path |-> "/logout", max_age |-> 0, secure |-> CookieSecure(c)]

ClearSessionCookie(c) ==
    [sid |-> None, path |-> "/", max_age |-> 0, secure |-> CookieSecure(c)]

\* A browser keeps one cookie of a name for each path.  Over plain HTTP it takes
\* none that is Secure, and replaces none that is (RFC 6265bis).
Takes(b, scheme, secure) ==
    scheme = "https" \/ (~secure /\ \A c \in jar[b] : ~c.secure)

Stored(b, set) ==
    {c \in jar[b] : c.path # set.path}
        \cup IF set.max_age = 0 THEN {}
             ELSE {[sid |-> set.sid, path |-> set.path, secure |-> set.secure,
                    until |-> clock + set.max_age]}

\* The cookies a browser sends, of which parse_cookie takes one.
ParseCookie(b, scheme) ==
    LET sent == {c \in jar[b] : (c.secure => scheme = "https") /\ clock < c.until}
    IN IF sent = {} THEN None ELSE (CHOOSE c \in sent : TRUE).sid

\* session::lookup.
Lookup(sid) ==
    IF sid # None /\ ~sessions[sid].revoked /\ clock < sessions[sid].expires_at
      THEN sessions[sid].handle ELSE None

-----------------------------------------------------------------------------
(* Exchanges.                                                              *)

Send(e, b, kind, scheme) ==
    /\ exchange[e].at = "idle"
    /\ exchange' = [exchange EXCEPT
         ![e] = [NewExchange EXCEPT !.at = "sent", !.browser = b, !.kind = kind,
                                    !.scheme = scheme, !.cookie = ParseCookie(b, scheme)]]
    /\ signedIn' = IF kind = "logout" THEN [signedIn EXCEPT ![b] = None] ELSE signedIn
    /\ UNCHANGED <<clock, config, sessions, jar, logged, restarts, signedOut>>

\* auth_middleware, for every kind of request.
Authenticate(e) ==
    /\ exchange[e].at = "sent"
    /\ exchange' = [exchange EXCEPT ![e].at = "handling", ![e].actor = Lookup(exchange[e].cookie)]
    /\ UNCHANGED <<clock, config, sessions, jar, logged, restarts, historyVars>>

\* Cookies of the configuration can be used over the scheme.
Fits(scheme) ==
    \/ scheme = "https" \/ config.cookie_secure = FALSE
    \/ config.cookie_secure = None /\ config.public_url = scheme

Answered(e, set) ==
    [exchange[e] EXCEPT !.at = "answered", !.set = set,
                        !.fits = Fits(exchange[e].scheme)]

\* An answer that sets no cookie changes nothing in the browser: reading, saving,
\* or a login that is refused or whose session cannot be stored.
AnswerPlainly(e) ==
    /\ exchange[e].at = "handling" /\ exchange[e].kind # "logout"
    /\ exchange' = [exchange EXCEPT ![e] = Over]
    /\ UNCHANGED <<clock, config, sessions, jar, logged, restarts, historyVars>>

OpenedSession(h) == [handle |-> h, expires_at |-> clock + Lifetime, revoked |-> FALSE]

\* Mutant of OpenSession: the login is answered before it is logged.
OpenSessionUnlogged(e, h) ==
    /\ exchange[e].at = "handling" /\ exchange[e].kind = "login"
    /\ sessions' = Append(sessions, OpenedSession(h))
    /\ exchange' = [exchange EXCEPT
         ![e] = Answered(e, BuildSessionCookie(Len(sessions) + 1, config))]
    /\ UNCHANGED <<clock, config, jar, logged, restarts, historyVars>>

\* The password is right: session::create.
OpenSession(e, h) ==
    /\ exchange[e].at = "handling" /\ exchange[e].kind = "login"
    /\ sessions' = Append(sessions, OpenedSession(h))
    /\ exchange' = [exchange EXCEPT ![e].at = "opened", ![e].session = Len(sessions) + 1]
    /\ UNCHANGED <<clock, config, jar, logged, restarts, historyVars>>

\* The row login_success; an INSERT that fails is a warning in the log.
LogAccess(sid) == logged' = logged \cup {sid}

\* The login is logged and answered.
AnswerLogin(e) ==
    LET sid == exchange[e].session
    IN /\ exchange[e].at = "opened"
       /\ LogAccess(sid)
       /\ exchange' = [exchange EXCEPT ![e] = Answered(e, BuildSessionCookie(sid, config))]
       /\ UNCHANGED <<clock, config, sessions, jar, restarts, historyVars>>

\* The session in the cookie, if any, is revoked; the UPDATE may fail, and the
\* cookie is cleared all the same.
LogOut(e) ==
    LET sid == exchange[e].cookie
    IN /\ exchange[e].at = "handling" /\ exchange[e].kind = "logout"
       /\ \E revoked \in BOOLEAN :
            /\ revoked => sid # None
            /\ sessions' = IF revoked THEN [sessions EXCEPT ![sid].revoked = TRUE] ELSE sessions
            /\ exchange' = [exchange EXCEPT
                 ![e] = [Answered(e, ClearSessionCookie(config)) EXCEPT !.revoked = revoked]]
       /\ UNCHANGED <<clock, config, jar, logged, restarts, historyVars>>

\* The answer reaches the browser.
Deliver(e) ==
    LET x == exchange[e]
        b == x.browser
        login == x.set.sid # None
    IN /\ x.at = "answered"
       /\ exchange' = [exchange EXCEPT
            ![e] = [Over EXCEPT !.cookie = IF x.revoked THEN x.cookie ELSE None,
                                !.revoked = x.revoked]]
       /\ jar' = IF Takes(b, x.scheme, x.set.secure) THEN [jar EXCEPT ![b] = Stored(b, x.set)]
                                                     ELSE jar
       /\ signedIn' = [signedIn EXCEPT ![b] =
            IF login /\ x.fits /\ Takes(b, x.scheme, FALSE)
              THEN [sid |-> x.set.sid, scheme |-> x.scheme] ELSE None]
       /\ signedOut' = [signedOut EXCEPT ![b] =
            IF login THEN {} ELSE IF x.fits THEN @ \cup {x.scheme} ELSE @]
       /\ UNCHANGED <<clock, config, sessions, logged, restarts>>

\* The tab is closed, or the connection breaks: the answer is lost, and a handler
\* that still runs is dropped where it is.
Drop(e) ==
    /\ exchange[e].at \in {"sent", "handling", "opened", "answered"}
    /\ exchange' = [exchange EXCEPT ![e] = Over]
    /\ UNCHANGED <<clock, config, sessions, jar, logged, restarts, historyVars>>

\* The server is restarted: handlers end where they are, sessions stay.
Restart(c) ==
    /\ restarts < MaxRestarts
    /\ restarts' = restarts + 1
    /\ config' = c
    /\ exchange' = [e \in Exchanges |->
         IF exchange[e].at \in {"sent", "handling", "opened"}
           THEN Over ELSE exchange[e]]
    /\ UNCHANGED <<clock, sessions, jar, logged, historyVars>>

Tick ==
    /\ clock < MaxClock
    /\ clock' = clock + 1
    /\ UNCHANGED <<config, sessions, jar, exchange, logged, restarts, historyVars>>

Next ==
    \/ Tick
    \/ \E c \in Configs : Restart(c)
    \/ \E e \in Exchanges :
        \/ \E b \in Browsers, kind \in {"login", "logout", "other"}, scheme \in Schemes :
            Send(e, b, kind, scheme)
        \/ Authenticate(e) \/ AnswerPlainly(e) \/ AnswerLogin(e) \/ LogOut(e)
        \/ \E h \in Handles : OpenSession(e, h)
        \/ Deliver(e) \/ Drop(e)

Spec == Init /\ [][Next]_vars

-----------------------------------------------------------------------------
(* Properties.                                                             *)

\* Once a logout has been answered over a scheme that suits the configuration,
\* the browser sends no session over it until a login is answered: whether or not
\* the session could be revoked, in whatever order answers came, and though its
\* cookie was set under another configuration (clear_session_cookie: or "logout
\* silently fails to log anyone out").  Where the scheme does not suit and the
\* browser keeps its cookie, the session is shut if the UPDATE went through.
LogoutSticks ==
    /\ \A b \in Browsers : \A scheme \in signedOut[b] : ParseCookie(b, scheme) = None
    /\ \A e \in Exchanges : exchange[e].revoked => Lookup(exchange[e].cookie) = None

\* Whoever was answered a login is taken for himself until the session expires,
\* unless he logs out, or the answer to an earlier logout arrives late.  He must
\* reach the server as the configuration says: over the scheme of public_url,
\* or as cookie_secure overrides it ("an HTTPS deployment gets the flag without
\* anyone having to remember it, and a plain-HTTP localhost instance still
\* works", src/config/mod.rs); and over HTTP not with a Secure cookie of earlier
\* days, which keeps browsers from taking the new one.
LoginTakesHold ==
    \A b \in Browsers :
        LET login == signedIn[b]
        IN login # None /\ clock < sessions[login.sid].expires_at =>
            Lookup(ParseCookie(b, login.scheme)) = sessions[login.sid].handle

\* No request is let in by a session of which access_log was not told, wherever
\* its login was cut short (src/tests/end_to_end.rs, "access_log should record the
\* login").
LoginIsLoggedFirst ==
    \A e \in Exchanges : exchange[e].actor # None => exchange[e].cookie \in logged
=============================================================================
