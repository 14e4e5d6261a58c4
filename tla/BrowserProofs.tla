------------------------------ MODULE BrowserProofs ------------------------------
(***************************************************************************)
(* What holds of logins and logouts for any number of browsers, tabs and   *)
(* people, whatever the configurations, restarts and the order of answers, *)
(* proved with TLAPS.                                                      *)
(***************************************************************************)
EXTENDS Browser, SequenceTheorems, TLAPS

-----------------------------------------------------------------------------
(* The inductive invariants.                                               *)

Session == [handle : Handles, expires_at : Nat, revoked : BOOLEAN]

Cookie == [sid : Nat, path : {"/"}, secure : BOOLEAN, until : Nat]

SetCookie == [sid : Nat \cup {None}, path : {"/"}, max_age : Nat, secure : BOOLEAN]

Exchange ==
    [at : {"idle", "sent", "handling", "opened", "answered", "done"},
     browser : Browsers \cup {None}, kind : {"login", "logout", "other", None},
     scheme : Schemes \cup {None}, cookie : Nat \cup {None}, actor : Handles \cup {None},
     session : Nat \cup {None}, set : SetCookie \cup {None},
     fits : BOOLEAN, revoked : BOOLEAN]

\* Every variable has its type, and no session outlives its lifetime.
TypeInv ==
    /\ clock \in Nat
    /\ config \in Configs
    /\ sessions \in Seq(Session)
    /\ jar \in [Browsers -> SUBSET Cookie]
    /\ exchange \in [Exchanges -> Exchange]
    /\ signedIn \in [Browsers -> Login \cup {None}]
    /\ signedOut \in [Browsers -> SUBSET Schemes]
    /\ \A s \in DOMAIN sessions : sessions[s].expires_at <= clock + Lifetime

\* A request under way is some browser's; it carries a cookie of a session that
\* was logged, and so does the answer of a login; an answer that suits HTTP sets
\* no Secure cookie.
ExchangeOK(e) ==
    LET x == exchange[e]
    IN /\ x.at \in {"sent", "handling", "opened", "answered"} =>
            x.browser \in Browsers /\ x.scheme \in Schemes
       /\ x.cookie # None => x.cookie \in DOMAIN sessions /\ x.cookie \in logged
       /\ x.actor # None => x.cookie # None
       /\ x.revoked => x.cookie # None /\ sessions[x.cookie].revoked
       /\ x.at = "opened" => x.session \in DOMAIN sessions
       /\ x.at = "answered" =>
            /\ x.set \in SetCookie
            /\ x.scheme = "http" /\ x.fits => ~x.set.secure
            /\ x.set.sid # None =>
                /\ x.set.sid \in DOMAIN sessions /\ x.set.sid \in logged
                /\ x.set.max_age = Lifetime
            /\ x.set.sid = None => x.set.max_age = 0

ExchangeInv == \A e \in Exchanges : ExchangeOK(e)

\* A browser has one cookie at most, of a session that was logged.
JarInv ==
    \A b \in Browsers : \A c \in jar[b] :
        /\ c.sid \in DOMAIN sessions /\ c.sid \in logged
        /\ \A d \in jar[b] : d = c

\* After a logout the browser has no cookie that it would send over the scheme.
SignedOutInv ==
    \A b \in Browsers : \A scheme \in signedOut[b], c \in jar[b] :
        (c.secure => scheme = "https") => c.until <= clock

\* The session a login has opened, until its answer arrives.
NewSession(e) ==
    CASE exchange[e].at = "opened" -> exchange[e].session
      [] exchange[e].at = "answered" -> exchange[e].set.sid
      [] OTHER -> None

\* Nobody knows that session but its exchange: no jar has its cookie, no request
\* carries it, and it is not revoked.
FreshOK(e) ==
    LET n == NewSession(e)
    IN n # None =>
        /\ ~sessions[n].revoked
        /\ \A f \in Exchanges : exchange[f].cookie # n
        /\ \A f \in Exchanges \ {e} : NewSession(f) # n
        /\ \A b \in Browsers :
            /\ \A c \in jar[b] : c.sid # n
            /\ signedIn[b] # None => signedIn[b].sid # n

FreshInv == \A e \in Exchanges : FreshOK(e)

\* The cookie of the login that was answered last is the one in the jar, good for
\* as long as its session, in no other browser, and in no logout under way.
SignedInOK(b) ==
    LET login == signedIn[b]
    IN login # None =>
        /\ login.sid \in DOMAIN sessions
        /\ ~sessions[login.sid].revoked
        /\ clock < sessions[login.sid].expires_at => jar[b] # {}
        /\ \A c \in jar[b] :
            /\ c.sid = login.sid
            /\ c.secure => login.scheme = "https"
            /\ sessions[login.sid].expires_at <= c.until
        /\ \A a \in Browsers \ {b} : \A c \in jar[a] : c.sid # login.sid
        /\ \A e \in Exchanges :
            exchange[e].kind = "logout" /\ exchange[e].at \in {"sent", "handling"} =>
                exchange[e].cookie # login.sid

SignedInInv == \A b \in Browsers : SignedInOK(b)

BrowserInv ==
    /\ TypeInv /\ ExchangeInv /\ JarInv /\ SignedOutInv /\ FreshInv /\ SignedInInv

-----------------------------------------------------------------------------
(* Lemmas about the data.                                                  *)

\* An exchange that is new, or over, is an exchange and carries nothing.
LEMMA NewIsExchange ==
    /\ NewExchange \in Exchange /\ NewExchange.at = "idle" /\ NewExchange.cookie = None
    /\ NewExchange.actor = None /\ NewExchange.revoked = FALSE
    /\ Over \in Exchange /\ Over.at = "done" /\ Over.cookie = None
    /\ Over.actor = None /\ Over.revoked = FALSE /\ Over.kind = None
  BY DEF NewExchange, Over, Exchange

\* A cookie that a browser sends is one of its jar, and still good.
LEMMA CookieSent ==
    ASSUME NEW b, NEW scheme, ParseCookie(b, scheme) # None
    PROVE  \E c \in jar[b] :
             /\ ParseCookie(b, scheme) = c.sid
             /\ c.secure => scheme = "https"
             /\ clock < c.until
  BY DEF ParseCookie

\* A cookie that suits HTTP is not Secure.
LEMMA FittingIsPlain ==
    ASSUME TypeInv, Fits("http")
    PROVE  ~CookieSecure(config)
  <1>1. config.public_url \in {"http", "https"} /\ config.cookie_secure \in BOOLEAN \cup {None}
    BY ConfigsAreConfigs DEF TypeInv, Config
  <1>2. None \notin BOOLEAN
    BY NoneIsNoValue
  <1> QED
    BY <1>1, <1>2 DEF Fits, CookieSecure

\* The cookies that answers set are of the type.
LEMMA SetCookies ==
    ASSUME TypeInv, NEW sid \in Nat
    PROVE  /\ CookieSecure(config) \in BOOLEAN
           /\ BuildSessionCookie(sid, config) \in SetCookie
           /\ ClearSessionCookie(config) \in SetCookie
           /\ BuildSessionCookie(sid, config).sid = sid
           /\ BuildSessionCookie(sid, config).max_age = Lifetime
           /\ BuildSessionCookie(sid, config).secure = CookieSecure(config)
           /\ ClearSessionCookie(config).sid = None
           /\ ClearSessionCookie(config).max_age = 0
           /\ ClearSessionCookie(config).secure = CookieSecure(config)
  <1>1. config.public_url \in {"http", "https"} /\ config.cookie_secure \in BOOLEAN \cup {None}
    BY ConfigsAreConfigs DEF TypeInv, Config
  <1>2. CookieSecure(config) \in BOOLEAN
    BY <1>1 DEF CookieSecure
  <1> QED
    BY <1>2, LifetimeIsSeconds DEF BuildSessionCookie, ClearSessionCookie, SetCookie

\* The rows of the table are sessions, numbered from one; None is no number.
LEMMA Rows ==
    ASSUME TypeInv
    PROVE  /\ DOMAIN sessions \subseteq Nat /\ None \notin Nat
           /\ \A s \in DOMAIN sessions : sessions[s] \in Session
  <1>1. DOMAIN sessions = 1..Len(sessions) /\ Len(sessions) \in Nat
    BY LenProperties DEF TypeInv
  <1> QED
    BY <1>1, ElementOfSeq, NoneIsNoValue DEF TypeInv

-----------------------------------------------------------------------------
(* The steps.                                                              *)

\* The initial state keeps the invariants.
LEMMA InitBrowser == Init => BrowserInv
  <1> SUFFICES ASSUME Init PROVE BrowserInv
    OBVIOUS
  <1>1. TypeInv
    BY NewIsExchange DEF Init, TypeInv
  <1>2. \A e \in Exchanges : /\ exchange[e].at = "idle" /\ exchange[e].cookie = None
                             /\ exchange[e].actor = None /\ exchange[e].revoked = FALSE
    BY NewIsExchange DEF Init
  <1>3. ExchangeInv
    BY <1>2 DEF ExchangeInv, ExchangeOK
  <1>4. JarInv /\ SignedOutInv /\ SignedInInv
    BY DEF Init, JarInv, SignedOutInv, SignedInInv, SignedInOK
  <1>5. FreshInv
    BY <1>2 DEF FreshInv, FreshOK, NewSession
  <1> QED
    BY <1>1, <1>3, <1>4, <1>5 DEF BrowserInv

\* A step that leaves cookies and sessions alone: an exchange may end, keep its
\* new session, or carry a cookie of some jar, if no login is at stake.
LEMMA Quiet ==
    ASSUME BrowserInv,
           UNCHANGED <<sessions, jar, signedOut>>,
           config' \in Configs, clock' \in Nat, clock <= clock', logged \subseteq logged',
           signedIn' \in [Browsers -> Login \cup {None}],
           \A b \in Browsers : signedIn'[b] \in {None, signedIn[b]},
           exchange' \in [Exchanges -> Exchange],
           ExchangeInv',
           \A f \in Exchanges :
             /\ NewSession(f)' \in {None, NewSession(f)}
             /\ \/ exchange'[f].cookie \in {None, exchange[f].cookie}
                \/ \E b \in Browsers : \E c \in jar[b] : exchange'[f].cookie = c.sid
             /\ exchange'[f].kind = "logout" /\ exchange'[f].at \in {"sent", "handling"} =>
                  \A b \in Browsers :
                    signedIn'[b] # None => exchange'[f].cookie # signedIn'[b].sid
    PROVE  BrowserInv'
  <1> USE DEF BrowserInv
  <1>1. TypeInv'
    BY Rows, LifetimeIsSeconds DEF TypeInv, Session
  <1>2. JarInv'
    BY DEF JarInv
  <1>3. SignedOutInv'
    <2>1. \A b \in Browsers : \A c \in jar[b] : c.until \in Nat
      BY DEF TypeInv, Cookie
    <2> QED
      BY <2>1 DEF SignedOutInv, TypeInv
  <1>4. FreshInv'
    <2> SUFFICES ASSUME NEW e \in Exchanges, NewSession(e)' # None
                 PROVE  FreshOK(e)'
      BY DEF FreshInv, FreshOK
    <2>1. PICK n : n = NewSession(e)
      OBVIOUS
    <2>2. NewSession(e)' = n /\ n # None
      BY <2>1
    <2>3. /\ ~sessions[n].revoked
          /\ \A f \in Exchanges : exchange[f].cookie # n
          /\ \A f \in Exchanges \ {e} : NewSession(f) # n
          /\ \A b \in Browsers :
              /\ \A c \in jar[b] : c.sid # n
              /\ signedIn[b] # None => signedIn[b].sid # n
      BY <2>1, <2>2 DEF FreshInv, FreshOK
    <2>4. \A f \in Exchanges : exchange'[f].cookie # n
      BY <2>2, <2>3
    <2>5. \A f \in Exchanges \ {e} : NewSession(f)' # n
      BY <2>2, <2>3
    <2> QED
      BY <2>2, <2>3, <2>4, <2>5 DEF FreshOK
  <1>5. SignedInInv'
    <2> SUFFICES ASSUME NEW b \in Browsers, signedIn'[b] # None
                 PROVE  SignedInOK(b)'
      BY DEF SignedInInv, SignedInOK
    <2>1. signedIn'[b] = signedIn[b] /\ SignedInOK(b)
      BY DEF SignedInInv
    <2>2. clock' < sessions[signedIn[b].sid].expires_at
            => clock < sessions[signedIn[b].sid].expires_at
      BY <2>1, Rows DEF SignedInOK, TypeInv, Session
    <2> QED
      BY <2>1, <2>2 DEF SignedInOK
  <1> QED
    BY <1>1, <1>2, <1>3, <1>4, <1>5

\* A request leaves with a cookie of its browser; with a logout, no login counts.
LEMMA SendKeeps ==
    ASSUME BrowserInv, NEW e \in Exchanges, NEW b \in Browsers,
           NEW kind \in {"login", "logout", "other"}, NEW scheme \in Schemes,
           Send(e, b, kind, scheme)
    PROVE  BrowserInv'
  <1>1. PICK cookie : cookie = ParseCookie(b, scheme)
    OBVIOUS
  <1>2. cookie # None => \E c \in jar[b] : cookie = c.sid
    BY <1>1, CookieSent
  <1>3. cookie # None => cookie \in DOMAIN sessions /\ cookie \in logged
    BY <1>2 DEF BrowserInv, JarInv
  <1>4. PICK r : r = [NewExchange EXCEPT !.at = "sent", !.browser = b, !.kind = kind,
                                         !.scheme = scheme, !.cookie = cookie]
    OBVIOUS
  <1>5. exchange' = [exchange EXCEPT ![e] = r]
    BY <1>1, <1>4 DEF Send
  <1>6. /\ r \in Exchange /\ r.at = "sent" /\ r.browser = b /\ r.kind = kind
        /\ r.scheme = scheme /\ r.cookie = cookie /\ r.actor = None /\ r.revoked = FALSE
    BY <1>3, <1>4, NewIsExchange, Rows DEF BrowserInv, Exchange
  <1>7. exchange'[e] = r /\ \A f \in Exchanges \ {e} : exchange'[f] = exchange[f]
    BY <1>5 DEF BrowserInv, TypeInv
  <1>8. UNCHANGED <<clock, config, sessions, jar, logged, restarts, signedOut>>
    BY DEF Send
  <1>9. ExchangeInv'
    BY <1>3, <1>6, <1>7, <1>8 DEF BrowserInv, ExchangeInv, ExchangeOK
  <1>10. /\ signedIn' \in [Browsers -> Login \cup {None}]
         /\ \A a \in Browsers : signedIn'[a] \in {None, signedIn[a]}
         /\ kind = "logout" => signedIn'[b] = None
    BY DEF Send, BrowserInv, TypeInv
  <1>11. \A f \in Exchanges : NewSession(f)' \in {None, NewSession(f)}
    BY <1>6, <1>7 DEF NewSession
  <1>12. ASSUME NEW f \in Exchanges, NEW a \in Browsers, signedIn'[a] # None,
                exchange'[f].kind = "logout", exchange'[f].at \in {"sent", "handling"}
         PROVE  exchange'[f].cookie # signedIn'[a].sid
    <2>1. SignedInOK(a) /\ signedIn'[a] = signedIn[a]
      BY <1>10, <1>12 DEF BrowserInv, SignedInInv
    <2>2. CASE f = e
      <3>1. a # b /\ exchange'[f].cookie = cookie
        BY <1>6, <1>7, <1>10, <1>12, <2>2
      <3>2. signedIn[a].sid # None
        BY <1>12, <2>1, Rows DEF SignedInOK, BrowserInv
      <3> QED
        BY <1>2, <1>12, <2>1, <3>1, <3>2 DEF SignedInOK
    <2>3. CASE f # e
      BY <1>7, <1>12, <2>1, <2>3 DEF SignedInOK
    <2> QED
      BY <2>2, <2>3
  <1>13. exchange' \in [Exchanges -> Exchange]
    BY <1>5, <1>6 DEF BrowserInv, TypeInv
  <1>14. \A f \in Exchanges :
           \/ exchange'[f].cookie \in {None, exchange[f].cookie}
           \/ \E a \in Browsers : \E c \in jar[a] : exchange'[f].cookie = c.sid
    BY <1>2, <1>6, <1>7
  <1>15. config' \in Configs /\ clock' \in Nat /\ clock <= clock'
    BY <1>8 DEF BrowserInv, TypeInv
  <1> QED
    BY <1>8, <1>9, <1>10, <1>11, <1>12, <1>13, <1>14, <1>15, Quiet

\* An exchange that goes on or ends without touching a cookie or a session.
LEMMA GoesOnKeeps ==
    ASSUME BrowserInv, NEW e \in Exchanges, NEW r \in Exchange,
           exchange' = [exchange EXCEPT ![e] = r],
           UNCHANGED <<clock, config, sessions, jar, historyVars>>, logged \subseteq logged',
           ExchangeOK(e)', NewSession(e)' \in {None, NewSession(e)},
           r.cookie \in {None, exchange[e].cookie},
           r.kind = "logout" /\ r.at \in {"sent", "handling"} =>
             exchange[e].kind = "logout" /\ exchange[e].at \in {"sent", "handling"}
    PROVE  BrowserInv'
  <1>1. exchange'[e] = r /\ \A f \in Exchanges \ {e} : exchange'[f] = exchange[f]
    BY DEF BrowserInv, TypeInv
  <1>2. ExchangeInv'
    BY <1>1 DEF BrowserInv, ExchangeInv, ExchangeOK
  <1>3. \A f \in Exchanges : NewSession(f)' \in {None, NewSession(f)}
    BY <1>1 DEF NewSession
  <1>4. ASSUME NEW f \in Exchanges, NEW a \in Browsers, signedIn'[a] # None,
               exchange'[f].kind = "logout", exchange'[f].at \in {"sent", "handling"}
        PROVE  exchange'[f].cookie # signedIn'[a].sid
    <2>1. SignedInOK(a) /\ signedIn'[a] = signedIn[a]
      BY DEF BrowserInv, SignedInInv, historyVars
    <2>2. signedIn[a].sid # None
      BY <1>4, <2>1, Rows DEF SignedInOK, BrowserInv
    <2> QED
      BY <1>1, <1>4, <2>1, <2>2 DEF SignedInOK
  <1>5. exchange' \in [Exchanges -> Exchange]
    BY DEF BrowserInv, TypeInv
  <1>6. \A f \in Exchanges : exchange'[f].cookie \in {None, exchange[f].cookie}
    BY <1>1
  <1>7. /\ config' \in Configs /\ clock' \in Nat /\ clock <= clock'
        /\ signedIn' \in [Browsers -> Login \cup {None}]
        /\ \A b \in Browsers : signedIn'[b] \in {None, signedIn[b]}
        /\ UNCHANGED <<sessions, jar, signedOut>>
    BY DEF BrowserInv, TypeInv, historyVars
  <1> QED
    BY <1>2, <1>3, <1>4, <1>5, <1>6, <1>7, Quiet

\* An exchange that is over carries nothing.
LEMMA OverKeeps ==
    ASSUME BrowserInv, NEW e \in Exchanges, AnswerPlainly(e) \/ Drop(e)
    PROVE  BrowserInv'
  <1>1. /\ exchange' = [exchange EXCEPT ![e] = Over]
        /\ UNCHANGED <<clock, config, sessions, jar, logged, historyVars>>
    BY DEF AnswerPlainly, Drop
  <1>2. exchange'[e] = Over
    BY <1>1 DEF BrowserInv, TypeInv
  <1>3. ExchangeOK(e)' /\ NewSession(e)' = None
    BY <1>2, NewIsExchange DEF ExchangeOK, NewSession
  <1> QED
    BY <1>1, <1>3, NewIsExchange, GoesOnKeeps

\* The middleware lets in the actor of the cookie's session, if there is a cookie.
LEMMA AuthenticateKeeps ==
    ASSUME BrowserInv, NEW e \in Exchanges, Authenticate(e)
    PROVE  BrowserInv'
  <1>1. PICK actor : actor = Lookup(exchange[e].cookie)
    OBVIOUS
  <1>2. PICK r : r = [exchange[e] EXCEPT !.at = "handling", !.actor = actor]
    OBVIOUS
  <1>3. actor \in Handles \cup {None} /\ (actor # None => exchange[e].cookie # None)
    <2>1. exchange[e].cookie # None => exchange[e].cookie \in DOMAIN sessions
      BY DEF BrowserInv, ExchangeInv, ExchangeOK
    <2> QED
      BY <1>1, <2>1, Rows DEF Lookup, BrowserInv, Session
  <1>4. exchange[e] \in Exchange /\ exchange[e].at = "sent"
    BY DEF Authenticate, BrowserInv, TypeInv
  <1>5. /\ r \in Exchange /\ r.at = "handling" /\ r.actor = actor
        /\ r.cookie = exchange[e].cookie /\ r.kind = exchange[e].kind
        /\ r.browser = exchange[e].browser /\ r.scheme = exchange[e].scheme
        /\ r.revoked = exchange[e].revoked
    BY <1>2, <1>3, <1>4 DEF Exchange
  <1>6. /\ exchange' = [exchange EXCEPT ![e] = r]
        /\ UNCHANGED <<clock, config, sessions, jar, logged, historyVars>>
    BY <1>1, <1>2 DEF Authenticate, BrowserInv, TypeInv
  <1>7. exchange'[e] = r
    BY <1>6 DEF BrowserInv, TypeInv
  <1>8. ExchangeOK(e)'
    BY <1>3, <1>4, <1>5, <1>6, <1>7 DEF BrowserInv, ExchangeInv, ExchangeOK
  <1>9. NewSession(e)' = None
    BY <1>5, <1>7 DEF NewSession
  <1> QED
    BY <1>4, <1>5, <1>6, <1>8, <1>9, GoesOnKeeps

\* A login is logged before its answer sets the cookie.
LEMMA AnswerLoginKeeps ==
    ASSUME BrowserInv, NEW e \in Exchanges, AnswerLogin(e)
    PROVE  BrowserInv'
  <1>1. PICK sid : sid = exchange[e].session
    OBVIOUS
  <1>2. /\ exchange[e] \in Exchange /\ exchange[e].at = "opened"
        /\ sid \in DOMAIN sessions /\ sid \in Nat /\ sid # None
    BY <1>1, Rows DEF AnswerLogin, BrowserInv, TypeInv, ExchangeInv, ExchangeOK
  <1>3. PICK set : set = BuildSessionCookie(sid, config)
    OBVIOUS
  <1>4. /\ set \in SetCookie /\ set.sid = sid /\ set.max_age = Lifetime
        /\ set.secure = CookieSecure(config)
    BY <1>2, <1>3, SetCookies DEF BrowserInv
  <1>5. PICK r : r = Answered(e, set)
    OBVIOUS
  <1>6. /\ r \in Exchange /\ r.at = "answered" /\ r.set = set
        /\ r.fits = Fits(exchange[e].scheme) /\ r.scheme = exchange[e].scheme
        /\ r.cookie = exchange[e].cookie /\ r.browser = exchange[e].browser
        /\ r.actor = exchange[e].actor /\ r.revoked = exchange[e].revoked
    <2>1. Fits(exchange[e].scheme) \in BOOLEAN
      BY DEF Fits
    <2> QED
      BY <1>2, <1>4, <1>5, <2>1 DEF Answered, Exchange
  <1>7. /\ exchange' = [exchange EXCEPT ![e] = r] /\ logged' = logged \cup {sid}
        /\ UNCHANGED <<clock, config, sessions, jar, historyVars>>
    BY <1>1, <1>3, <1>5 DEF AnswerLogin, LogAccess
  <1>8. exchange'[e] = r
    BY <1>7 DEF BrowserInv, TypeInv
  <1>9. r.scheme = "http" /\ r.fits => ~set.secure
    BY <1>4, <1>6, FittingIsPlain DEF BrowserInv
  <1>10. ExchangeOK(e)'
    BY <1>2, <1>4, <1>6, <1>7, <1>8, <1>9 DEF BrowserInv, ExchangeInv, ExchangeOK
  <1>11. NewSession(e)' = sid /\ NewSession(e) = sid
    BY <1>1, <1>2, <1>4, <1>6, <1>8 DEF NewSession
  <1> QED
    BY <1>6, <1>7, <1>10, <1>11, GoesOnKeeps

\* A login opens a session that nobody knows yet.
LEMMA OpenSessionKeeps ==
    ASSUME BrowserInv, NEW e \in Exchanges, NEW h \in Handles, OpenSession(e, h)
    PROVE  BrowserInv'
  <1> USE DEF BrowserInv
  <1>1. PICK n : n = Len(sessions) + 1
    OBVIOUS
  <1>2. OpenedSession(h) \in Session /\ OpenedSession(h).expires_at = clock + Lifetime
        /\ ~OpenedSession(h).revoked
    BY LifetimeIsSeconds DEF OpenedSession, Session, TypeInv
  <1>3. /\ sessions' \in Seq(Session)
        /\ DOMAIN sessions' = DOMAIN sessions \cup {n} /\ n \notin DOMAIN sessions
        /\ n \in Nat /\ n # None
        /\ sessions'[n] = OpenedSession(h)
        /\ \A s \in DOMAIN sessions : sessions'[s] = sessions[s]
    <2>1. sessions' = Append(sessions, OpenedSession(h)) /\ sessions \in Seq(Session)
      BY DEF OpenSession, TypeInv
    <2>2. /\ Len(sessions) \in Nat /\ DOMAIN sessions = 1..Len(sessions)
          /\ DOMAIN sessions' = 1..Len(sessions') /\ Len(sessions') = Len(sessions) + 1
      BY <1>2, <2>1, LenProperties, AppendProperties
    <2> QED
      BY <1>1, <1>2, <2>1, <2>2, NoneIsNoValue, AppendProperties
  <1>4. PICK r : r = [exchange[e] EXCEPT !.at = "opened", !.session = n]
    OBVIOUS
  <1>5. exchange[e] \in Exchange /\ exchange[e].at = "handling" /\ exchange[e].kind = "login"
    BY DEF OpenSession, TypeInv
  <1>6. /\ r \in Exchange /\ r.at = "opened" /\ r.session = n
        /\ r.cookie = exchange[e].cookie /\ r.browser = exchange[e].browser
        /\ r.scheme = exchange[e].scheme /\ r.actor = exchange[e].actor
        /\ r.revoked = exchange[e].revoked /\ r.kind = "login"
    BY <1>3, <1>4, <1>5 DEF Exchange
  <1>7. /\ exchange'[e] = r /\ \A f \in Exchanges \ {e} : exchange'[f] = exchange[f]
        /\ exchange' \in [Exchanges -> Exchange]
    BY <1>1, <1>4, <1>6 DEF OpenSession, TypeInv
  <1>8. UNCHANGED <<clock, config, jar, logged, restarts, signedIn, signedOut>>
    BY DEF OpenSession, historyVars
  <1>9. TypeInv'
    BY <1>2, <1>3, <1>7, <1>8, LifetimeIsSeconds DEF TypeInv, Session
  <1>10. ExchangeInv'
    <2>1. ASSUME NEW f \in Exchanges
          PROVE  ExchangeOK(f)'
      <3>1. ExchangeOK(f)
        BY DEF ExchangeInv
      <3>2. CASE f = e
        BY <1>3, <1>5, <1>6, <1>7, <1>8, <3>1, <3>2 DEF ExchangeOK
      <3>3. CASE f # e
        BY <1>3, <1>7, <1>8, <3>1, <3>3 DEF ExchangeOK
      <3> QED
        BY <3>2, <3>3
    <2> QED
      BY <2>1 DEF ExchangeInv
  <1>11. JarInv' /\ SignedOutInv'
    BY <1>3, <1>8 DEF JarInv, SignedOutInv
  <1>12. /\ \A f \in Exchanges : NewSession(f) # None => NewSession(f) \in DOMAIN sessions
         /\ \A f \in Exchanges : exchange'[f].cookie = exchange[f].cookie
         /\ \A f \in Exchanges \ {e} : NewSession(f)' = NewSession(f)
         /\ NewSession(e)' = n
    BY <1>6, <1>7 DEF NewSession, ExchangeInv, ExchangeOK
  <1>13. FreshInv'
    <2>1. FreshOK(e)'
      <3>1. \A f \in Exchanges : exchange[f].cookie # n
        BY <1>3 DEF ExchangeInv, ExchangeOK
      <3>2. \A f \in Exchanges \ {e} : NewSession(f) # n
        BY <1>3, <1>12
      <3>3. \A b \in Browsers : /\ \A c \in jar[b] : c.sid # n
                                /\ signedIn[b] # None => signedIn[b].sid # n
        BY <1>3 DEF JarInv, SignedInInv, SignedInOK
      <3> QED
        BY <1>2, <1>3, <1>8, <1>12, <3>1, <3>2, <3>3 DEF FreshOK
    <2>2. ASSUME NEW f \in Exchanges \ {e}
          PROVE  FreshOK(f)'
      BY <1>3, <1>8, <1>12 DEF FreshInv, FreshOK
    <2> QED
      BY <2>1, <2>2 DEF FreshInv
  <1>14. SignedInInv'
    <2>1. ASSUME NEW b \in Browsers
          PROVE  SignedInOK(b)'
      <3>1. SignedInOK(b)
        BY DEF SignedInInv
      <3>2. signedIn[b] # None => sessions'[signedIn[b].sid] = sessions[signedIn[b].sid]
        BY <1>3, <3>1 DEF SignedInOK
      <3>3. \A f \in Exchanges :
              exchange'[f].kind = "logout" /\ exchange'[f].at \in {"sent", "handling"} =>
                /\ exchange[f].kind = "logout" /\ exchange[f].at \in {"sent", "handling"}
                /\ exchange'[f].cookie = exchange[f].cookie
        BY <1>6, <1>7
      <3> QED
        BY <1>3, <1>8, <3>1, <3>2, <3>3 DEF SignedInOK
    <2> QED
      BY <2>1 DEF SignedInInv
  <1> QED
    BY <1>9, <1>10, <1>11, <1>13, <1>14

\* A logout revokes the session of its cookie, if it can: no new one, and none
\* that a login has just been answered with.
LEMMA LogOutKeeps ==
    ASSUME BrowserInv, NEW e \in Exchanges, LogOut(e)
    PROVE  BrowserInv'
  <1> USE DEF BrowserInv
  <1>1. PICK sid : sid = exchange[e].cookie
    OBVIOUS
  <1>2. PICK set : set = ClearSessionCookie(config)
    OBVIOUS
  <1>3. /\ set \in SetCookie /\ set.sid = None /\ set.max_age = 0
        /\ set.secure = CookieSecure(config)
    <2>1. 0 \in Nat
      OBVIOUS
    <2> QED
      BY <1>2, <2>1, SetCookies
  <1>4. PICK revoked \in BOOLEAN :
          /\ revoked => sid # None
          /\ sessions' = IF revoked THEN [sessions EXCEPT ![sid].revoked = TRUE] ELSE sessions
          /\ exchange' = [exchange EXCEPT ![e] = [Answered(e, set) EXCEPT !.revoked = revoked]]
    BY <1>1, <1>2 DEF LogOut
  <1>5. PICK r : r = [Answered(e, set) EXCEPT !.revoked = revoked]
    OBVIOUS
  <1>6. exchange[e] \in Exchange /\ exchange[e].at = "handling" /\ exchange[e].kind = "logout"
    BY DEF LogOut, TypeInv
  <1>7. /\ r \in Exchange /\ r.at = "answered" /\ r.set = set /\ r.revoked = revoked
        /\ r.fits = Fits(exchange[e].scheme) /\ r.scheme = exchange[e].scheme
        /\ r.cookie = sid /\ r.browser = exchange[e].browser /\ r.actor = exchange[e].actor
    <2>1. Fits(exchange[e].scheme) \in BOOLEAN
      BY DEF Fits
    <2>2. /\ Answered(e, set) \in Exchange /\ Answered(e, set).at = "answered"
          /\ Answered(e, set).set = set /\ Answered(e, set).fits = Fits(exchange[e].scheme)
          /\ Answered(e, set).scheme = exchange[e].scheme
          /\ Answered(e, set).cookie = sid /\ Answered(e, set).browser = exchange[e].browser
          /\ Answered(e, set).actor = exchange[e].actor
      <3>1. Answered(e, set) =
              [exchange[e] EXCEPT !.at = "answered", !.set = set,
                                  !.fits = Fits(exchange[e].scheme)]
        BY DEF Answered
      <3>2. exchange[e] \in Exchange /\ set \in SetCookie \cup {None}
        BY <1>3, <1>6
      <3> QED
        BY <1>1, <2>1, <3>1, <3>2 DEF Exchange
    <2> QED
      BY <1>5, <2>2 DEF Exchange
  <1>8. /\ exchange'[e] = r /\ \A f \in Exchanges \ {e} : exchange'[f] = exchange[f]
        /\ exchange' \in [Exchanges -> Exchange]
    BY <1>4, <1>5, <1>7 DEF TypeInv
  <1>9. UNCHANGED <<clock, config, jar, logged, restarts, signedIn, signedOut>>
    BY DEF LogOut, historyVars
  <1>10. sid # None => sid \in DOMAIN sessions
    BY <1>1 DEF ExchangeInv, ExchangeOK
  <1>11. /\ sessions' \in Seq(Session) /\ DOMAIN sessions' = DOMAIN sessions
         /\ \A s \in DOMAIN sessions :
              /\ sessions'[s] \in Session
              /\ sessions'[s].handle = sessions[s].handle
              /\ sessions'[s].expires_at = sessions[s].expires_at
              /\ sessions[s].revoked => sessions'[s].revoked
              /\ s # sid => sessions'[s] = sessions[s]
         /\ revoked => sessions'[sid].revoked
    <2>1. CASE ~revoked
      BY <1>4, <2>1, Rows DEF TypeInv
    <2>2. CASE revoked
      <3>1. sid \in DOMAIN sessions /\ sessions[sid] \in Session
        BY <1>4, <1>10, <2>2, Rows
      <3>2. PICK row : row = [sessions[sid] EXCEPT !.revoked = TRUE]
        OBVIOUS
      <3>3. /\ row \in Session /\ row.revoked
            /\ row.handle = sessions[sid].handle /\ row.expires_at = sessions[sid].expires_at
        BY <3>1, <3>2 DEF Session
      <3>4. sessions' = [sessions EXCEPT ![sid] = row]
        BY <1>4, <2>2, <3>2
      <3>5. sessions' \in Seq(Session)
        BY <3>1, <3>3, <3>4, ExceptSeq DEF TypeInv
      <3> QED
        BY <3>1, <3>3, <3>4, <3>5, Rows
    <2> QED
      BY <2>1, <2>2
  <1>12. TypeInv'
    BY <1>8, <1>9, <1>11 DEF TypeInv
  <1>13. ExchangeInv'
    <2>1. ASSUME NEW f \in Exchanges
          PROVE  ExchangeOK(f)'
      <3>1. ExchangeOK(f)
        BY DEF ExchangeInv
      <3>2. CASE f = e
        <4>1. r.scheme = "http" /\ r.fits => ~set.secure
          BY <1>3, <1>7, FittingIsPlain
        <4>2. exchange'[f] = r /\ exchange[f].at = "handling"
          BY <1>6, <1>8, <3>2
        <4>3. r.browser \in Browsers /\ r.scheme \in Schemes
          BY <1>7, <3>1, <3>2, <4>2 DEF ExchangeOK
        <4>4. /\ sid # None => sid \in DOMAIN sessions' /\ sid \in logged'
              /\ r.actor # None => sid # None
          BY <1>1, <1>7, <1>9, <1>11, <3>1, <3>2 DEF ExchangeOK
        <4>5. r.revoked => sid # None /\ sessions'[sid].revoked
          BY <1>4, <1>7, <1>11
        <4> QED
          BY <1>3, <1>7, <4>1, <4>2, <4>3, <4>4, <4>5 DEF ExchangeOK
      <3>3. CASE f # e
        BY <1>8, <1>9, <1>11, <3>1, <3>3 DEF ExchangeOK
      <3> QED
        BY <3>2, <3>3
    <2> QED
      BY <2>1 DEF ExchangeInv
  <1>14. JarInv' /\ SignedOutInv'
    BY <1>9, <1>11 DEF JarInv, SignedOutInv
  <1>15. /\ \A f \in Exchanges \ {e} : NewSession(f)' = NewSession(f)
         /\ NewSession(e)' = None
         /\ \A f \in Exchanges : exchange'[f].cookie = exchange[f].cookie
    BY <1>1, <1>3, <1>7, <1>8 DEF NewSession
  <1>16. FreshInv'
    <2> SUFFICES ASSUME NEW f \in Exchanges, NewSession(f)' # None
                 PROVE  FreshOK(f)'
      BY DEF FreshInv, FreshOK
    <2>1. f # e /\ NewSession(f)' = NewSession(f) /\ FreshOK(f)
      BY <1>15 DEF FreshInv
    <2>2. NewSession(f) \in DOMAIN sessions
      BY <2>1 DEF NewSession, ExchangeInv, ExchangeOK
    <2>3. ~sessions'[NewSession(f)].revoked
      BY <1>1, <1>11, <2>1, <2>2 DEF FreshOK
    <2>4. PICK n : n = NewSession(f)
      OBVIOUS
    <2>5. \A g \in Exchanges \ {f} : NewSession(g)' # n
      BY <1>15, <2>1, <2>4 DEF FreshOK
    <2> QED
      BY <1>9, <1>15, <2>1, <2>3, <2>4, <2>5 DEF FreshOK
  <1>17. SignedInInv'
    <2> SUFFICES ASSUME NEW b \in Browsers, signedIn[b] # None
                 PROVE  SignedInOK(b)'
      BY <1>9 DEF SignedInInv, SignedInOK
    <2>1. SignedInOK(b)
      BY DEF SignedInInv
    <2>2. signedIn[b].sid # sid /\ signedIn[b].sid \in DOMAIN sessions
      BY <1>1, <1>6, <2>1 DEF SignedInOK
    <2>3. sessions'[signedIn[b].sid] = sessions[signedIn[b].sid]
      BY <1>11, <2>2
    <2>4. \A f \in Exchanges :
            exchange'[f].kind = "logout" /\ exchange'[f].at \in {"sent", "handling"} =>
              exchange'[f] = exchange[f]
      BY <1>7, <1>8
    <2> QED
      BY <1>9, <1>11, <2>1, <2>2, <2>3, <2>4 DEF SignedInOK
  <1> QED
    BY <1>12, <1>13, <1>14, <1>16, <1>17

\* An answer replaces the one cookie of the jar, removes it, or is not taken.
LEMMA DeliverKeeps ==
    ASSUME BrowserInv, NEW e \in Exchanges, Deliver(e)
    PROVE  BrowserInv'
  <1> USE DEF BrowserInv
  <1>1. PICK x : x = exchange[e]
    OBVIOUS
  <1>2. PICK b : b = x.browser
    OBVIOUS
  <1>3. /\ x \in Exchange /\ x.at = "answered" /\ b \in Browsers /\ x.scheme \in Schemes
        /\ x.set \in SetCookie
        /\ x.scheme = "http" /\ x.fits => ~x.set.secure
        /\ x.set.sid # None =>
             /\ x.set.sid \in DOMAIN sessions /\ x.set.sid \in logged
             /\ x.set.max_age = Lifetime
        /\ x.set.sid = None => x.set.max_age = 0
        /\ NewSession(e) = x.set.sid
    BY <1>1, <1>2 DEF Deliver, TypeInv, ExchangeInv, ExchangeOK, NewSession
  <1>4. PICK r : r = [Over EXCEPT !.cookie = IF x.revoked THEN x.cookie ELSE None,
                                  !.revoked = x.revoked]
    OBVIOUS
  <1>5. /\ r \in Exchange /\ r.at = "done" /\ r.actor = None /\ r.kind = None
        /\ r.cookie = IF x.revoked THEN x.cookie ELSE None
        /\ r.revoked = x.revoked
    BY <1>3, <1>4, NewIsExchange DEF Exchange
  <1>6. /\ exchange'[e] = r /\ \A f \in Exchanges \ {e} : exchange'[f] = exchange[f]
        /\ exchange' \in [Exchanges -> Exchange]
    BY <1>1, <1>4, <1>5 DEF Deliver, TypeInv
  <1>7. UNCHANGED <<clock, config, sessions, logged, restarts>>
    BY DEF Deliver
  <1>8. PICK ck : ck = [sid |-> x.set.sid, path |-> x.set.path, secure |-> x.set.secure,
                        until |-> clock + x.set.max_age]
    OBVIOUS
  <1>9. /\ ck.sid = x.set.sid /\ ck.secure = x.set.secure /\ ck.until = clock + x.set.max_age
        /\ x.set.max_age # 0 => ck \in Cookie /\ ck.sid # None
    BY <1>3, <1>8, Rows, LifetimeIsSeconds DEF SetCookie, Cookie, TypeInv
  <1>10. PICK takes \in BOOLEAN : takes = Takes(b, x.scheme, x.set.secure)
    BY DEF Takes
  <1>11. /\ jar' \in [Browsers -> SUBSET Cookie]
         /\ jar'[b] = IF takes THEN (IF x.set.max_age = 0 THEN {} ELSE {ck}) ELSE jar[b]
         /\ \A a \in Browsers \ {b} : jar'[a] = jar[a]
    <2>1. jar[b] \subseteq Cookie /\ x.set.path = "/"
      BY <1>3 DEF TypeInv, SetCookie
    <2>2. \A c \in jar[b] : c.path = x.set.path
      BY <2>1 DEF Cookie
    <2>3. Stored(b, x.set) = IF x.set.max_age = 0 THEN {} ELSE {ck}
      BY <1>8, <2>2 DEF Stored
    <2>4. Stored(b, x.set) \subseteq Cookie
      BY <1>9, <2>3
    <2>5. jar' = IF takes THEN [jar EXCEPT ![b] = Stored(b, x.set)] ELSE jar
      BY <1>1, <1>2, <1>10 DEF Deliver
    <2> QED
      BY <1>3, <2>3, <2>4, <2>5 DEF TypeInv
  <1>12. \A a \in Browsers : \A c \in jar'[a] :
            c \in jar[a] \/ (a = b /\ c = ck /\ x.set.max_age # 0 /\ takes)
    BY <1>3, <1>11
  <1>13. /\ signedIn'[b] = IF x.set.sid # None /\ x.fits /\ Takes(b, x.scheme, FALSE)
                             THEN [sid |-> x.set.sid, scheme |-> x.scheme] ELSE None
         /\ \A a \in Browsers \ {b} : signedIn'[a] = signedIn[a]
         /\ signedIn' \in [Browsers -> Login \cup {None}]
    <2>1. x.set.sid # None => [sid |-> x.set.sid, scheme |-> x.scheme] \in Login
      BY <1>3, Rows DEF Login
    <2> QED
      BY <1>1, <1>2, <1>3, <2>1 DEF Deliver, TypeInv
  <1>14. /\ signedOut'[b] = IF x.set.sid # None THEN {}
                            ELSE IF x.fits THEN signedOut[b] \cup {x.scheme} ELSE signedOut[b]
         /\ \A a \in Browsers \ {b} : signedOut'[a] = signedOut[a]
         /\ signedOut' \in [Browsers -> SUBSET Schemes]
    BY <1>1, <1>2, <1>3 DEF Deliver, TypeInv
  <1>15. TypeInv'
    BY <1>6, <1>7, <1>11, <1>13, <1>14 DEF TypeInv
  <1>16. ExchangeInv'
    <2>1. ASSUME NEW f \in Exchanges
          PROVE  ExchangeOK(f)'
      <3>1. ExchangeOK(f)
        BY DEF ExchangeInv
      <3> QED
        BY <1>1, <1>5, <1>6, <1>7, <3>1 DEF ExchangeOK
    <2> QED
      BY <2>1 DEF ExchangeInv
  <1>17. JarInv'
    <2>1. x.set.max_age # 0 => ck.sid \in DOMAIN sessions /\ ck.sid \in logged
      BY <1>3, <1>9
    <2>2. ASSUME NEW a \in Browsers, NEW c \in jar'[a]
          PROVE  c.sid \in DOMAIN sessions /\ c.sid \in logged /\ \A d \in jar'[a] : d = c
      BY <1>3, <1>11, <2>1, <2>2 DEF JarInv
    <2> QED
      BY <1>7, <2>2 DEF JarInv
  <1>18. SignedOutInv'
    <2> SUFFICES ASSUME NEW a \in Browsers, NEW scheme \in signedOut'[a], NEW c \in jar'[a],
                        c.secure => scheme = "https"
                 PROVE  c.until <= clock
      BY <1>7 DEF SignedOutInv
    <2>1. CASE a # b
      BY <1>11, <1>14, <2>1 DEF SignedOutInv
    <2>2. CASE a = b
      <3>1. x.set.sid = None /\ x.set.max_age = 0
        BY <1>3, <1>14, <2>2
      <3>2. ~takes /\ c \in jar[b]
        BY <1>11, <2>2, <3>1
      <3>3. scheme \in signedOut[b] => c.until <= clock
        BY <1>3, <3>2 DEF SignedOutInv
      <3>4. scheme \notin signedOut[b] => FALSE
        <4>1. SUFFICES ASSUME scheme = x.scheme, x.fits
                       PROVE  FALSE
          BY <1>14, <2>2, <3>1
        <4>2. x.scheme = "http" /\ ~x.set.secure
          BY <1>3, <1>10, <3>2, <4>1 DEF Takes, Schemes
        <4>3. PICK d \in jar[b] : d.secure
          BY <1>10, <3>2, <4>2 DEF Takes
        <4>4. c = d
          BY <1>3, <3>2, <4>3 DEF JarInv
        <4> QED
          BY <4>1, <4>2, <4>3, <4>4
      <3> QED
        BY <3>3, <3>4
    <2> QED
      BY <2>1, <2>2
  <1>19. /\ NewSession(e)' = None
         /\ \A f \in Exchanges \ {e} : NewSession(f)' = NewSession(f)
         /\ \A f \in Exchanges : exchange'[f].cookie \in {None, exchange[f].cookie}
    BY <1>1, <1>5, <1>6 DEF NewSession
  <1>20. FreshInv'
    <2> SUFFICES ASSUME NEW f \in Exchanges, NewSession(f)' # None
                 PROVE  FreshOK(f)'
      BY DEF FreshInv, FreshOK
    <2>1. PICK n : n = NewSession(f)
      OBVIOUS
    <2>2. f # e /\ NewSession(f)' = n /\ n # None /\ FreshOK(f)
      BY <1>19, <2>1 DEF FreshInv
    <2>3. x.set.sid # n
      BY <1>3, <2>1, <2>2 DEF FreshOK
    <2>4. \A a \in Browsers : /\ \A c \in jar'[a] : c.sid # n
                              /\ signedIn'[a] # None => signedIn'[a].sid # n
      <3>1. ASSUME NEW a \in Browsers, NEW c \in jar'[a]
            PROVE  c.sid # n
        <4>1. CASE c \in jar[a]
          BY <2>1, <2>2, <4>1 DEF FreshOK
        <4>2. CASE c = ck
          BY <1>9, <2>3, <4>2
        <4> QED
          BY <1>12, <4>1, <4>2
      <3>2. ASSUME NEW a \in Browsers, signedIn'[a] # None
            PROVE  signedIn'[a].sid # n
        <4>1. CASE a = b
          <5>1. signedIn'[a] = [sid |-> x.set.sid, scheme |-> x.scheme]
            BY <1>13, <3>2, <4>1
          <5>2. signedIn'[a].sid = x.set.sid
            BY <5>1
          <5> QED
            BY <2>3, <5>2
        <4>2. CASE a # b
          BY <1>13, <2>1, <2>2, <3>2, <4>2 DEF FreshOK
        <4> QED
          BY <4>1, <4>2
      <3> QED
        BY <3>1, <3>2
    <2>5. \A g \in Exchanges : exchange'[g].cookie # n
      BY <1>19, <2>1, <2>2 DEF FreshOK
    <2>6. \A g \in Exchanges \ {f} : NewSession(g)' # n
      BY <1>19, <2>1, <2>2 DEF FreshOK
    <2>7. ~sessions'[n].revoked
      BY <1>7, <2>1, <2>2 DEF FreshOK
    <2> QED
      BY <2>2, <2>4, <2>5, <2>6, <2>7 DEF FreshOK
  <1>21. SignedInInv'
    <2> SUFFICES ASSUME NEW a \in Browsers, signedIn'[a] # None
                 PROVE  SignedInOK(a)'
      BY DEF SignedInInv, SignedInOK
    <2>1. \A f \in Exchanges :
            exchange'[f].kind = "logout" /\ exchange'[f].at \in {"sent", "handling"} =>
              exchange'[f] = exchange[f]
      BY <1>5, <1>6
    <2>2. CASE a = b
      <3>1. PICK n : n = x.set.sid
        OBVIOUS
      <3>2. /\ n # None /\ x.fits /\ Takes(b, x.scheme, FALSE)
            /\ signedIn'[a] = [sid |-> n, scheme |-> x.scheme]
        BY <1>13, <2>2, <3>1
      <3>3. signedIn'[a].sid = n /\ signedIn'[a].scheme = x.scheme
        BY <3>2
      <3>4. /\ ~sessions[n].revoked
            /\ \A f \in Exchanges : exchange[f].cookie # n
            /\ \A d \in Browsers : \A c \in jar[d] : c.sid # n
        BY <1>3, <3>1, <3>2 DEF FreshInv, FreshOK
      <3>5. x.set.secure => x.scheme = "https"
        BY <1>3, <3>2 DEF Schemes
      <3>6. takes
        BY <1>10, <3>2, <3>5 DEF Takes
      <3>7. jar'[a] = IF Lifetime = 0 THEN {} ELSE {ck}
        BY <1>3, <1>11, <2>2, <3>1, <3>2, <3>6
      <3>8. /\ n \in DOMAIN sessions /\ sessions[n].expires_at <= clock + Lifetime
            /\ sessions[n].expires_at \in Nat
        BY <1>3, <3>1, <3>2, Rows DEF TypeInv, Session
      <3>9. clock < sessions[n].expires_at => jar'[a] # {}
        BY <3>7, <3>8, LifetimeIsSeconds DEF TypeInv
      <3>10. \A c \in jar'[a] : /\ c.sid = n
                                /\ c.secure => x.scheme = "https"
                                /\ sessions[n].expires_at <= c.until
        BY <1>3, <1>9, <3>1, <3>2, <3>5, <3>7, <3>8
      <3>11. \A d \in Browsers \ {a} : \A c \in jar'[d] : c.sid # n
        BY <1>11, <2>2, <3>4
      <3> QED
        BY <1>7, <2>1, <3>3, <3>4, <3>8, <3>9, <3>10, <3>11 DEF SignedInOK
    <2>3. CASE a # b
      <3>1. signedIn'[a] = signedIn[a] /\ jar'[a] = jar[a] /\ SignedInOK(a)
        BY <1>11, <1>13, <2>3 DEF SignedInInv
      <3>2. x.set.max_age # 0 => ck.sid # signedIn[a].sid
        <4>1. x.set.max_age # 0 => x.set.sid # None
          BY <1>3
        <4> QED
          BY <1>3, <1>9, <3>1, <4>1 DEF FreshInv, FreshOK
      <3>3. \A d \in Browsers \ {a} : \A c \in jar'[d] : c.sid # signedIn[a].sid
        BY <1>12, <3>1, <3>2 DEF SignedInOK
      <3> QED
        BY <1>7, <2>1, <3>1, <3>3 DEF SignedInOK
    <2> QED
      BY <2>2, <2>3
  <1> QED
    BY <1>15, <1>16, <1>17, <1>18, <1>20, <1>21

\* A restart ends exchanges, another configuration or not.
LEMMA RestartKeeps ==
    ASSUME BrowserInv, NEW c \in Configs, Restart(c)
    PROVE  BrowserInv'
  <1>1. /\ exchange' = [e \in Exchanges |->
             IF exchange[e].at \in {"sent", "handling", "opened"} THEN Over ELSE exchange[e]]
        /\ config' = c
        /\ UNCHANGED <<clock, sessions, jar, logged, signedIn, signedOut>>
    BY DEF Restart, historyVars
  <1>2. /\ exchange' \in [Exchanges -> Exchange]
        /\ \A f \in Exchanges :
             exchange'[f] = Over \/ (exchange'[f] = exchange[f] /\ exchange[f].at # "sent"
                                     /\ exchange[f].at # "handling")
    BY <1>1, NewIsExchange DEF BrowserInv, TypeInv
  <1>3. ExchangeInv'
    <2>1. ASSUME NEW f \in Exchanges
          PROVE  ExchangeOK(f)'
      <3>1. ExchangeOK(f)
        BY DEF BrowserInv, ExchangeInv
      <3>2. CASE exchange'[f] = Over
        BY <3>2, NewIsExchange DEF ExchangeOK
      <3>3. CASE exchange'[f] = exchange[f]
        BY <1>1, <3>1, <3>3 DEF ExchangeOK
      <3> QED
        BY <1>2, <3>2, <3>3
    <2> QED
      BY <2>1 DEF ExchangeInv
  <1>4. \A f \in Exchanges : NewSession(f)' \in {None, NewSession(f)}
    BY <1>2, NewIsExchange DEF NewSession
  <1>5. \A f \in Exchanges :
          /\ exchange'[f].cookie \in {None, exchange[f].cookie}
          /\ exchange'[f].at \notin {"sent", "handling"}
    BY <1>2, NewIsExchange
  <1>6. /\ config' \in Configs /\ clock' \in Nat /\ clock <= clock'
        /\ signedIn' \in [Browsers -> Login \cup {None}]
        /\ \A b \in Browsers : signedIn'[b] \in {None, signedIn[b]}
    BY <1>1 DEF BrowserInv, TypeInv
  <1> QED
    BY <1>1, <1>2, <1>3, <1>4, <1>5, <1>6, Quiet

\* Time passes, or nothing happens.
LEMMA TickKeeps ==
    ASSUME BrowserInv, Tick \/ UNCHANGED vars
    PROVE  BrowserInv'
  <1>1. /\ clock' \in {clock, clock + 1}
        /\ UNCHANGED <<config, sessions, jar, exchange, logged, signedIn, signedOut>>
    BY DEF Tick, vars, historyVars
  <1>2. ExchangeInv'
    BY <1>1 DEF BrowserInv, ExchangeInv, ExchangeOK
  <1>3. \A f \in Exchanges : NewSession(f)' = NewSession(f)
    BY <1>1 DEF NewSession
  <1>4. ASSUME NEW f \in Exchanges, NEW a \in Browsers, signedIn[a] # None,
               exchange[f].kind = "logout", exchange[f].at \in {"sent", "handling"}
        PROVE  exchange[f].cookie # signedIn[a].sid
    BY <1>4 DEF BrowserInv, SignedInInv, SignedInOK
  <1>5. clock' \in Nat /\ clock <= clock' /\ config' \in Configs
    BY <1>1 DEF BrowserInv, TypeInv
  <1>6. /\ signedIn' \in [Browsers -> Login \cup {None}]
        /\ exchange' \in [Exchanges -> Exchange]
    BY <1>1 DEF BrowserInv, TypeInv
  <1> QED
    BY <1>1, <1>2, <1>3, <1>4, <1>5, <1>6, Quiet

-----------------------------------------------------------------------------
(* The theorems.                                                           *)

\* However requests, answers, restarts and tabs interleave, browsers and server
\* keep to what the invariants above say of them.
THEOREM BrowserInvariance == Spec => []BrowserInv
  <1>1. BrowserInv /\ [Next]_vars => BrowserInv'
    BY SendKeeps, OverKeeps, AuthenticateKeeps, AnswerLoginKeeps, OpenSessionKeeps,
       LogOutKeeps, DeliverKeeps, RestartKeeps, TickKeeps DEF Next
  <1> QED
    BY <1>1, InitBrowser, PTL DEF Spec

\* No session lets a request in before access_log was told of its login.
THEOREM LoginIsAlwaysLoggedFirst == Spec => []LoginIsLoggedFirst
  <1>1. BrowserInv => LoginIsLoggedFirst
    BY DEF BrowserInv, ExchangeInv, ExchangeOK, LoginIsLoggedFirst
  <1> QED
    BY <1>1, BrowserInvariance, PTL

\* After a logout the browser sends no session, and a session that a logout
\* revoked lets nobody in.
THEOREM LogoutAlwaysSticks == Spec => []LogoutSticks
  <1>1. ASSUME BrowserInv, NEW b \in Browsers, NEW scheme \in signedOut[b],
               ParseCookie(b, scheme) # None
        PROVE  FALSE
    <2>1. PICK c \in jar[b] : (c.secure => scheme = "https") /\ clock < c.until
      BY <1>1, CookieSent
    <2>2. c.until <= clock
      BY <1>1, <2>1 DEF BrowserInv, SignedOutInv
    <2>3. clock \in Nat /\ c.until \in Nat
      BY <1>1 DEF BrowserInv, TypeInv, Cookie
    <2> QED
      BY <2>1, <2>2, <2>3
  <1>2. BrowserInv => LogoutSticks
    BY <1>1 DEF BrowserInv, ExchangeInv, ExchangeOK, LogoutSticks, Lookup
  <1> QED
    BY <1>2, BrowserInvariance, PTL

\* The browser of whoever was answered a login sends its session, and no other,
\* for as long as the session lasts.
THEOREM LoginAlwaysTakesHold == Spec => []LoginTakesHold
  <1>1. ASSUME BrowserInv, NEW b \in Browsers, signedIn[b] # None,
               clock < sessions[signedIn[b].sid].expires_at
        PROVE  Lookup(ParseCookie(b, signedIn[b].scheme)) = sessions[signedIn[b].sid].handle
    <2>1. PICK sid, scheme : sid = signedIn[b].sid /\ scheme = signedIn[b].scheme
      OBVIOUS
    <2>2. /\ sid \in DOMAIN sessions /\ ~sessions[sid].revoked /\ jar[b] # {}
          /\ \A c \in jar[b] : /\ c.sid = sid /\ (c.secure => scheme = "https")
                               /\ sessions[sid].expires_at <= c.until
      BY <1>1, <2>1 DEF BrowserInv, SignedInInv, SignedInOK
    <2>3. \A c \in jar[b] : clock < c.until
      <3>1. clock \in Nat /\ sessions[sid].expires_at \in Nat
        BY <1>1, <2>2, Rows DEF BrowserInv, TypeInv, Session
      <3>2. \A c \in jar[b] : c.until \in Nat
        BY <1>1 DEF BrowserInv, TypeInv, Cookie
      <3> QED
        BY <1>1, <2>1, <2>2, <3>1, <3>2
    <2>4. ParseCookie(b, scheme) = sid
      <3>1. PICK sent : sent = {c \in jar[b] : (c.secure => scheme = "https") /\ clock < c.until}
        OBVIOUS
      <3>2. sent # {} /\ \A c \in sent : c.sid = sid
        BY <2>2, <2>3, <3>1
      <3>3. (CHOOSE c \in sent : TRUE) \in sent
        BY <3>2
      <3> QED
        BY <3>1, <3>2, <3>3 DEF ParseCookie
    <2>5. sid # None
      BY <1>1, <2>2, Rows DEF BrowserInv
    <2> QED
      BY <1>1, <2>1, <2>2, <2>4, <2>5 DEF Lookup
  <1>2. BrowserInv => LoginTakesHold
    BY <1>1 DEF LoginTakesHold
  <1> QED
    BY <1>2, BrowserInvariance, PTL

=============================================================================
