------------------------------- MODULE Throttle -------------------------------
(***************************************************************************)
(* Coalescing of liveness bookkeeping (src/throttle.rs): each              *)
(* authenticated request reads the clock, claims its actor's key in a map  *)
(* behind a mutex, and writes actors.last_seen_at only when the claim is   *)
(* granted (src/web/mod.rs, auth_middleware).  The clock is read before    *)
(* the mutex is taken, and again after it is released, for the UPDATE that *)
(* then waits for a connection and for SQLite's writer.                    *)
(***************************************************************************)
EXTENDS Integers

CONSTANTS
    Callers,    \* requests, each authenticated once
    Keys,       \* actor ids
    Interval,   \* LIVENESS_INTERVAL_SECS
    Wait,       \* seconds an UPDATE may wait before it fails (pool and busy timeouts)
    MaxClock,   \* bound of the clock, in seconds
    None        \* no entry in the map, no last_seen_at, no UPDATE

ASSUME IntervalIsSeconds == Interval \in Nat
ASSUME WaitIsSeconds == Wait \in Nat
ASSUME ClockBound == MaxClock \in Nat
ASSUME NoneIsNoTime == None \notin Nat

VARIABLES
    clock,      \* wall clock
    last,       \* the map behind the mutex: [Keys -> second of the last grant]
    pc,         \* [Callers -> "idle", "sampled", "granted", "stamped" or "done"]
    key, now,   \* [Callers -> the arguments of their claim]
    stamp,      \* [Callers -> the second that an UPDATE on its way writes]
    last_seen,  \* actors.last_seen_at
    grants,     \* history variable: the granted claims
    stale,      \* history variable: requests that began before the clock was adjusted
    excused     \* history variable: keys whose last write was lost or a stale request's

vars == <<clock, last, pc, key, now, stamp, last_seen, grants, stale, excused>>

Seconds == 0..MaxClock

Init ==
    /\ clock = 0
    /\ last = [k \in Keys |-> None]
    /\ pc = [c \in Callers |-> "idle"]
    /\ key \in [Callers -> Keys]
    /\ now = [c \in Callers |-> 0]
    /\ stamp = [c \in Callers |-> None]
    /\ last_seen = [k \in Keys |-> None]
    /\ grants = {}
    /\ stale = {}
    /\ excused = {}

\* A second goes by; no UPDATE waits for longer than its timeouts.
Tick ==
    /\ clock < MaxClock
    /\ \A c \in Callers \ stale : pc[c] = "stamped" => clock < stamp[c] + Wait
    /\ clock' = clock + 1
    /\ UNCHANGED <<last, pc, key, now, stamp, last_seen, grants, stale, excused>>

\* An NTP correction or a restored snapshot moves the clock, back or forward, under
\* the requests that are on their way.
Adjust ==
    /\ clock' \in Seconds \ {clock}
    /\ stale' = {c \in Callers : pc[c] # "idle"}
    /\ UNCHANGED <<last, pc, key, now, stamp, last_seen, grants, excused>>

\* now_ts() is evaluated as an argument, before claim takes the mutex.
Sample(c) ==
    /\ pc[c] = "idle"
    /\ pc' = [pc EXCEPT ![c] = "sampled"]
    /\ now' = [now EXCEPT ![c] = clock]
    /\ UNCHANGED <<clock, last, key, stamp, last_seen, grants, stale, excused>>

\* Mutant of WithinWindow: a difference alone decides.
WithinWindowUnsigned(prev, t) == prev # None /\ t - prev < Interval

\* The match arm that denies: `now >= prev && now - prev < interval`.
WithinWindow(prev, t) == prev # None /\ t >= prev /\ t - prev < Interval

\* Throttle::claim, one critical section.
Claim(c) ==
    LET k == key[c]
    IN /\ pc[c] = "sampled"
       /\ IF WithinWindow(last[k], now[c])
            THEN /\ pc' = [pc EXCEPT ![c] = "done"]
                 /\ UNCHANGED <<last, grants>>
            ELSE /\ pc' = [pc EXCEPT ![c] = "granted"]
                 /\ last' = [last EXCEPT ![k] = now[c]]
                 /\ grants' = grants \cup {[key |-> k, at |-> now[c]]}
       /\ UNCHANGED <<clock, key, now, stamp, last_seen, stale, excused>>

\* Mutant of Stamp: the UPDATE writes the second its request came in.
StampOfClaim(c) ==
    /\ pc[c] = "granted"
    /\ pc' = [pc EXCEPT ![c] = "stamped"]
    /\ stamp' = [stamp EXCEPT ![c] = now[c]]
    /\ UNCHANGED <<clock, last, key, now, last_seen, grants, stale, excused>>

\* touch_actor_last_seen stamps the time anew when it binds its argument ...
Stamp(c) ==
    /\ pc[c] = "granted"
    /\ pc' = [pc EXCEPT ![c] = "stamped"]
    /\ stamp' = [stamp EXCEPT ![c] = clock]
    /\ UNCHANGED <<clock, last, key, now, last_seen, grants, stale, excused>>

\* ... and the UPDATE takes effect when it has got a connection and the database,
\* in any order of the requests that wait.
Touch(c) ==
    LET k == key[c]
    IN /\ pc[c] = "stamped"
       /\ pc' = [pc EXCEPT ![c] = "done"]
       /\ stamp' = [stamp EXCEPT ![c] = None]
       /\ last_seen' = [last_seen EXCEPT ![k] = stamp[c]]
       /\ excused' = CASE c \in stale -> excused \cup {k}
                       [] c \notin stale /\ last[k] =< clock -> excused \ {k}
                       [] OTHER -> excused
       /\ UNCHANGED <<clock, last, key, now, grants, stale>>

\* The UPDATE fails, which the handler ignores, or the request is dropped first.
TouchLost(c) ==
    /\ pc[c] \in {"granted", "stamped"}
    /\ pc' = [pc EXCEPT ![c] = "done"]
    /\ stamp' = [stamp EXCEPT ![c] = None]
    /\ excused' = excused \cup {key[c]}
    /\ UNCHANGED <<clock, last, key, now, last_seen, grants, stale>>

Next ==
    \/ Tick
    \/ Adjust
    \/ \E c \in Callers : Sample(c) \/ Claim(c) \/ Stamp(c) \/ Touch(c) \/ TouchLost(c)

Spec == Init /\ [][Next]_vars

-----------------------------------------------------------------------------
(* Properties.                                                             *)

\* A claim is denied only in the window of a granted one: a clock set back, or
\* requests that reach the mutex out of order, never shut a key
\* (src/throttle.rs, the comment on `now >= prev`).
DeniedOnlyAfterGrant ==
    [][ \A c \in Callers :
          pc[c] = "sampled" /\ pc'[c] = "done" =>
            \E grant \in grants :
                /\ grant.key = key[c]
                /\ now[c] - grant.at \in 0..(Interval - 1) ]_vars

\* A request whose key was granted, and whose UPDATE is still on its way.
Touching(k) == \E d \in Callers : key[d] = k /\ pc[d] \in {"granted", "stamped"}

\* How far last_seen_at may be behind: the rest of an interval, and the time that
\* the UPDATE waited.
Lag == (IF Interval = 0 THEN 0 ELSE Interval - 1) + Wait

\* Once the UPDATEs of a key are through, last_seen_at is at most Lag seconds behind
\* every request of the key that was served since the clock was last adjusted, in
\* whatever order requests reach the mutex and UPDATEs the database.  A key is
\* excepted while its last write is one that was lost or that an adjustment of the
\* clock overtook.  That ends with the next write that is neither, unless the map then
\* holds a second still to come, from a claim that an adjustment overtook.
LastSeenIsRecent ==
    \A c \in Callers \ stale :
        LET k == key[c]
        IN pc[c] = "done" /\ k \notin excused /\ ~Touching(k)
           => last_seen[k] # None /\ now[c] - last_seen[k] =< Lag
=============================================================================
