---------------------------- MODULE ThrottleProofs ----------------------------
(***************************************************************************)
(* What holds of the liveness throttle for any number of requests and      *)
(* actors, any interval, any wait of the UPDATEs and any adjustments of    *)
(* the clock.                                                              *)
(***************************************************************************)
EXTENDS Throttle, TLAPS

-----------------------------------------------------------------------------
(* The inductive invariant.                                                *)

Grant == [key : Keys, at : Seconds]

InFlight == {"granted", "stamped"}

TypeInv ==
    /\ clock \in Seconds
    /\ last \in [Keys -> Seconds \cup {None}]
    /\ pc \in [Callers -> {"idle", "sampled", "granted", "stamped", "done"}]
    /\ key \in [Callers -> Keys]
    /\ now \in [Callers -> Seconds]
    /\ stamp \in [Callers -> Seconds \cup {None}]
    /\ last_seen \in [Keys -> Seconds \cup {None}]
    /\ grants \subseteq Grant
    /\ stale \subseteq Callers
    /\ excused \subseteq Keys

\* What the map says of a key is a grant of the key.
GrantInv == \A k \in Keys : last[k] # None => [key |-> k, at |-> last[k]] \in grants

\* A key whose UPDATE is on its way has been granted.
HasGrant == \A c \in Callers : pc[c] \in InFlight => last[key[c]] # None

\* A request that began since the clock was adjusted has read no second that is
\* still to come, and its UPDATE has not waited for longer than it may.
ClockInv ==
    \A c \in Callers \ stale :
        /\ pc[c] # "idle" => now[c] =< clock
        /\ pc[c] = "stamped" => stamp[c] # None /\ stamp[c] =< clock /\ clock =< stamp[c] + Wait

\* An UPDATE of a key is on its way, and each one that is began since the clock
\* was adjusted.
FreshOnly(k) ==
    /\ \E c \in Callers : key[c] = k /\ pc[c] \in InFlight
    /\ \A c \in Callers : key[c] = k /\ pc[c] \in InFlight => c \notin stale

\* Such a key's last grant is not ahead of the clock.
AheadInv == \A k \in Keys \ excused : FreshOnly(k) => last[k] =< clock

\* A grant whose UPDATE is through, or superseded, left a last_seen_at behind it.
TouchInv ==
    \A k \in Keys \ excused : last[k] # None /\ ~Touching(k) =>
        last_seen[k] # None /\ last[k] =< last_seen[k] + Wait

ThrottleInv ==
    TypeInv /\ GrantInv /\ HasGrant /\ ClockInv /\ AheadInv /\ TouchInv /\ LastSeenIsRecent

-----------------------------------------------------------------------------
(* Initial states and steps.                                               *)

\* The bounds and the missing value are told apart from seconds.
LEMMA Times ==
    /\ Seconds \subseteq Nat /\ None \notin Seconds /\ 0 \in Seconds
    /\ Interval \in Nat /\ Wait \in Nat /\ MaxClock \in Nat
    /\ Lag \in Nat /\ Wait =< Lag /\ (Interval # 0 => Lag = Interval - 1 + Wait)
  <1>1. /\ Seconds \subseteq Nat /\ None \notin Seconds /\ 0 \in Seconds
        /\ Interval \in Nat /\ Wait \in Nat /\ MaxClock \in Nat
    BY ClockBound, NoneIsNoTime, IntervalIsSeconds, WaitIsSeconds DEF Seconds
  <1> QED
    BY <1>1 DEF Lag

\* The invariant holds before the first request.
LEMMA InitThrottle == Init => ThrottleInv
  BY Times DEF Init, ThrottleInv, TypeInv, GrantInv, HasGrant, ClockInv, AheadInv, FreshOnly, TouchInv,
     InFlight, LastSeenIsRecent

\* The clock goes on and leaves every second that was read behind.
LEMMA TickThrottle == ASSUME ThrottleInv, Tick PROVE ThrottleInv'
  <1>1. TypeInv' /\ clock' = clock + 1 /\ clock \in Nat
    BY Times DEF Tick, ThrottleInv, TypeInv, Seconds
  <1>2. GrantInv' /\ HasGrant' /\ TouchInv' /\ LastSeenIsRecent'
    BY DEF Tick, ThrottleInv, GrantInv, HasGrant, TouchInv, Touching, LastSeenIsRecent
  <1>3. ClockInv'
    <2> SUFFICES ASSUME NEW c \in Callers \ stale
                 PROVE  /\ pc[c] # "idle" => now[c] =< clock + 1
                        /\ pc[c] = "stamped" => /\ stamp[c] # None /\ stamp[c] =< clock + 1
                                                /\ clock + 1 =< stamp[c] + Wait
      BY <1>1 DEF Tick, ClockInv
    <2>1. /\ now[c] \in Nat
          /\ stamp[c] # None => stamp[c] \in Nat
      BY Times DEF ThrottleInv, TypeInv
    <2>2. /\ pc[c] # "idle" => now[c] =< clock
          /\ pc[c] = "stamped" => stamp[c] # None /\ stamp[c] =< clock /\ clock < stamp[c] + Wait
      BY DEF ThrottleInv, ClockInv, Tick
    <2> QED
      BY <1>1, <2>1, <2>2, Times
  <1>4. AheadInv'
    <2> SUFFICES ASSUME NEW k \in Keys \ excused, FreshOnly(k)
                 PROVE  last[k] =< clock + 1
      BY <1>1 DEF Tick, AheadInv, FreshOnly
    <2>1. last[k] # None /\ last[k] =< clock
      BY DEF ThrottleInv, AheadInv, HasGrant, FreshOnly
    <2>2. last[k] \in Nat
      BY <2>1, Times DEF ThrottleInv, TypeInv
    <2> QED
      BY <1>1, <2>1, <2>2
  <1> QED
    BY <1>1, <1>2, <1>3, <1>4 DEF ThrottleInv

\* An adjustment of the clock overtakes every request that is on its way.
LEMMA AdjustThrottle == ASSUME ThrottleInv, Adjust PROVE ThrottleInv'
  <1>1. /\ clock' \in Seconds /\ stale' = {c \in Callers : pc[c] # "idle"}
        /\ UNCHANGED <<last, pc, key, now, stamp, last_seen, grants, excused>>
    BY DEF Adjust
  <1>2. TypeInv' /\ GrantInv' /\ HasGrant' /\ TouchInv'
    BY <1>1 DEF ThrottleInv, TypeInv, GrantInv, HasGrant, TouchInv, Touching
  <1>3. ClockInv' /\ AheadInv' /\ LastSeenIsRecent'
    BY <1>1 DEF ClockInv, AheadInv, FreshOnly, InFlight, LastSeenIsRecent
  <1> QED
    BY <1>2, <1>3 DEF ThrottleInv

\* A request reads the clock before it claims its key.
LEMMA SampleThrottle ==
    ASSUME ThrottleInv, NEW c \in Callers, Sample(c)
    PROVE  ThrottleInv'
  <1>1. /\ pc[c] = "idle" /\ pc' = [pc EXCEPT ![c] = "sampled"]
        /\ now' = [now EXCEPT ![c] = clock] /\ clock \in Nat
        /\ UNCHANGED <<clock, last, key, stamp, last_seen, grants, stale, excused>>
    BY Times DEF Sample, ThrottleInv, TypeInv
  <1>2. TypeInv' /\ GrantInv' /\ HasGrant'
    BY <1>1 DEF ThrottleInv, TypeInv, GrantInv, HasGrant, InFlight
  <1>3. ClockInv'
    BY <1>1 DEF ThrottleInv, TypeInv, ClockInv
  <1>4. \A k \in Keys : (FreshOnly(k)' <=> FreshOnly(k)) /\ (Touching(k)' <=> Touching(k))
    BY <1>1 DEF ThrottleInv, TypeInv, FreshOnly, InFlight, Touching
  <1>5. AheadInv' /\ TouchInv'
    BY <1>1, <1>4 DEF ThrottleInv, AheadInv, TouchInv
  <1>6. LastSeenIsRecent'
    BY <1>1, <1>4 DEF ThrottleInv, TypeInv, LastSeenIsRecent
  <1> QED
    BY <1>2, <1>3, <1>5, <1>6 DEF ThrottleInv

\* A request denied in the window of a grant is as late as that grant's UPDATE allows.
LEMMA DeniedThrottle ==
    ASSUME ThrottleInv, NEW c \in Callers, Claim(c), WithinWindow(last[key[c]], now[c])
    PROVE  ThrottleInv'
  <1> DEFINE k == key[c]
  <1>0. k \in Keys /\ now[c] \in Nat
    BY Times DEF ThrottleInv, TypeInv
  <1>1. /\ pc[c] = "sampled" /\ pc' = [pc EXCEPT ![c] = "done"]
        /\ UNCHANGED <<clock, last, key, now, stamp, last_seen, grants, stale, excused>>
    BY DEF Claim
  <1>2. TypeInv' /\ GrantInv' /\ HasGrant' /\ ClockInv'
    BY <1>1 DEF ThrottleInv, TypeInv, GrantInv, HasGrant, InFlight, ClockInv
  <1>3. \A j \in Keys : (FreshOnly(j)' <=> FreshOnly(j)) /\ (Touching(j)' <=> Touching(j))
    BY <1>1 DEF ThrottleInv, TypeInv, FreshOnly, InFlight, Touching
  <1>4. AheadInv' /\ TouchInv'
    BY <1>1, <1>3 DEF ThrottleInv, AheadInv, TouchInv
  <1>5. LastSeenIsRecent'
    <2> SUFFICES ASSUME NEW d \in Callers \ stale, pc'[d] = "done", key[d] \notin excused,
                        ~Touching(key[d])
                 PROVE  last_seen[key[d]] # None /\ now[d] - last_seen[key[d]] =< Lag
      BY <1>1, <1>3 DEF LastSeenIsRecent, ThrottleInv, TypeInv
    <2>1. CASE d = c
      <3>1. last[k] # None /\ now[c] >= last[k] /\ now[c] - last[k] < Interval
        BY DEF WithinWindow
      <3>2. last_seen[k] # None /\ last[k] =< last_seen[k] + Wait
        BY <1>0, <2>1, <3>1 DEF ThrottleInv, TouchInv
      <3>3. last[k] \in Nat /\ last_seen[k] \in Nat
        BY <1>0, <3>1, <3>2, Times DEF ThrottleInv, TypeInv
      <3> QED
        BY <1>0, <2>1, <3>1, <3>2, <3>3, Times
    <2>2. CASE d # c
      BY <1>1, <2>2 DEF ThrottleInv, TypeInv, LastSeenIsRecent
    <2> QED
      BY <2>1, <2>2
  <1> QED
    BY <1>2, <1>4, <1>5 DEF ThrottleInv

\* A granted claim is a grant, and puts its key's UPDATE on its way.
LEMMA GrantedThrottle ==
    ASSUME ThrottleInv, NEW c \in Callers, Claim(c), ~WithinWindow(last[key[c]], now[c])
    PROVE  ThrottleInv'
  <1> DEFINE k == key[c]
  <1>0. k \in Keys /\ now[c] \in Seconds /\ now[c] # None
    BY Times DEF ThrottleInv, TypeInv
  <1>1. /\ pc[c] = "sampled" /\ pc' = [pc EXCEPT ![c] = "granted"]
        /\ last' = [last EXCEPT ![k] = now[c]]
        /\ grants' = grants \cup {[key |-> k, at |-> now[c]]}
        /\ UNCHANGED <<clock, key, now, stamp, last_seen, stale, excused>>
    BY DEF Claim
  <1>2. /\ last'[k] = now[c] /\ \A j \in Keys \ {k} : last'[j] = last[j]
        /\ pc'[c] = "granted" /\ \A d \in Callers \ {c} : pc'[d] = pc[d]
    BY <1>1 DEF ThrottleInv, TypeInv
  <1>3. TypeInv'
    BY <1>0, <1>1 DEF ThrottleInv, TypeInv, Grant
  <1>4. GrantInv' /\ HasGrant'
    BY <1>0, <1>1, <1>2 DEF ThrottleInv, TypeInv, GrantInv, HasGrant, InFlight
  <1>5. ClockInv'
    BY <1>1, <1>2 DEF ThrottleInv, TypeInv, ClockInv
  <1>6. Touching(k)' /\ (FreshOnly(k)' => c \notin stale)
    BY <1>1, <1>2 DEF Touching, FreshOnly, InFlight
  <1>7. \A j \in Keys \ {k} : (FreshOnly(j)' <=> FreshOnly(j)) /\ (Touching(j)' <=> Touching(j))
    BY <1>1, <1>2 DEF FreshOnly, InFlight, Touching
  <1>8. AheadInv'
    <2> SUFFICES ASSUME NEW j \in Keys \ excused, FreshOnly(j)'
                 PROVE  last'[j] =< clock
      BY <1>1 DEF AheadInv
    <2>1. CASE j = k
      BY <1>0, <1>1, <1>2, <1>6, <2>1 DEF ThrottleInv, ClockInv
    <2>2. CASE j # k
      BY <1>2, <1>7, <2>2 DEF ThrottleInv, AheadInv
    <2> QED
      BY <2>1, <2>2
  <1>9. TouchInv'
    BY <1>1, <1>2, <1>6, <1>7 DEF ThrottleInv, TouchInv
  <1>10. LastSeenIsRecent'
    <2> SUFFICES ASSUME NEW d \in Callers \ stale, pc'[d] = "done", key[d] \notin excused,
                        ~Touching(key[d])'
                 PROVE  last_seen[key[d]] # None /\ now[d] - last_seen[key[d]] =< Lag
      BY <1>1 DEF LastSeenIsRecent
    <2>1. key[d] \in Keys /\ key[d] # k /\ pc[d] = "done"
      BY <1>1, <1>2, <1>6 DEF ThrottleInv, TypeInv
    <2> QED
      BY <1>1, <1>7, <2>1 DEF ThrottleInv, LastSeenIsRecent
  <1> QED
    BY <1>3, <1>4, <1>5, <1>8, <1>9, <1>10 DEF ThrottleInv

\* An UPDATE is stamped with the clock as it is.
LEMMA StampThrottle ==
    ASSUME ThrottleInv, NEW c \in Callers, Stamp(c)
    PROVE  ThrottleInv'
  <1>1. /\ pc[c] = "granted" /\ pc' = [pc EXCEPT ![c] = "stamped"]
        /\ stamp' = [stamp EXCEPT ![c] = clock] /\ clock \in Nat /\ clock # None
        /\ UNCHANGED <<clock, last, key, now, last_seen, grants, stale, excused>>
    BY Times DEF Stamp, ThrottleInv, TypeInv
  <1>2. TypeInv' /\ GrantInv' /\ HasGrant'
    BY <1>1 DEF ThrottleInv, TypeInv, GrantInv, HasGrant, InFlight
  <1>3. ClockInv'
    BY <1>1, Times DEF ThrottleInv, TypeInv, ClockInv
  <1>4. \A k \in Keys : (FreshOnly(k)' <=> FreshOnly(k)) /\ (Touching(k)' <=> Touching(k))
    BY <1>1 DEF ThrottleInv, TypeInv, FreshOnly, InFlight, Touching
  <1>5. AheadInv' /\ TouchInv'
    BY <1>1, <1>4 DEF ThrottleInv, AheadInv, TouchInv
  <1>6. LastSeenIsRecent'
    BY <1>1, <1>4 DEF ThrottleInv, TypeInv, LastSeenIsRecent
  <1> QED
    BY <1>2, <1>3, <1>5, <1>6 DEF ThrottleInv

\* The end of a request's UPDATE, which does not concern the other keys.
LEMMA EndOfUpdate ==
    ASSUME ThrottleInv, NEW c \in Callers, pc[c] \in InFlight,
           pc' = [pc EXCEPT ![c] = "done"],
           UNCHANGED <<key, now, stale>>
    PROVE  /\ pc'[c] = "done" /\ \A d \in Callers \ {c} : pc'[d] = pc[d]
           /\ \A j \in Keys : FreshOnly(j)' => \/ FreshOnly(j)
                                               \/ j = key[c] /\ c \in stale
           /\ \A j \in Keys \ {key[c]} : Touching(j)' <=> Touching(j)
           /\ c \notin stale /\ ~Touching(key[c])' => FreshOnly(key[c])
  <1>1. pc'[c] = "done" /\ \A d \in Callers \ {c} : pc'[d] = pc[d]
    BY DEF ThrottleInv, TypeInv
  <1> QED
    BY <1>1 DEF FreshOnly, InFlight, Touching

\* An UPDATE leaves the second it was stamped with, which no request that began
\* since the clock was adjusted is far ahead of.
LEMMA TouchThrottle ==
    ASSUME ThrottleInv, NEW c \in Callers, Touch(c)
    PROVE  ThrottleInv'
  <1> DEFINE k == key[c]
  <1>0. k \in Keys /\ clock \in Nat /\ pc[c] \in InFlight
    BY Times DEF ThrottleInv, TypeInv, Touch, InFlight
  <1>1. /\ pc[c] = "stamped" /\ pc' = [pc EXCEPT ![c] = "done"]
        /\ stamp' = [stamp EXCEPT ![c] = None]
        /\ last_seen' = [last_seen EXCEPT ![k] = stamp[c]]
        /\ UNCHANGED <<clock, last, key, now, grants, stale>>
    BY DEF Touch
  <1>2. /\ c \in stale => excused' = excused \cup {k}
        /\ c \notin stale /\ last[k] =< clock => excused' = excused \ {k}
        /\ c \notin stale /\ ~(last[k] =< clock) => excused' = excused
    BY DEF Touch
  <1>3. \A j \in Keys \ {k} : j \in excused' <=> j \in excused
    BY <1>2
  <1>4. /\ pc'[c] = "done" /\ \A d \in Callers \ {c} : pc'[d] = pc[d]
        /\ last_seen'[k] = stamp[c] /\ \A j \in Keys \ {k} : last_seen'[j] = last_seen[j]
    BY <1>0, <1>1 DEF ThrottleInv, TypeInv
  <1>5. /\ \A j \in Keys : FreshOnly(j)' => FreshOnly(j) \/ (j = k /\ c \in stale)
        /\ \A j \in Keys \ {k} : Touching(j)' <=> Touching(j)
        /\ c \notin stale /\ ~Touching(k)' => FreshOnly(k)
    BY <1>0, <1>1, EndOfUpdate
  <1>6. TypeInv'
    BY <1>0, <1>1, <1>2 DEF ThrottleInv, TypeInv
  <1>7. GrantInv' /\ HasGrant'
    BY <1>1, <1>4 DEF ThrottleInv, GrantInv, HasGrant, InFlight
  <1>8. ClockInv'
    BY <1>1, <1>4 DEF ThrottleInv, TypeInv, ClockInv
  <1>9. k \notin excused' => c \notin stale
    BY <1>2
  <1>10. c \notin stale => stamp[c] \in Nat /\ stamp[c] # None /\ clock =< stamp[c] + Wait
    <2>1. c \notin stale => stamp[c] # None /\ clock =< stamp[c] + Wait
      BY <1>1 DEF ThrottleInv, ClockInv
    <2> QED
      BY <2>1, Times DEF ThrottleInv, TypeInv
  <1>11. AheadInv'
    <2> SUFFICES ASSUME NEW j \in Keys \ excused', FreshOnly(j)'
                 PROVE  last[j] =< clock
      BY <1>1 DEF AheadInv
    <2>1. FreshOnly(j)
      BY <1>5, <1>9
    <2>2. CASE j \notin excused
      BY <2>1, <2>2 DEF ThrottleInv, AheadInv
    <2>3. CASE j \in excused
      BY <1>2, <1>3, <2>3
    <2> QED
      BY <2>2, <2>3
  <1>12. TouchInv'
    <2> SUFFICES ASSUME NEW j \in Keys \ excused', last[j] # None, ~Touching(j)'
                 PROVE  last_seen'[j] # None /\ last[j] =< last_seen'[j] + Wait
      BY <1>1 DEF TouchInv
    <2>1. CASE j # k
      BY <1>3, <1>4, <1>5, <2>1 DEF ThrottleInv, TouchInv
    <2>2. CASE j = k
      <3>1. c \notin stale /\ FreshOnly(k)
        BY <1>1, <1>5, <1>9, <2>2
      <3>2. last[k] =< clock
        BY <1>2, <2>2, <3>1 DEF ThrottleInv, AheadInv
      <3>3. last[k] \in Nat
        BY <2>2, Times DEF ThrottleInv, TypeInv
      <3> QED
        BY <1>0, <1>4, <1>10, <2>2, <3>1, <3>2, <3>3, Times
    <2> QED
      BY <2>1, <2>2
  <1>13. LastSeenIsRecent'
    <2> SUFFICES ASSUME NEW d \in Callers \ stale, pc'[d] = "done", key[d] \notin excused',
                        ~Touching(key[d])'
                 PROVE  last_seen'[key[d]] # None /\ now[d] - last_seen'[key[d]] =< Lag
      BY <1>1 DEF LastSeenIsRecent
    <2>1. CASE key[d] # k
      <3>1. key[d] \in Keys \ {k} /\ d # c /\ pc[d] = "done"
        BY <1>4, <2>1 DEF ThrottleInv, TypeInv
      <3> QED
        BY <1>1, <1>3, <1>4, <1>5, <3>1 DEF ThrottleInv, LastSeenIsRecent
    <2>2. CASE key[d] = k
      <3>1. c \notin stale
        BY <1>9, <2>2
      <3>2. pc[d] # "idle"
        BY <1>1, <1>4
      <3>3. now[d] =< clock /\ now[d] \in Nat
        BY <3>2, Times DEF ThrottleInv, TypeInv, ClockInv
      <3> QED
        BY <1>0, <1>4, <1>10, <2>2, <3>1, <3>3, Times
    <2> QED
      BY <2>1, <2>2
  <1> QED
    BY <1>6, <1>7, <1>8, <1>11, <1>12, <1>13 DEF ThrottleInv

\* A lost UPDATE excuses its key.
LEMMA TouchLostThrottle ==
    ASSUME ThrottleInv, NEW c \in Callers, TouchLost(c)
    PROVE  ThrottleInv'
  <1> DEFINE k == key[c]
  <1>0. k \in Keys /\ pc[c] \in InFlight
    BY DEF ThrottleInv, TypeInv, TouchLost, InFlight
  <1>1. /\ pc' = [pc EXCEPT ![c] = "done"] /\ stamp' = [stamp EXCEPT ![c] = None]
        /\ excused' = excused \cup {k}
        /\ UNCHANGED <<clock, last, key, now, last_seen, grants, stale>>
    BY DEF TouchLost
  <1>2. /\ pc'[c] = "done" /\ \A d \in Callers \ {c} : pc'[d] = pc[d]
        /\ \A j \in Keys : FreshOnly(j)' => FreshOnly(j) \/ (j = k /\ c \in stale)
        /\ \A j \in Keys \ {k} : Touching(j)' <=> Touching(j)
    BY <1>0, <1>1, EndOfUpdate
  <1>3. TypeInv' /\ GrantInv' /\ HasGrant'
    BY <1>0, <1>1, <1>2 DEF ThrottleInv, TypeInv, GrantInv, HasGrant, InFlight
  <1>4. ClockInv'
    BY <1>0, <1>1, <1>2 DEF ThrottleInv, TypeInv, ClockInv, InFlight
  <1>5. AheadInv' /\ TouchInv'
    BY <1>1, <1>2 DEF ThrottleInv, AheadInv, TouchInv
  <1>6. LastSeenIsRecent'
    <2> SUFFICES ASSUME NEW d \in Callers \ stale, pc'[d] = "done", key[d] \notin excused',
                        ~Touching(key[d])'
                 PROVE  last_seen[key[d]] # None /\ now[d] - last_seen[key[d]] =< Lag
      BY <1>1 DEF LastSeenIsRecent
    <2>1. key[d] \in Keys \ {k} /\ d # c /\ pc[d] = "done"
      BY <1>1, <1>2 DEF ThrottleInv, TypeInv
    <2> QED
      BY <1>1, <1>2, <2>1 DEF ThrottleInv, LastSeenIsRecent
  <1> QED
    BY <1>3, <1>4, <1>5, <1>6 DEF ThrottleInv

\* Every step keeps the invariant.
LEMMA NextThrottle == ThrottleInv /\ [Next]_vars => ThrottleInv'
  <1>1. ThrottleInv /\ UNCHANGED vars => ThrottleInv'
    BY DEF vars, ThrottleInv, TypeInv, GrantInv, HasGrant, InFlight, ClockInv, AheadInv, FreshOnly, TouchInv,
       Touching, LastSeenIsRecent
  <1>2. ASSUME ThrottleInv, NEW c \in Callers, Claim(c) PROVE ThrottleInv'
    BY <1>2, DeniedThrottle, GrantedThrottle
  <1> QED
    BY <1>1, <1>2, TickThrottle, AdjustThrottle, SampleThrottle, StampThrottle, TouchThrottle,
       TouchLostThrottle DEF Next

\* The invariant holds for ever.
THEOREM ThrottleInvariance == Spec => []ThrottleInv
  BY InitThrottle, NextThrottle, PTL DEF Spec

\* Once a key's UPDATEs are through, last_seen_at is at most Lag seconds behind each
\* of its requests since the clock was last adjusted, unless the last write was lost
\* or begun before that.
THEOREM LastSeenIsAlwaysRecent == Spec => []LastSeenIsRecent
  BY ThrottleInvariance, PTL DEF ThrottleInv

\* A claim is denied only in the window of a granted one, whatever the clock
\* and the order of the claims.
THEOREM DenialsFollowGrants == Spec => DeniedOnlyAfterGrant
  <1> DEFINE Denial == \A c \in Callers :
               pc[c] = "sampled" /\ pc'[c] = "done" =>
                 \E grant \in grants :
                     /\ grant.key = key[c]
                     /\ now[c] - grant.at \in 0..(Interval - 1)
  <1>1. ThrottleInv /\ [Next]_vars => [Denial]_vars
    <2> SUFFICES ASSUME ThrottleInv, Next, NEW c \in Callers,
                        pc[c] = "sampled", pc'[c] = "done"
                 PROVE  \E grant \in grants :
                            /\ grant.key = key[c]
                            /\ now[c] - grant.at \in 0..(Interval - 1)
      OBVIOUS
    <2>1. Claim(c) /\ WithinWindow(last[key[c]], now[c])
      BY DEF Next, Tick, Adjust, Sample, Claim, Stamp, Touch, TouchLost, ThrottleInv, TypeInv
    <2>2. last[key[c]] # None /\ now[c] >= last[key[c]] /\ now[c] - last[key[c]] < Interval
      BY <2>1 DEF WithinWindow
    <2>3. last[key[c]] \in Nat /\ now[c] \in Nat
      BY <2>2, Times DEF ThrottleInv, TypeInv
    <2>4. [key |-> key[c], at |-> last[key[c]]] \in grants
      BY <2>2 DEF ThrottleInv, TypeInv, GrantInv
    <2> QED
      BY <2>2, <2>3, <2>4, Times
  <1> QED
    BY <1>1, ThrottleInvariance, PTL DEF Spec, DeniedOnlyAfterGrant
=============================================================================
