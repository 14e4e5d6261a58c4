------------------------------ MODULE AtomicWiki ------------------------------
(***************************************************************************)
(* What pages::write promises its callers: the wiki's metadata is one      *)
(* register per page, and a call either changes its page in a single step  *)
(* in which its condition holds, or changes nothing.                       *)
(***************************************************************************)
EXTENDS WikiData

CONSTANT Imported       \* pages whose row another tool wrote

VARIABLES
    register,   \* [Pages -> Row]
    log,        \* the calls that took effect, in order
    call,       \* [Writers -> the request of a call, or None]
    outcome     \* [Writers -> what became of it]

vars == <<register, log, call, outcome>>

LOCAL INSTANCE Sequences

Outcomes == {"pending", "ok", "refused", "failed"}

Init ==
    /\ register = [p \in Pages |-> IF p \in Imported THEN UnrecordedRow ELSE NoRow]
    /\ log = <<>>
    /\ call = [w \in Writers |-> None]
    /\ outcome = [w \in Writers |-> "pending"]

Invoke(w, r) ==
    /\ call[w] = None
    /\ call' = [call EXCEPT ![w] = r]
    /\ UNCHANGED <<register, log, outcome>>

\* The whole effect of a write, in the instant in which its condition holds.
Apply(w) ==
    /\ call[w] # None
    /\ outcome[w] = "pending"
    /\ Allows(call[w].pre, register[call[w].page])
    /\ register' = [register EXCEPT ![call[w].page] = Written(call[w])]
    /\ log' = Append(log, w)
    /\ outcome' = [outcome EXCEPT ![w] = "ok"]
    /\ UNCHANGED call

\* 412: only in an instant in which the condition does not hold.
Refuse(w) ==
    /\ call[w] # None
    /\ outcome[w] = "pending"
    /\ ~Allows(call[w].pre, register[call[w].page])
    /\ outcome' = [outcome EXCEPT ![w] = "refused"]
    /\ UNCHANGED <<register, log, call>>

\* Any other end: invalid, cancelled before it was accepted, storage error, crash.
Abandon(S) ==
    /\ S # {}
    /\ \A w \in S : call[w] # None /\ outcome[w] = "pending"
    /\ outcome' = [w \in Writers |-> IF w \in S THEN "failed" ELSE outcome[w]]
    /\ UNCHANGED <<register, log, call>>

Next ==
    \/ \E w \in Writers :
        \/ \E r \in Requests : Invoke(w, r)
        \/ Apply(w)
        \/ Refuse(w)
    \/ \E S \in SUBSET Writers : Abandon(S)

Spec == Init /\ [][Next]_vars
=============================================================================
