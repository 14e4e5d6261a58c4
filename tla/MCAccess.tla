------------------------------- MODULE MCAccess -------------------------------
(***************************************************************************)
(* Instances of Access for TLC: runs of the command line for one handle,   *)
(* beside requests of every kind.                                          *)
(***************************************************************************)
EXTENDS Access, TLC

CONSTANTS alice, old, new

Bootstrap(password) ==
    [op |-> "bootstrap", handle |-> alice, type |-> "human",
     password |-> password, expires_at |-> None]

Issue(type, expires_at) ==
    [op |-> "issue", handle |-> alice, type |-> type,
     password |-> None, expires_at |-> expires_at]

MCOrders == {Bootstrap(new), Issue("human", 1), Issue("agent", None)}

Symmetry == Permutations(Requests) \cup Permutations(Commands)
=============================================================================
