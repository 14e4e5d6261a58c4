----------------------------- MODULE MCPageWrite -----------------------------
(***************************************************************************)
(* Instances of PageWrite for TLC: few writers on one or two pages, with   *)
(* every kind of condition and requests that fail each check.              *)
(***************************************************************************)
EXTENDS PageWrite, TLC, FiniteSetsExt

CONSTANTS p1, p2, c0, c1, r0, r1, alice, bob, semantic

MCContents == {c0, c1}
MCRevisions == {r0, r1}
MCContentHash == c0 :> r0 @@ c1 :> r1

Unconditional == [kind |-> "None", rev |-> None]
IfExists == [kind |-> "Exists", rev |-> None]
IfAbsent == [kind |-> "Absent", rev |-> None]
IfMatch(r) == [kind |-> "Revision", rev |-> r]

Put(p, c, a, pre) ==
    [page |-> p, layer |-> semantic, content |-> c, actor |-> a, signed |-> a, pre |-> pre]

Forged == [Put(p1, c0, alice, Unconditional) EXCEPT !.signed = bob]

\* One page: both texts, every condition, and a forged signature.
OnePageRequests ==
    { Put(p1, c, alice, pre) :
        c \in MCContents, pre \in {Unconditional, IfAbsent, IfMatch(r0)} }
    \cup { Put(p1, c1, bob, IfExists), Forged }

\* Two pages, so that calls meet at the lock but not on the page; the other
\* page may be one that another tool wrote.
TwoPageRequests ==
    { Put(p1, c0, alice, IfAbsent), Put(p1, c0, alice, Unconditional),
      Put(p1, c1, bob, IfMatch(r0)),
      Put(p2, c1, alice, IfExists), Put(p2, c0, bob, IfMatch(r1)), Forged }

WriterSymmetry == Permutations(Writers)
=============================================================================
