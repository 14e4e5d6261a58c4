---------------------------- MODULE MCEditSession ----------------------------
(***************************************************************************)
(* Instances of EditSession for TLC: an agent and a browser on one page,   *)
(* beside a writer that replaces the page without a condition.             *)
(***************************************************************************)
EXTENDS EditSession, TLC, FiniteSetsExt

CONSTANTS p1, c0, c1, c2, r0, r1, r2, alice, semantic

MCContents == {c0, c1, c2}
MCRevisions == {r0, r1, r2}
MCContentHash == c0 :> r0 @@ c1 :> r1 @@ c2 :> r2

Put(c, pre) ==
    [page |-> p1, layer |-> semantic, content |-> c, actor |-> alice, signed |-> alice,
     pre |-> pre]

\* Whatever an editor may send: each text under each condition.
MCRequests == { Put(c, pre) : c \in Contents, pre \in Preconditions }

MCBackground == { r \in MCRequests : r.pre.kind = "None" }

Symmetry == Permutations(Writers)
=============================================================================
