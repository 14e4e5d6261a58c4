------------------------------ MODULE WikiData ------------------------------
(***************************************************************************)
(* The data every module about page writes shares: the requests callers    *)
(* may make, the row `pages` keeps for a page, and the condition a write   *)
(* may put on that row (src/pages/mod.rs).                                 *)
(***************************************************************************)

CONSTANTS
    Writers,      \* calls of pages::write, each made at most once
    Pages,        \* page paths admitted by validate_path
    Contents,     \* page texts
    Revisions,    \* SHA-256 values of page texts
    ContentHash,  \* content_hash, the revision of a text
    Actors,       \* rows of the table actors
    Layers,       \* rows of the table layers
    Requests,     \* the WriteRequests callers may make
    None          \* no file, no row value, no commit

Preconditions ==
    [kind : {"None", "Exists", "Absent"}, rev : {None}]
        \cup [kind : {"Revision"}, rev : Revisions]

\* `signed` is the actor whose type and handle the caller passed beside the
\* id: the HTTP handlers take all three from one row, a library caller need not.
WriteRequests ==
    [page : Pages, layer : Layers, content : Contents,
     actor : Actors, signed : Actors, pre : Preconditions]

ASSUME NoneIsNoValue ==
    None \notin Writers \cup Pages \cup Contents \cup Revisions \cup Actors

\* SHA-256 is taken to be injective: no two texts share a revision.
ASSUME HashIsInjective ==
    /\ ContentHash \in [Contents -> Revisions]
    /\ \A c, d \in Contents : ContentHash[c] = ContentHash[d] => c = d

ASSUME RequestsAreWriteRequests == Requests \subseteq WriteRequests

-----------------------------------------------------------------------------
\* The columns of a row of `pages` that a later write or a reader depends on.
\* A row written by another tool may have no content_hash.
Row == [present : BOOLEAN,
        content_hash : Revisions \cup {None},
        last_edit_by : Actors \cup {None}]

NoRow == [present |-> FALSE, content_hash |-> None, last_edit_by |-> None]

UnrecordedRow == [present |-> TRUE, content_hash |-> None, last_edit_by |-> None]

\* Mutants of Allows: a missing row, or one without a hash, meets any revision.
AllowsMissingRow(pre, row) ==
    \/ pre.kind = "None"
    \/ pre.kind = "Exists" /\ row.present
    \/ pre.kind = "Absent" /\ ~row.present
    \/ pre.kind = "Revision" /\ (row.present => row.content_hash = pre.rev)

AllowsUnrecorded(pre, row) ==
    \/ pre.kind = "None"
    \/ pre.kind = "Exists" /\ row.present
    \/ pre.kind = "Absent" /\ ~row.present
    \/ pre.kind = "Revision" /\ row.present /\ row.content_hash \in {pre.rev, None}

\* Precondition::check, as the set of rows it accepts.
Allows(pre, row) ==
    \/ pre.kind = "None"
    \/ pre.kind = "Exists" /\ row.present
    \/ pre.kind = "Absent" /\ ~row.present
    \/ pre.kind = "Revision" /\ row.present /\ row.content_hash = pre.rev

\* Mutant of Written: the text is stored where its hash belongs.
WrittenText(r) == [present |-> TRUE,
                   content_hash |-> r.content,
                   last_edit_by |-> r.actor]

\* The row a write that goes through leaves behind.
Written(r) == [present |-> TRUE,
               content_hash |-> ContentHash[r.content],
               last_edit_by |-> r.actor]
=============================================================================
