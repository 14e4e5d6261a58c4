----------------------------- MODULE PageHistory -----------------------------
(***************************************************************************)
(* A page's history: pages::history asks Git for the commits that changed  *)
(* the page's file (src/pages/mod.rs, src/git/mod.rs).  The repository's   *)
(* trees map file paths to texts; a page is written to its file under the  *)
(* content root, which may be a directory of the repository, and other     *)
(* files of the repository may be committed beside the pages.              *)
(*                                                                         *)
(* A path is a sequence of segments and a segment the sequence of its      *)
(* dotted parts: the page "notes/v1.2" is <<<<"notes">>, <<"v1", "2">>>>.  *)
(***************************************************************************)
EXTENDS Integers, Sequences, FiniteSets, SequencesExt

CONSTANTS
    Pages,         \* page paths
    Contents,      \* texts
    Prefix,        \* the content root, relative to the repository's root
    OtherFiles,    \* files of the repository that are committed by other means
    Limits,        \* limits a caller may ask for
    MaxCommits,    \* bound on the length of the history
    None           \* no blob at a path, no page

ASSUME CommitBound == MaxCommits \in Nat
ASSUME LimitsAreSizes == Limits \subseteq Nat

\* validate_path refuses an empty path.
ASSUME PathsOfParts ==
    /\ Pages \subseteq Seq(Seq(STRING)) \ {<<>>}
    /\ Prefix \in Seq(Seq(STRING))
    /\ None \notin Pages \cup Contents

VARIABLE commits   \* HEAD's history, oldest first: what was written, and the tree

vars == <<commits>>

-----------------------------------------------------------------------------
\* Mutant of RelativeFilePath: set_extension replaces a dotted last part.
RelativeFilePathReplacing(page) ==
    [i \in DOMAIN page |->
        IF i < Len(page) THEN page[i]
        ELSE IF Len(page[i]) > 1 THEN SubSeq(page[i], 1, Len(page[i]) - 1) \o <<"md">>
        ELSE page[i] \o <<"md">>]

\* relative_file_path appends ".md" to the last segment.
RelativeFilePath(page) ==
    [i \in DOMAIN page |-> IF i < Len(page) THEN page[i] ELSE page[i] \o <<"md">>]

\* write_serialized joins the content root's prefix and the page's file.
RepoPath(page) == Prefix \o RelativeFilePath(page)

\* lookup_path_in_tree in the tree of commit i.
BlobAt(i, file) ==
    IF file \in DOMAIN commits[i].tree THEN commits[i].tree[file] ELSE None

Init == commits = <<[page |-> None, tree |-> <<>>]>>

\* Two files of which one would have to be a directory for the other to exist.
InTheWay(f, file) == IsStrictPrefix(f, file) \/ IsStrictPrefix(file, f)

\* edit_tree_with_blob on the parent's tree, and the commit on top of HEAD.  An
\* upsert turns a blob in its path into a tree, and a tree at its end into a blob.
CommitFile(page, file, text) ==
    LET parent == commits[Len(commits)].tree
        kept == {f \in DOMAIN parent \ {file} : ~InTheWay(f, file)}
    IN /\ Len(commits) < MaxCommits
       /\ commits' = Append(commits,
            [page |-> page,
             tree |-> [f \in kept \cup {file} |-> IF f = file THEN text ELSE parent[f]]])

\* create_dir_all fails where a file is in the way, and fs::write where a
\* directory is, before anything is committed; the working tree holds HEAD.
WritePage(page, text) ==
    LET file == RepoPath(page)
    IN /\ \A f \in DOMAIN commits[Len(commits)].tree : ~InTheWay(f, file)
       /\ CommitFile(page, file, text)

\* Somebody else commits a file to the repository.
CommitOther(file, text) == CommitFile(None, file, text)

Next ==
    \/ \E p \in Pages, c \in Contents : WritePage(p, c)
    \/ \E f \in OtherFiles, c \in Contents : CommitOther(f, c)

Spec == Init /\ [][Next]_vars

-----------------------------------------------------------------------------
\* commit_touched, against the first parent.
Touched(i, file) ==
    BlobAt(i, file) # (IF i = 1 THEN None ELSE BlobAt(i - 1, file))

\* The newest `limit` of a set of commits.
Newest(S, limit) == {i \in S : Cardinality({j \in S : j > i}) < limit}

\* Mutant of FileHistory: the limit is counted over all commits walked.
FileHistoryWalked(file, limit) ==
    {i \in Newest(DOMAIN commits, limit) : Touched(i, file)}

\* file_history walks from HEAD and stops when it has `limit` commits; it
\* looks at the limit after it has taken one.
FileHistory(file, limit) ==
    Newest({i \in DOMAIN commits : Touched(i, file)}, IF limit = 0 THEN 1 ELSE limit)

History(page, limit) == FileHistory(RelativeFilePath(page), limit)

-----------------------------------------------------------------------------
(* Properties.                                                             *)

WritesOf(page) == {i \in DOMAIN commits : commits[i].page = page}

TextOf(i) == commits[i].tree[RepoPath(commits[i].page)]

\* The writes of a page that changed what it says.
ChangesOf(page) ==
    {i \in WritesOf(page) :
        \A j \in WritesOf(page) :
            (j < i /\ \A k \in WritesOf(page) : k < i => k <= j) => TextOf(j) # TextOf(i)}

\* A page's history is the newest of the writes that changed that page, and no
\* commit of another page or file (DESIGN.md and src/git/mod.rs, "List commits
\* that touched `relpath`, newest first").
HistoryIsThePagesChanges ==
    \A p \in Pages, n \in Limits \ {0} : History(p, n) = Newest(ChangesOf(p), n)

\* A write of one page leaves every other page's text at HEAD as it was.  No two
\* page paths share a file (src/pages/mod.rs, relative_file_path); but "a" and
\* "a.md/b" are both valid and need one name as a file and as a directory, where
\* only the order of the steps keeps the upsert from replacing the other page.
PagesAreSeparate ==
    [][ \A p \in Pages :
          commits'[Len(commits')].page \in Pages \ {p} =>
            BlobAt(Len(commits), RepoPath(p)) = BlobAt(Len(commits), RepoPath(p))' ]_vars
=============================================================================
