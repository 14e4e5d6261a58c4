-------------------------- MODULE PageHistoryProofs --------------------------
(***************************************************************************)
(* No two pages share a file, whatever their names, and a page's history   *)
(* is the list of its changes, for any pages, texts and limits and a       *)
(* history of any length, as long as the content root is the repository's. *)
(***************************************************************************)
EXTENDS PageHistory, SequenceTheorems, TLAPS

-----------------------------------------------------------------------------
(* Page paths and files.                                                   *)

Parts == STRING \cup {"md"}

Paths == Seq(Seq(Parts))

\* Pages and the prefix are among the paths.
LEMMA PagesArePaths ==
    Pages \subseteq Paths \ {<<>>} /\ Prefix \in Paths /\ <<"md">> \in Seq(Parts)
  <1>1. Seq(STRING) \subseteq Seq(Parts)
    BY SeqMonotonic DEF Parts
  <1>2. Seq(Seq(STRING)) \subseteq Paths
    BY <1>1, SeqMonotonic DEF Paths
  <1>3. "md" \in Parts
    BY DEF Parts
  <1> QED
    BY <1>2, <1>3, PathsOfParts

\* The file of a page has as many segments as the page, and they differ in ".md".
LEMMA FileSegments ==
    ASSUME NEW p \in Pages
    PROVE  /\ p \in Paths /\ Len(p) \in Nat \ {0} /\ DOMAIN p = 1 .. Len(p)
           /\ RelativeFilePath(p) \in Paths
           /\ Len(RelativeFilePath(p)) = Len(p)
           /\ \A i \in 1 .. Len(p) : RelativeFilePath(p)[i] =
                IF i < Len(p) THEN p[i] ELSE p[i] \o <<"md">>
  <1>1. p \in Paths /\ p # <<>>
    BY PagesArePaths
  <1>2. Len(p) \in Nat \ {0} /\ DOMAIN p = 1 .. Len(p)
    BY <1>1, EmptySeq, LenProperties DEF Paths
  <1>3. \A i \in 1 .. Len(p) : p[i] \in Seq(Parts)
    BY <1>1 DEF Paths
  <1>4. <<"md">> \in Seq(Parts)
    BY PagesArePaths
  <1>5. \A i \in 1 .. Len(p) : (IF i < Len(p) THEN p[i] ELSE p[i] \o <<"md">>) \in Seq(Parts)
    BY <1>3, <1>4, ConcatProperties
  <1>6. RelativeFilePath(p) = [i \in 1 .. Len(p) |-> IF i < Len(p) THEN p[i] ELSE p[i] \o <<"md">>]
    BY <1>2 DEF RelativeFilePath
  <1>7. RelativeFilePath(p) \in [1 .. Len(p) -> Seq(Parts)]
    BY <1>5, <1>6
  <1>8. RelativeFilePath(p) \in Paths /\ Len(RelativeFilePath(p)) = Len(p)
    BY <1>2, <1>7 DEF Paths
  <1> QED
    BY <1>1, <1>2, <1>6, <1>8

\* relative_file_path keeps path and file bijective for every path, dots or not.
THEOREM FilesAreDistinct ==
    \A p, q \in Pages : RepoPath(p) = RepoPath(q) => p = q
  <1> SUFFICES ASSUME NEW p \in Pages, NEW q \in Pages, RepoPath(p) = RepoPath(q)
               PROVE  p = q
    OBVIOUS
  <1>1. RelativeFilePath(p) \in Paths /\ RelativeFilePath(q) \in Paths /\ Prefix \in Paths
    BY FileSegments, PagesArePaths
  <1>2. RelativeFilePath(p) = RelativeFilePath(q)
    BY <1>1, ConcatSimplifications DEF RepoPath, Paths
  <1>3. Len(p) = Len(q) /\ Len(p) \in Nat /\ p \in Paths /\ q \in Paths
    BY <1>2, FileSegments
  <1>4. \A i \in 1 .. Len(p) : p[i] = q[i]
    <2> SUFFICES ASSUME NEW i \in 1 .. Len(p) PROVE p[i] = q[i]
      OBVIOUS
    <2>1. p[i] \in Seq(Parts) /\ q[i] \in Seq(Parts)
      BY <1>3 DEF Paths
    <2>2. CASE i < Len(p)
      BY <1>2, <1>3, <2>2, FileSegments
    <2>3. CASE ~(i < Len(p))
      <3>1. p[i] \o <<"md">> = q[i] \o <<"md">>
        BY <1>2, <1>3, <2>3, FileSegments
      <3>2. <<"md">> \in Seq(Parts)
        BY PagesArePaths
      <3> QED
        BY <2>1, <3>1, <3>2, ConcatSimplifications
    <2> QED
      BY <2>2, <2>3
  <1> QED
    BY <1>3, <1>4, SeqEqual DEF Paths

-----------------------------------------------------------------------------
(* The inductive invariant.                                                *)

FilesOfRepo == {RepoPath(p) : p \in Pages} \cup OtherFiles

Trees == UNION {[D -> Contents] : D \in SUBSET FilesOfRepo}

TypeOK ==
    /\ commits \in Seq([page : Pages \cup {None}, tree : Trees])
    /\ commits # <<>>

\* HEAD's history begins with an empty tree.
BeginsEmpty == commits[1].page = None /\ DOMAIN commits[1].tree = {}

\* A write is a commit of the page's file.
WritesTheFile ==
    \A i \in DOMAIN commits :
        commits[i].page \in Pages => RepoPath(commits[i].page) \in DOMAIN commits[i].tree

\* Of all commits only the writes of a page touch its file.
OthersLeaveIt ==
    \A i \in DOMAIN commits, p \in Pages :
        i > 1 /\ commits[i].page # p => BlobAt(i, RepoPath(p)) = BlobAt(i - 1, RepoPath(p))

WritesUpTo(k, p) == {i \in WritesOf(p) : i <= k}

\* At every commit the page's file says what the last write so far said.
SaysTheLastWrite ==
    \A k \in DOMAIN commits, p \in Pages :
        \/ WritesUpTo(k, p) = {} /\ BlobAt(k, RepoPath(p)) = None
        \/ \E i \in WritesUpTo(k, p) :
              /\ \A j \in WritesUpTo(k, p) : j <= i
              /\ BlobAt(k, RepoPath(p)) = TextOf(i)

HistoryInv == TypeOK /\ BeginsEmpty /\ WritesTheFile /\ OthersLeaveIt /\ SaysTheLastWrite

\* The files committed by other means are no page's file and in no page's way.
OthersApart ==
    \A f \in OtherFiles, p \in Pages : f # RepoPath(p) /\ ~InTheWay(RepoPath(p), f)

-----------------------------------------------------------------------------
(* A commit.                                                               *)

\* What edit_tree_with_blob and the commit do to the history and to the tree.
LEMMA CommitAppends ==
    ASSUME TypeOK, NEW page \in Pages \cup {None}, NEW file \in FilesOfRepo,
           NEW text \in Contents, CommitFile(page, file, text), NEW n, n = Len(commits)
    PROVE  /\ n \in Nat \ {0} /\ DOMAIN commits = 1 .. n /\ DOMAIN commits' = 1 .. n + 1
           /\ Len(commits') = n + 1
           /\ \A i \in 1 .. n : commits'[i] = commits[i]
           /\ commits'[n + 1].page = page
           /\ file \in DOMAIN commits'[n + 1].tree /\ commits'[n + 1].tree[file] = text
           /\ \A f : f # file /\ (f \in DOMAIN commits[n].tree => ~InTheWay(f, file)) =>
                BlobAt(n + 1, f)' = BlobAt(n, f)
           /\ TypeOK'
  <1> DEFINE S == [page : Pages \cup {None}, tree : Trees]
             parent == commits[n].tree
             kept == {f \in DOMAIN parent \ {file} : ~InTheWay(f, file)}
             tree == [f \in kept \cup {file} |-> IF f = file THEN text ELSE parent[f]]
             c == [page |-> page, tree |-> tree]
  <1>1. n \in Nat \ {0} /\ DOMAIN commits = 1 .. n
    BY EmptySeq, LenProperties DEF TypeOK
  <1>2. commits' = Append(commits, c)
    BY DEF CommitFile
  <1>3. commits[n] \in S
    <2>1. commits \in Seq(S) /\ n \in 1 .. Len(commits)
      BY <1>1 DEF TypeOK
    <2> HIDE DEF S
    <2> QED
      BY <2>1
  <1>4. PICK D \in SUBSET FilesOfRepo : parent \in [D -> Contents]
    BY <1>3 DEF Trees
  <1>5. tree \in [kept \cup {file} -> Contents] /\ kept \cup {file} \in SUBSET FilesOfRepo
    BY <1>4
  <1>6. tree \in Trees
    BY <1>5 DEF Trees
  <1>7. c \in S
    BY <1>6
  <1>8. DOMAIN tree = kept \cup {file} /\ tree[file] = text /\ \A f \in kept : tree[f] = parent[f]
    OBVIOUS
  <1> HIDE DEF S, tree, c
  <1>9. /\ commits' \in Seq(S) /\ Len(commits') = n + 1 /\ commits'[n + 1] = c
        /\ \A i \in 1 .. n : commits'[i] = commits[i]
    BY <1>1, <1>2, <1>7 DEF TypeOK, S
  <1>10. DOMAIN commits' = 1 .. n + 1 /\ commits' # <<>>
    BY <1>1, <1>9, LenProperties, EmptySeq
  <1>11. TypeOK'
    BY <1>9, <1>10 DEF TypeOK, S
  <1>12. c.page = page /\ c.tree = tree
    BY DEF c
  <1>13. ASSUME NEW f, f # file, f \in DOMAIN parent => ~InTheWay(f, file)
         PROVE  BlobAt(n + 1, f)' = BlobAt(n, f)
    <2>1. f \in DOMAIN tree <=> f \in DOMAIN parent
      BY <1>8, <1>13
    <2>2. f \in DOMAIN tree => tree[f] = parent[f]
      BY <1>8, <1>13
    <2> QED
      BY <1>9, <1>12, <2>1, <2>2 DEF BlobAt
  <1> QED
    BY <1>1, <1>8, <1>9, <1>10, <1>11, <1>12, <1>13

\* A commit that leaves the files of the pages it is not about alone, made of
\* that page's own file when it is a write of one, keeps the invariant.
LEMMA CommitKeeps ==
    ASSUME HistoryInv, NEW page \in Pages \cup {None}, NEW file \in FilesOfRepo,
           NEW text \in Contents, CommitFile(page, file, text),
           page \in Pages => file = RepoPath(page),
           \A p \in Pages \ {page} :
              /\ RepoPath(p) # file
              /\ RepoPath(p) \in DOMAIN commits[Len(commits)].tree => ~InTheWay(RepoPath(p), file)
    PROVE  HistoryInv'
  <1>1. PICK n : n = Len(commits)
    OBVIOUS
  <1>2. TypeOK
    BY DEF HistoryInv
  <1>3. /\ n \in Nat \ {0} /\ DOMAIN commits = 1 .. n /\ DOMAIN commits' = 1 .. n + 1
        /\ \A i \in 1 .. n : commits'[i] = commits[i]
        /\ commits'[n + 1].page = page
        /\ file \in DOMAIN commits'[n + 1].tree /\ commits'[n + 1].tree[file] = text
        /\ TypeOK'
    BY <1>1, <1>2, CommitAppends
  <1>4. \A p \in Pages \ {page} : BlobAt(n + 1, RepoPath(p))' = BlobAt(n, RepoPath(p))
    BY <1>1, <1>2, CommitAppends
  <1>5. /\ \A i \in 1 .. n : \A f : BlobAt(i, f)' = BlobAt(i, f)
        /\ \A i \in 1 .. n : TextOf(i)' = TextOf(i)
    BY <1>3 DEF BlobAt, TextOf
  <1>6. /\ \A p \in Pages \ {page} : WritesOf(p)' = WritesOf(p)
        /\ page \in Pages => WritesOf(page)' = WritesOf(page) \cup {n + 1}
        /\ \A p \in Pages : WritesOf(p) \subseteq 1 .. n
    BY <1>3 DEF WritesOf
  <1>7. BeginsEmpty'
    BY <1>3 DEF HistoryInv, BeginsEmpty
  <1>8. WritesTheFile'
    <2> SUFFICES ASSUME NEW i \in 1 .. n + 1, commits'[i].page \in Pages
                 PROVE  RepoPath(commits'[i].page) \in DOMAIN commits'[i].tree
      BY <1>3 DEF WritesTheFile
    <2>1. CASE i = n + 1
      BY <1>3, <2>1
    <2>2. CASE i \in 1 .. n
      BY <1>3, <2>2 DEF HistoryInv, WritesTheFile
    <2> QED
      BY <1>3, <2>1, <2>2
  <1>9. OthersLeaveIt'
    <2> SUFFICES ASSUME NEW i \in 1 .. n + 1, NEW p \in Pages, i > 1, commits'[i].page # p
                 PROVE  BlobAt(i, RepoPath(p))' = BlobAt(i - 1, RepoPath(p))'
      BY <1>3 DEF OthersLeaveIt
    <2>1. CASE i = n + 1
      <3>1. BlobAt(n + 1, RepoPath(p))' = BlobAt(n, RepoPath(p))
        BY <1>3, <1>4, <2>1
      <3>2. BlobAt(n, RepoPath(p))' = BlobAt(n, RepoPath(p))
        BY <1>3, <1>5
      <3>3. i - 1 = n
        BY <1>3, <2>1
      <3> QED
        BY <2>1, <3>1, <3>2, <3>3
    <2>2. CASE i \in 1 .. n
      <3>1. BlobAt(i, RepoPath(p)) = BlobAt(i - 1, RepoPath(p))
        BY <1>3, <2>2 DEF HistoryInv, OthersLeaveIt
      <3>2. i - 1 \in 1 .. n
        BY <1>3, <2>2
      <3> QED
        BY <1>5, <2>2, <3>1, <3>2
    <2> QED
      BY <1>3, <2>1, <2>2
  <1>10. SaysTheLastWrite'
    <2> SUFFICES ASSUME NEW k \in 1 .. n + 1, NEW p \in Pages
                 PROVE  \/ WritesUpTo(k, p)' = {} /\ BlobAt(k, RepoPath(p))' = None
                        \/ \E i \in WritesUpTo(k, p)' :
                              /\ \A j \in WritesUpTo(k, p)' : j <= i
                              /\ BlobAt(k, RepoPath(p))' = TextOf(i)'
      BY <1>3 DEF SaysTheLastWrite
    <2>1. CASE k \in 1 .. n
      <3>1. WritesUpTo(k, p)' = WritesUpTo(k, p) /\ WritesUpTo(k, p) \subseteq 1 .. n
        BY <1>3, <1>6, <2>1 DEF WritesUpTo
      <3>2. BlobAt(k, RepoPath(p))' = BlobAt(k, RepoPath(p))
        BY <1>5, <2>1
      <3>3. \/ WritesUpTo(k, p) = {} /\ BlobAt(k, RepoPath(p)) = None
            \/ \E i \in WritesUpTo(k, p) :
                  (\A j \in WritesUpTo(k, p) : j <= i) /\ BlobAt(k, RepoPath(p)) = TextOf(i)
        BY <1>3, <2>1 DEF HistoryInv, SaysTheLastWrite
      <3> QED
        BY <1>5, <3>1, <3>2, <3>3
    <2>2. CASE k = n + 1 /\ p = page
      <3>1. n + 1 \in WritesUpTo(k, p)' /\ \A j \in WritesUpTo(k, p)' : j <= n + 1
        BY <1>3, <1>6, <2>2 DEF WritesUpTo
      <3>2. BlobAt(k, RepoPath(p))' = TextOf(n + 1)'
        BY <1>3, <2>2 DEF BlobAt, TextOf
      <3> QED
        BY <3>1, <3>2
    <2>3. CASE k = n + 1 /\ p # page
      <3>1. WritesUpTo(k, p)' = WritesUpTo(n, p) /\ WritesUpTo(n, p) \subseteq 1 .. n
        BY <1>3, <1>6, <2>3 DEF WritesUpTo
      <3>2. BlobAt(k, RepoPath(p))' = BlobAt(n, RepoPath(p))
        BY <1>4, <2>3
      <3> QED
        BY <1>3, <1>5, <3>1, <3>2 DEF HistoryInv, SaysTheLastWrite
    <2> QED
      BY <1>3, <2>1, <2>2, <2>3
  <1> QED
    BY <1>3, <1>7, <1>8, <1>9, <1>10 DEF HistoryInv

\* A write of a page is such a commit: nothing is in its way.
LEMMA WriteKeeps ==
    ASSUME HistoryInv, NEW q \in Pages, NEW text \in Contents, WritePage(q, text)
    PROVE  HistoryInv'
  <1>1. CommitFile(q, RepoPath(q), text) /\ RepoPath(q) \in FilesOfRepo
    BY DEF WritePage, FilesOfRepo
  <1>2. \A p \in Pages \ {q} :
           /\ RepoPath(p) # RepoPath(q)
           /\ RepoPath(p) \in DOMAIN commits[Len(commits)].tree => ~InTheWay(RepoPath(p), RepoPath(q))
    BY FilesAreDistinct DEF WritePage
  <1> QED
    BY <1>1, <1>2, CommitKeeps

\* So is a commit of a file that is apart from the pages.
LEMMA OtherKeeps ==
    ASSUME HistoryInv, OthersApart, NEW f \in OtherFiles, NEW text \in Contents,
           CommitOther(f, text)
    PROVE  HistoryInv'
  <1>1. CommitFile(None, f, text) /\ f \in FilesOfRepo
    BY DEF CommitOther, FilesOfRepo
  <1>2. \A p \in Pages : RepoPath(p) # f /\ ~InTheWay(RepoPath(p), f)
    BY DEF OthersApart
  <1> QED
    BY <1>1, <1>2, CommitKeeps, PathsOfParts

\* The empty tree of the first commit.
LEMMA InitHistory == Init => HistoryInv
  <1> SUFFICES ASSUME Init PROVE HistoryInv
    OBVIOUS
  <1>1. commits = <<[page |-> None, tree |-> <<>>]>>
    BY DEF Init
  <1>2. DOMAIN commits = {1} /\ commits[1].page = None /\ commits[1].tree = <<>> /\ commits # <<>>
    BY <1>1
  <1>3. DOMAIN commits[1].tree = {}
    BY <1>2
  <1>4. commits[1].tree \in Trees
    <2>1. <<>> \in [{} -> Contents]
      OBVIOUS
    <2> QED
      BY <1>2, <2>1 DEF Trees
  <1>5. TypeOK
    BY <1>1, <1>2, <1>4 DEF TypeOK
  <1>6. \A p \in Pages : WritesOf(p) = {} /\ BlobAt(1, RepoPath(p)) = None
    BY <1>2, <1>3, PathsOfParts DEF WritesOf, BlobAt
  <1> QED
    BY <1>2, <1>3, <1>5, <1>6, PathsOfParts
    DEF HistoryInv, BeginsEmpty, WritesTheFile, OthersLeaveIt, SaysTheLastWrite, WritesUpTo

\* The invariant holds of every history.
LEMMA HistoryInvariance == ASSUME OthersApart PROVE Spec => []HistoryInv
  <1>2. HistoryInv /\ [Next]_vars => HistoryInv'
    <2> SUFFICES ASSUME HistoryInv, [Next]_vars PROVE HistoryInv'
      OBVIOUS
    <2>1. CASE UNCHANGED vars
      BY <2>1 DEF vars, HistoryInv, TypeOK, BeginsEmpty, WritesTheFile, OthersLeaveIt,
                  SaysTheLastWrite, WritesUpTo, WritesOf, TextOf, BlobAt
    <2>2. CASE \E p \in Pages, t \in Contents : WritePage(p, t)
      BY <2>2, WriteKeeps
    <2>3. CASE \E f \in OtherFiles, t \in Contents : CommitOther(f, t)
      BY <2>3, OtherKeeps
    <2> QED
      BY <2>1, <2>2, <2>3 DEF Next
  <1> QED
    BY <1>2, InitHistory, PTL DEF Spec

-----------------------------------------------------------------------------
(* The theorems.                                                           *)

\* What a write wrote is in its tree, and is a text.
LEMMA WrittenText ==
    ASSUME HistoryInv, NEW p \in Pages, NEW i \in WritesOf(p)
    PROVE  BlobAt(i, RepoPath(p)) = TextOf(i) /\ TextOf(i) # None
  <1>1. i \in DOMAIN commits /\ commits[i].page = p /\ RepoPath(p) \in DOMAIN commits[i].tree
    BY DEF HistoryInv, WritesTheFile, WritesOf
  <1> DEFINE S == [page : Pages \cup {None}, tree : Trees]
  <1>2. commits[i] \in S
    <2>1. commits \in Seq(S)
      BY DEF HistoryInv, TypeOK
    <2> HIDE DEF S
    <2> QED
      BY <1>1, <2>1, LenProperties
  <1>3. commits[i].tree[RepoPath(p)] \in Contents
    BY <1>1, <1>2 DEF Trees
  <1> QED
    BY <1>1, <1>3, PathsOfParts DEF BlobAt, TextOf

\* A commit touches a page's file exactly if it is a write that changed the page.
LEMMA TouchedIsChanged ==
    ASSUME HistoryInv, NEW p \in Pages
    PROVE  {i \in DOMAIN commits : Touched(i, RepoPath(p))} = ChangesOf(p)
  <1>1. \A i \in DOMAIN commits : i \in Nat \ {0} /\ (i > 1 => i - 1 \in DOMAIN commits)
    BY LenProperties DEF HistoryInv, TypeOK
  <1>2. ASSUME NEW i \in DOMAIN commits, Touched(i, RepoPath(p))
        PROVE  i \in ChangesOf(p)
    <2>1. i > 1
      BY <1>1, <1>2 DEF HistoryInv, BeginsEmpty, Touched, BlobAt
    <2>2. BlobAt(i, RepoPath(p)) # BlobAt(i - 1, RepoPath(p))
      BY <1>2, <2>1 DEF Touched
    <2>3. i \in WritesOf(p)
      BY <2>1, <2>2 DEF HistoryInv, OthersLeaveIt, WritesOf
    <2>4. BlobAt(i, RepoPath(p)) = TextOf(i)
      BY <2>3, WrittenText
    <2>5. ASSUME NEW j \in WritesOf(p), j < i, \A k \in WritesOf(p) : k < i => k <= j
          PROVE  TextOf(j) # TextOf(i)
      <3>1. j \in WritesUpTo(i - 1, p) /\ \A k \in WritesUpTo(i - 1, p) : k <= j
        BY <1>1, <2>5 DEF WritesUpTo, WritesOf
      <3>2. PICK k \in WritesUpTo(i - 1, p) :
                /\ \A m \in WritesUpTo(i - 1, p) : m <= k
                /\ BlobAt(i - 1, RepoPath(p)) = TextOf(k)
        BY <1>1, <2>1, <3>1 DEF HistoryInv, SaysTheLastWrite
      <3>3. k = j
        BY <1>1, <3>1, <3>2 DEF WritesUpTo, WritesOf
      <3> QED
        BY <2>2, <2>4, <3>2, <3>3
    <2> QED
      BY <2>3, <2>5 DEF ChangesOf
  <1>3. ASSUME NEW i \in ChangesOf(p)
        PROVE  i \in DOMAIN commits /\ Touched(i, RepoPath(p))
    <2>1. i \in WritesOf(p) /\ i \in DOMAIN commits
      BY <1>3 DEF ChangesOf, WritesOf
    <2>2. i > 1
      BY <1>1, <2>1, PathsOfParts DEF HistoryInv, BeginsEmpty, WritesOf
    <2>3. BlobAt(i, RepoPath(p)) = TextOf(i) /\ TextOf(i) # None
      BY <2>1, WrittenText
    <2>4. CASE WritesUpTo(i - 1, p) = {} /\ BlobAt(i - 1, RepoPath(p)) = None
      BY <2>1, <2>2, <2>3, <2>4 DEF Touched
    <2>5. ASSUME NEW j \in WritesUpTo(i - 1, p), \A k \in WritesUpTo(i - 1, p) : k <= j,
                 BlobAt(i - 1, RepoPath(p)) = TextOf(j)
          PROVE  Touched(i, RepoPath(p))
      <3>1. j \in WritesOf(p) /\ j < i /\ \A k \in WritesOf(p) : k < i => k <= j
        BY <1>1, <2>1, <2>5 DEF WritesUpTo, WritesOf
      <3>2. TextOf(j) # TextOf(i)
        BY <1>3, <3>1 DEF ChangesOf
      <3> QED
        BY <2>2, <2>3, <2>5, <3>2 DEF Touched
    <2> QED
      BY <1>1, <2>1, <2>2, <2>4, <2>5 DEF HistoryInv, SaysTheLastWrite
  <1> QED
    BY <1>2, <1>3

\* Asked with the path at which the page was committed, file_history lists the
\* newest of the writes that changed the page and no other commit, wherever the
\* content root is.
THEOREM RepoPathFindsTheChanges ==
    ASSUME OthersApart
    PROVE  Spec => [](\A p \in Pages, n \in Limits \ {0} :
                         FileHistory(RepoPath(p), n) = Newest(ChangesOf(p), n))
  <1>1. HistoryInv => \A p \in Pages, n \in Limits \ {0} :
                         FileHistory(RepoPath(p), n) = Newest(ChangesOf(p), n)
    BY TouchedIsChanged DEF FileHistory
  <1> QED
    BY <1>1, HistoryInvariance, PTL

\* pages::history asks with the path below the content root: it lists the page's
\* changes when the content root is the repository's.
THEOREM HistoryAtTheRoot ==
    ASSUME OthersApart, Prefix = <<>>
    PROVE  Spec => []HistoryIsThePagesChanges
  <1>1. \A p \in Pages : RelativeFilePath(p) = RepoPath(p)
    BY FileSegments, ConcatEmptySeq DEF RepoPath, Paths
  <1>2. HistoryInv => HistoryIsThePagesChanges
    BY <1>1, TouchedIsChanged DEF HistoryIsThePagesChanges, History, FileHistory
  <1> QED
    BY <1>2, HistoryInvariance, PTL

\* What PagesAreSeparate says of a step.
Separates ==
    \A p \in Pages :
        commits'[Len(commits')].page \in Pages \ {p} =>
            BlobAt(Len(commits), RepoPath(p)) = BlobAt(Len(commits), RepoPath(p))'

\* Every commit keeps the types, and a page's leaves the other pages' files.
LEMMA NextSeparates == TypeOK /\ Next => TypeOK' /\ Separates
  <1> SUFFICES ASSUME TypeOK, Next PROVE TypeOK' /\ Separates
    OBVIOUS
  <1>1. PICK n : n = Len(commits)
    OBVIOUS
  <1>2. ASSUME NEW q \in Pages, NEW text \in Contents, WritePage(q, text)
        PROVE  TypeOK' /\ Separates
    <2>1. CommitFile(q, RepoPath(q), text) /\ RepoPath(q) \in FilesOfRepo
      BY <1>2 DEF WritePage, FilesOfRepo
    <2>2. /\ n \in Nat \ {0} /\ Len(commits') = n + 1 /\ commits'[n + 1].page = q /\ TypeOK'
          /\ \A f : f # RepoPath(q) /\ (f \in DOMAIN commits[n].tree => ~InTheWay(f, RepoPath(q))) =>
               BlobAt(n + 1, f)' = BlobAt(n, f)
      BY <1>1, <2>1, CommitAppends
    <2>3. \A f \in DOMAIN commits[n].tree : ~InTheWay(f, RepoPath(q))
      BY <1>1, <1>2 DEF WritePage
    <2>4. \A p \in Pages \ {q} : BlobAt(n + 1, RepoPath(p))' = BlobAt(n, RepoPath(p))
      BY <2>2, <2>3, FilesAreDistinct
    <2> QED
      BY <1>1, <2>2, <2>4 DEF Separates
  <1>3. ASSUME NEW f \in OtherFiles, NEW text \in Contents, CommitOther(f, text)
        PROVE  TypeOK' /\ Separates
    <2>1. CommitFile(None, f, text) /\ f \in FilesOfRepo
      BY <1>3 DEF CommitOther, FilesOfRepo
    <2>2. Len(commits') = n + 1 /\ commits'[n + 1].page = None /\ TypeOK'
      BY <1>1, <2>1, CommitAppends
    <2> QED
      BY <2>2, PathsOfParts DEF Separates
  <1> QED
    BY <1>2, <1>3 DEF Next

\* A write of one page leaves every other page's text at HEAD as it was, whatever
\* the pages are called and whatever else is committed.
THEOREM WritesLeaveOtherPages == Spec => PagesAreSeparate
  <1>1. Init => TypeOK
    BY InitHistory DEF HistoryInv
  <1>2. TypeOK /\ Next => TypeOK' /\ Separates
    BY NextSeparates
  <1>3. TypeOK /\ UNCHANGED vars => TypeOK'
    BY DEF TypeOK, vars
  <1> QED
    BY <1>1, <1>2, <1>3, PTL DEF Spec, PagesAreSeparate, Separates
=============================================================================
