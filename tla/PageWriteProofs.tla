--------------------------- MODULE PageWriteProofs ---------------------------
(***************************************************************************)
(* What holds of the page write pipeline for any number of calls, pages,   *)
(* texts, actors and faults, and of the editors above it, in four parts,   *)
(* each with an inductive invariant on top of the one before:              *)
(*   1. the lock and the stores: types, EditsFollowGit, StoresAgree;       *)
(*   2. results: OutcomeIsTruthful, StopIsClean;                           *)
(*   3. conditions: ConditionsChain, NoUnseenChangeErased, the refinement  *)
(*      of AtomicWiki; SuspendedActorIsRefused; and, if the task of a call *)
(*      is run, that an accepted call ends and its write goes through;     *)
(*   4. sessions: who is refused, and what a save that goes through        *)
(*      replaces.  An editor reads without the lock; its condition is good *)
(*      only while the text it got is the one its row speaks of.           *)
(***************************************************************************)
EXTENDS EditSession, SequenceTheorems, TLAPS

\* A call that has been made carries one of the requests callers may make.
CallsHaveRequests == \A w \in Writers : pc[w] # "idle" => req[w] \in Requests

TypeInv == TypeOK /\ CallsHaveRequests

-----------------------------------------------------------------------------
(* Lemmas about the data.                                                  *)

\* A request's fields have the types its readers expect.
LEMMA RequestFields ==
    ASSUME NEW r \in Requests
    PROVE  /\ r.page \in Pages /\ r.layer \in Layers /\ r.content \in Contents
           /\ r.actor \in Actors /\ r.signed \in Actors /\ r.pre \in Preconditions
  BY RequestsAreWriteRequests DEF WriteRequests

\* The row a write leaves behind is a row of the table.
LEMMA WrittenIsRow ==
    ASSUME NEW r \in Requests
    PROVE  Written(r) \in Row
  BY RequestFields, HashIsInjective DEF Written, Row

\* Appending to a sequence gives a nonempty sequence over the same set.
LEMMA AppendType ==
    ASSUME NEW S, NEW s \in Seq(S), NEW x \in S
    PROVE  Append(s, x) \in Seq(S) /\ Append(s, x) # <<>>
  BY AppendProperties

\* The newest commit of a nonempty history is a commit.
LEMMA HeadIsCommit ==
    ASSUME commits \in Seq(Commit), commits # <<>>
    PROVE  HeadCommit \in Commit
  BY DEF HeadCommit

-----------------------------------------------------------------------------
(* Type correctness.                                                       *)

\* The initial state has the right types.
LEMMA InitType == Init => TypeInv
  <1> SUFFICES ASSUME Init PROVE TypeInv
    OBVIOUS
  <1>1. SeedCommit \in Commit
    BY DEF SeedCommit, Commit
  <1>2. commits \in Seq(Commit) /\ commits # <<>>
    BY <1>1 DEF Init
  <1>3. pages \in [Pages -> Row]
    BY DEF Init, Row, NoRow, UnrecordedRow
  <1>4. page_edits \in Seq(Edit)
    BY DEF Init
  <1>5. disk \in [Pages -> Contents \cup {None, Torn}]
    BY DEF Init
  <1> QED
    BY <1>2, <1>3, <1>4, <1>5, ImportedPages
    DEF Init, TypeInv, TypeOK, CallsHaveRequests, Steps, Results

\* A call that arrives carries a request and keeps every type.
LEMMA SubmitType ==
    ASSUME TypeInv, NEW w \in Writers, NEW r \in Requests, Submit(w, r)
    PROVE  TypeInv'
  BY DEF Submit, TypeInv, TypeOK, CallsHaveRequests, Steps, content, tables, admin

\* Taking the lock keeps every type.
LEMMA AcceptType ==
    ASSUME TypeInv, NEW w \in Writers, Accept(w)
    PROVE  TypeInv'
  BY DEF Accept, TypeInv, TypeOK, CallsHaveRequests, Steps, content, tables, admin

\* A caller that stops waiting keeps every type.
LEMMA DisconnectType ==
    ASSUME TypeInv, NEW w \in Writers, Disconnect(w)
    PROVE  TypeInv'
  BY DEF Disconnect, TypeInv, TypeOK, CallsHaveRequests, Steps, Results,
         content, tables, admin

\* The checks of layer, actor and condition keep every type.
LEMMA CheckType ==
    ASSUME TypeInv, NEW w \in Writers,
           CheckLayer(w) \/ CheckActor(w) \/ CheckPrecondition(w)
    PROVE  TypeInv'
  BY DEF CheckLayer, CheckActor, CheckPrecondition, Proceed, Reject,
         TypeInv, TypeOK, CallsHaveRequests, Steps, Results, content, tables, admin

\* Writing the page's file keeps every type.
LEMMA FileType ==
    ASSUME TypeInv, NEW w \in Writers, TruncateFile(w) \/ WriteFile(w)
    PROVE  TypeInv'
  <1>1. req[w] \in Requests
    BY DEF TruncateFile, WriteFile, TypeInv, CallsHaveRequests
  <1>2. req[w].page \in Pages /\ req[w].content \in Contents
    BY <1>1, RequestFields
  <1> QED
    BY <1>1, <1>2 DEF TruncateFile, WriteFile, TypeInv, TypeOK, CallsHaveRequests, Steps,
                      tables, admin

\* The Git commit extends the history by a commit.
LEMMA CommitType ==
    ASSUME TypeInv, NEW w \in Writers, CommitGit(w)
    PROVE  TypeInv'
  <1>1. req[w] \in Requests
    BY DEF CommitGit, TypeInv, CallsHaveRequests
  <1>2. /\ req[w].page \in Pages /\ req[w].content \in Contents
        /\ req[w].signed \in Actors
    BY <1>1, RequestFields
  <1>3. HeadCommit \in Commit
    BY HeadIsCommit DEF TypeInv, TypeOK
  <1> DEFINE commit == [tree |-> [HeadCommit.tree EXCEPT ![req[w].page] = req[w].content],
                        page |-> req[w].page, author |-> req[w].signed, write |-> w]
  <1>4. commit \in Commit
    BY <1>2, <1>3 DEF Commit
  <1>5. commits' = Append(commits, commit)
    BY DEF CommitGit
  <1>6. commits' \in Seq(Commit) /\ commits' # <<>>
    BY <1>4, <1>5, AppendType DEF TypeInv, TypeOK
  <1>7. Len(commits) + 1 \in Nat
    BY LenProperties DEF TypeInv, TypeOK
  <1>8. commit_oid' \in [Writers -> Nat]
    BY <1>7 DEF CommitGit, TypeInv, TypeOK
  <1> QED
    BY <1>6, <1>8 DEF CommitGit, TypeInv, TypeOK, CallsHaveRequests, Steps, tables, admin

\* The transaction leaves a row, an edit record and an indexed text.
LEMMA ProjectType ==
    ASSUME TypeInv, NEW w \in Writers, ProjectTables(w)
    PROVE  TypeInv'
  <1>1. req[w] \in Requests
    BY DEF ProjectTables, TypeInv, CallsHaveRequests
  <1>2. /\ req[w].page \in Pages /\ req[w].content \in Contents
        /\ req[w].actor \in Actors
    BY <1>1, RequestFields
  <1>3. Written(req[w]) \in Row
    BY <1>1, WrittenIsRow
  <1> DEFINE edit == [page |-> req[w].page, actor |-> req[w].actor,
                      git_commit |-> commit_oid[w], write |-> w]
  <1>4. edit \in Edit
    BY <1>2 DEF Edit, TypeInv, TypeOK
  <1>5. page_edits' = Append(page_edits, edit)
    BY DEF ProjectTables
  <1>6. page_edits' \in Seq(Edit)
    BY <1>4, <1>5, AppendType DEF TypeInv, TypeOK
  <1>7. pages' \in [Pages -> Row]
    BY <1>3 DEF ProjectTables, TypeInv, TypeOK
  <1> QED
    BY <1>2, <1>6, <1>7 DEF ProjectTables, TypeInv, TypeOK, CallsHaveRequests, Steps,
                            Results, content, admin

\* Giving the lock back keeps every type.
LEMMA FinishType ==
    ASSUME TypeInv, NEW w \in Writers, Finish(w)
    PROVE  TypeInv'
  BY DEF Finish, TypeInv, TypeOK, CallsHaveRequests, Steps, content, tables, admin

\* A call left behind at a step has left behind a page.
LEMMA LeftBehindPages ==
    ASSUME TypeInv, NEW w \in Writers
    PROVE  LeftBehind(w) \subseteq Pages
  BY RequestFields DEF LeftBehind, Unprojected, TypeInv, CallsHaveRequests

\* A call that fails on storage keeps every type.
LEMMA StorageErrorType ==
    ASSUME TypeInv, NEW w \in Writers, StorageError(w)
    PROVE  TypeInv'
  BY LeftBehindPages DEF StorageError, Reject, Serialized, TypeInv, TypeOK,
         CallsHaveRequests, Steps, Results, content, tables, admin

\* The end of the process keeps every type.
LEMMA CrashType ==
    ASSUME TypeInv, Crash
    PROVE  TypeInv'
  <1>1. drifted' \subseteq Pages
    BY LeftBehindPages DEF Crash, TypeInv, TypeOK
  <1>2. pc' \in [Writers -> Steps] /\ result' \in [Writers -> Results]
    BY DEF Crash, TypeInv, TypeOK, Steps, Results
  <1>3. caller' \in [Writers -> {"none", "waiting", "answered", "gone"}]
    BY DEF Crash, TypeInv, TypeOK
  <1>4. CallsHaveRequests'
    BY DEF Crash, TypeInv, CallsHaveRequests
  <1> QED
    BY <1>1, <1>2, <1>3, <1>4 DEF Crash, TypeInv, TypeOK, content, tables, admin

\* Restart, shutdown and stop keep every type.
LEMMA ServerType ==
    ASSUME TypeInv, Restart \/ Shutdown \/ Stop
    PROVE  TypeInv'
  BY DEF Restart, Shutdown, Stop, TypeInv, TypeOK, CallsHaveRequests,
         calls, content, tables, admin

\* An administrator's changes keep every type.
LEMMA AdminType ==
    ASSUME TypeInv,
           (\E a \in Suspendable : SuspendActor(a)) \/ (\E l \in Retirable : RetireLayer(l))
    PROVE  TypeInv'
  BY DEF SuspendActor, RetireLayer, TypeInv, TypeOK, CallsHaveRequests,
         calls, content, tables, admin

\* Every step of the system keeps every type.
LEMMA NextType == TypeInv /\ [Next]_vars => TypeInv'
  <1> SUFFICES ASSUME TypeInv, [Next]_vars PROVE TypeInv'
    OBVIOUS
  <1>1. CASE UNCHANGED vars
    BY <1>1 DEF vars, calls, content, tables, admin, TypeInv, TypeOK, CallsHaveRequests
  <1>2. CASE \E w \in Writers, r \in Requests : Submit(w, r)
    BY <1>2, SubmitType
  <1>3. ASSUME NEW w \in Writers, Pipeline(w)
        PROVE  TypeInv'
    BY <1>3, CheckType, FileType, CommitType, ProjectType, FinishType DEF Pipeline
  <1>4. ASSUME NEW w \in Writers, Accept(w) \/ Disconnect(w) \/ StorageError(w)
        PROVE  TypeInv'
    BY <1>4, AcceptType, DisconnectType, StorageErrorType
  <1>5. CASE Crash \/ Restart \/ Shutdown \/ Stop
    BY <1>5, CrashType, ServerType
  <1>6. CASE (\E a \in Suspendable : SuspendActor(a)) \/ (\E l \in Retirable : RetireLayer(l))
    BY <1>6, AdminType
  <1> QED
    BY <1>1, <1>2, <1>3, <1>4, <1>5, <1>6 DEF Next, System

\* The type invariant, with the request of every call, holds for ever.
LEMMA TypeInvariance == Spec => []TypeInv
  BY InitType, NextType, PTL DEF Spec

\* Every variable keeps its type, whatever calls, faults and restarts occur.
THEOREM TypeCorrect == Spec => []TypeOK
  BY TypeInvariance, PTL DEF TypeInv

-----------------------------------------------------------------------------
(* The inductive invariant behind the agreement of the stores.             *)

\* The call that holds the lock, and it alone, is in write_serialized.
LockInv == \A w \in Writers : pc[w] \in Serialized <=> holder = w

\* An accepted call past its actor check signs with the actor it records.
SignedInv ==
    \A w \in Writers :
        pc[w] \in {"precondition", "file"} \cup Unprojected => req[w].signed = req[w].actor

\* Once written, the page's file has the call's text until the call ends.
FileInv ==
    \A w \in Writers :
        pc[w] \in {"written", "committed"} => disk[req[w].page] = req[w].content

\* Once committed, the call's commit is HEAD and cited by no edit, as are none
\* of the commits after those cited.
CommittedInv ==
    \A w \in Writers : pc[w] = "committed" =>
        /\ commit_oid[w] = Len(commits)
        /\ HeadCommit.page = req[w].page
        /\ HeadCommit.tree[req[w].page] = req[w].content
        /\ HeadCommit.author = req[w].signed
        /\ HeadCommit.write = w
        /\ \A i \in DOMAIN page_edits : page_edits[i].git_commit < Len(commits)

SafetyInv ==
    /\ TypeInv
    /\ LockInv
    /\ SignedInv
    /\ FileInv
    /\ CommittedInv
    /\ EditsFollowGit
    /\ StoresAgree

\* The steps of the pipeline as sets, with what tells them apart.
LEMMA StepKinds ==
    /\ Serialized = {"layer", "actor", "precondition", "file", "truncated",
                     "written", "committed", "finishing"}
    /\ Unprojected = {"truncated", "written", "committed"}
  BY DEF Serialized, Steps, Unprojected

\* None is no call, no actor and no text.
LEMMA NoneIsApart ==
    /\ None \notin Writers
    /\ None \notin Contents
    /\ None \notin Actors
  BY NoneIsNoValue

\* The inductive invariant holds before the first call.
LEMMA InitSafety == Init => SafetyInv
  <1> SUFFICES ASSUME Init PROVE SafetyInv
    OBVIOUS
  <1>1. LockInv
    BY NoneIsApart, StepKinds DEF Init, LockInv
  <1>2. SignedInv /\ FileInv /\ CommittedInv
    BY StepKinds DEF Init, SignedInv, FileInv, CommittedInv
  <1>3. EditsFollowGit
    BY DEF Init, EditsFollowGit
  <1>4. StoresAgree
    <2> SUFFICES ASSUME NEW p \in Pages \ drifted
                 PROVE  /\ disk[p] = HeadCommit.tree[p] /\ pages_fts[p] = disk[p]
                        /\ pages[p].present <=> disk[p] # None
                        /\ disk[p] # None => pages[p].content_hash = ContentHash[disk[p]]
      BY DEF StoresAgree
    <2>1. disk[p] = None /\ pages[p] = NoRow /\ pages_fts[p] = None
      BY DEF Init
    <2>2. HeadCommit.tree[p] = None
      BY DEF Init, HeadCommit, SeedCommit
    <2> QED
      BY <2>1, <2>2 DEF NoRow
  <1> QED
    BY <1>1, <1>2, <1>3, <1>4, InitType DEF SafetyInv

\* A step that touches no store, no request and no drift, and moves no call
\* into or out of the span between its file and its projection, keeps the
\* facts about the stores.
LEMMA StoresUntouched ==
    ASSUME SafetyInv, UNCHANGED <<content, tables, drifted, commit_oid>>,
           \A w \in Writers : pc'[w] \in Unprojected <=> pc[w] \in Unprojected,
           \A w \in Writers : pc'[w] \in Unprojected => pc'[w] = pc[w] /\ req'[w] = req[w]
    PROVE  FileInv' /\ CommittedInv' /\ StoresAgree'
  <1>1. FileInv' /\ CommittedInv'
    BY StepKinds DEF SafetyInv, FileInv, CommittedInv, content, tables, HeadCommit
  <1>2. \A p \in Pages : InFlight(p)' <=> InFlight(p)
    BY StepKinds DEF InFlight
  <1>3. StoresAgree'
    BY <1>2 DEF SafetyInv, StoresAgree, content, tables, HeadCommit
  <1> QED
    BY <1>1, <1>3

\* A step that touches neither Git nor the tables keeps their order.
LEMMA EditsUntouched ==
    ASSUME EditsFollowGit, UNCHANGED <<content, tables>>
    PROVE  EditsFollowGit'
  BY DEF EditsFollowGit, content, tables

\* The arrival of a call keeps the inductive invariant.
LEMMA SubmitSafety ==
    ASSUME SafetyInv, NEW w \in Writers, NEW r \in Requests, Submit(w, r)
    PROVE  SafetyInv'
  <1>1. TypeInv'
    BY SubmitType DEF SafetyInv
  <1>2. LockInv' /\ SignedInv'
    BY StepKinds DEF Submit, SafetyInv, TypeInv, TypeOK, LockInv, SignedInv
  <1>3. FileInv' /\ CommittedInv' /\ StoresAgree'
    BY StoresUntouched, StepKinds DEF Submit, SafetyInv, TypeInv, TypeOK
  <1> QED
    BY <1>1, <1>2, <1>3, EditsUntouched DEF Submit, SafetyInv

\* A call enters write_serialized only when no other call is there.
LEMMA AcceptSafety ==
    ASSUME SafetyInv, NEW w \in Writers, Accept(w)
    PROVE  SafetyInv'
  <1>1. TypeInv'
    BY AcceptType DEF SafetyInv
  <1>2. LockInv' /\ SignedInv'
    BY StepKinds, NoneIsApart DEF Accept, SafetyInv, TypeInv, TypeOK, LockInv, SignedInv
  <1>3. FileInv' /\ CommittedInv' /\ StoresAgree'
    BY StoresUntouched, StepKinds DEF Accept, SafetyInv, TypeInv, TypeOK
  <1> QED
    BY <1>1, <1>2, <1>3, EditsUntouched DEF Accept, SafetyInv

\* A caller that stops waiting disturbs no store and no lock.
LEMMA DisconnectSafety ==
    ASSUME SafetyInv, NEW w \in Writers, Disconnect(w)
    PROVE  SafetyInv'
  <1>1. TypeInv'
    BY DisconnectType DEF SafetyInv
  <1>2. LockInv' /\ SignedInv'
    BY StepKinds DEF Disconnect, SafetyInv, TypeInv, TypeOK, LockInv, SignedInv
  <1>3. FileInv' /\ CommittedInv' /\ StoresAgree'
    BY StoresUntouched, StepKinds DEF Disconnect, SafetyInv, TypeInv, TypeOK
  <1> QED
    BY <1>1, <1>2, <1>3, EditsUntouched DEF Disconnect, SafetyInv

\* The checks touch no store, and let only a call pass that signs as the
\* actor it records.
LEMMA CheckSafety ==
    ASSUME SafetyInv, NEW w \in Writers,
           CheckLayer(w) \/ CheckActor(w) \/ CheckPrecondition(w)
    PROVE  SafetyInv'
  <1>1. TypeInv'
    BY CheckType DEF SafetyInv
  <1>2. LockInv'
    BY StepKinds DEF CheckLayer, CheckActor, CheckPrecondition, Proceed, Reject,
                     SafetyInv, TypeInv, TypeOK, LockInv
  <1>3. SignedInv'
    BY StepKinds DEF CheckLayer, CheckActor, CheckPrecondition, Proceed, Reject, ActorIsValid,
                     SafetyInv, TypeInv, TypeOK, SignedInv
  <1>4. FileInv' /\ CommittedInv' /\ StoresAgree'
    BY StoresUntouched, StepKinds DEF CheckLayer, CheckActor, CheckPrecondition, Proceed,
                     Reject, SafetyInv, TypeInv, TypeOK
  <1> QED
    BY <1>1, <1>2, <1>3, <1>4, EditsUntouched
    DEF CheckLayer, CheckActor, CheckPrecondition, SafetyInv

\* A call gives the lock back after it has left its last step.
LEMMA FinishSafety ==
    ASSUME SafetyInv, NEW w \in Writers, Finish(w)
    PROVE  SafetyInv'
  <1>1. TypeInv'
    BY FinishType DEF SafetyInv
  <1>2. LockInv' /\ SignedInv'
    BY StepKinds, NoneIsApart DEF Finish, SafetyInv, TypeInv, TypeOK, LockInv, SignedInv
  <1>3. FileInv' /\ CommittedInv' /\ StoresAgree'
    BY StoresUntouched, StepKinds DEF Finish, SafetyInv, TypeInv, TypeOK
  <1> QED
    BY <1>1, <1>2, <1>3, EditsUntouched DEF Finish, SafetyInv

\* Only the holder of the lock is past its checks: a call at one of the steps
\* that touch the stores is alone there.
LEMMA Alone ==
    ASSUME LockInv, NEW v \in Writers, NEW w \in Writers,
           pc[v] \in Serialized, pc[w] \in Serialized
    PROVE  v = w
  BY DEF LockInv

\* Writing the file disturbs only the page the call is in the middle of.
LEMMA FileSafety ==
    ASSUME SafetyInv, NEW w \in Writers, TruncateFile(w) \/ WriteFile(w)
    PROVE  SafetyInv'
  <1>1. TypeInv'
    BY FileType DEF SafetyInv
  <1>2. LockInv' /\ SignedInv'
    BY StepKinds DEF TruncateFile, WriteFile, SafetyInv, TypeInv, TypeOK, LockInv, SignedInv
  <1>3. pc[w] \in Serialized /\ pc'[w] \in Unprojected
    BY StepKinds DEF TruncateFile, WriteFile, SafetyInv, TypeInv, TypeOK
  <1>4. \A v \in Writers \ {w} : pc'[v] = pc[v] /\ pc[v] \notin Unprojected
    BY <1>3, Alone, StepKinds DEF TruncateFile, WriteFile, SafetyInv, TypeInv, TypeOK
  <1>5. req[w].page \in Pages
    BY RequestFields DEF TruncateFile, WriteFile, SafetyInv, TypeInv, CallsHaveRequests
  <1>6. FileInv'
    <2> SUFFICES ASSUME NEW v \in Writers, pc'[v] \in {"written", "committed"}
                 PROVE  disk'[req'[v].page] = req'[v].content
      BY DEF FileInv
    <2>1. v = w
      BY <1>4, StepKinds
    <2>2. pc[w] = "truncated" /\ WriteFile(w)
      BY <2>1 DEF TruncateFile, WriteFile, SafetyInv, TypeInv, TypeOK
    <2> QED
      BY <2>1, <2>2, <1>5 DEF WriteFile, SafetyInv, TypeInv, TypeOK
  <1>7. CommittedInv'
    BY <1>4, StepKinds DEF TruncateFile, WriteFile, SafetyInv, TypeInv, TypeOK, CommittedInv
  <1>8. EditsFollowGit'
    BY DEF TruncateFile, WriteFile, SafetyInv, EditsFollowGit, tables
  <1>9. StoresAgree'
    <2> SUFFICES ASSUME NEW p \in Pages \ drifted, ~InFlight(p)'
                 PROVE  /\ p # req[w].page /\ ~InFlight(p)
                        /\ disk'[p] = disk[p]
      BY DEF StoresAgree, SafetyInv, TruncateFile, WriteFile, tables, HeadCommit
    <2>1. p # req[w].page
      BY <1>3 DEF InFlight, TruncateFile, WriteFile
    <2>2. ~InFlight(p)
      BY <1>4, <2>1, StepKinds DEF InFlight
    <2> QED
      BY <2>1, <2>2, <1>5 DEF TruncateFile, WriteFile, SafetyInv, TypeInv, TypeOK
  <1> QED
    BY <1>1, <1>2, <1>6, <1>7, <1>8, <1>9 DEF SafetyInv

\* A commit extends the history by one: the earlier commits stay where they
\* are, and HEAD is the new one.
LEMMA CommitExtends ==
    ASSUME TypeInv, NEW w \in Writers, CommitGit(w)
    PROVE  /\ Len(commits) \in Nat \ {0}
           /\ Len(commits') = Len(commits) + 1
           /\ \A i \in 1..Len(commits) : commits'[i] = commits[i]
           /\ HeadCommit'.tree = [HeadCommit.tree EXCEPT ![req[w].page] = req[w].content]
           /\ HeadCommit'.page = req[w].page
           /\ HeadCommit'.author = req[w].signed
           /\ HeadCommit'.write = w
  <1> DEFINE commit == [tree |-> [HeadCommit.tree EXCEPT ![req[w].page] = req[w].content],
                        page |-> req[w].page, author |-> req[w].signed, write |-> w]
  <1>1. commits' = Append(commits, commit)
    BY DEF CommitGit
  <1>2. commits \in Seq(Commit) /\ commits # <<>>
    BY DEF TypeInv, TypeOK
  <1>3. commit \in {commit} \cup Commit /\ commits \in Seq({commit} \cup Commit)
    BY <1>2, SeqMonotonic
  <1>4. /\ Len(commits') = Len(commits) + 1
        /\ \A i \in 1..Len(commits) : commits'[i] = commits[i]
        /\ commits'[Len(commits) + 1] = commit
    BY <1>1, <1>3, AppendProperties
  <1>5. Len(commits) \in Nat \ {0}
    BY <1>2, EmptySeq, LenProperties
  <1>6. HeadCommit' = commit
    BY <1>4 DEF HeadCommit
  <1> QED
    BY <1>4, <1>5, <1>6

\* The commit becomes HEAD behind every commit an edit cites.
LEMMA CommitSafety ==
    ASSUME SafetyInv, NEW w \in Writers, CommitGit(w)
    PROVE  SafetyInv'
  <1>1. TypeInv'
    BY CommitType DEF SafetyInv
  <1>2. LockInv' /\ SignedInv' /\ FileInv'
    BY StepKinds DEF CommitGit, SafetyInv, TypeInv, TypeOK, LockInv, SignedInv, FileInv
  <1>3. pc[w] \in Serialized /\ pc[w] \in Unprojected /\ pc'[w] \in Unprojected
    BY StepKinds DEF CommitGit, SafetyInv, TypeInv, TypeOK
  <1>4. \A v \in Writers \ {w} : pc'[v] = pc[v] /\ pc[v] \notin Unprojected
    BY <1>3, Alone, StepKinds DEF CommitGit, SafetyInv, TypeInv, TypeOK
  <1>5. /\ Len(commits) \in Nat \ {0}
        /\ Len(commits') = Len(commits) + 1
        /\ \A i \in 1..Len(commits) : commits'[i] = commits[i]
        /\ HeadCommit'.tree = [HeadCommit.tree EXCEPT ![req[w].page] = req[w].content]
        /\ HeadCommit'.page = req[w].page
        /\ HeadCommit'.author = req[w].signed
        /\ HeadCommit'.write = w
    BY CommitExtends DEF SafetyInv
  <1>6. HeadCommit.tree \in [Pages -> Contents \cup {None}]
    BY HeadIsCommit DEF SafetyInv, TypeInv, TypeOK, Commit
  <1>7. req[w].page \in Pages
    BY RequestFields DEF CommitGit, SafetyInv, TypeInv, CallsHaveRequests
  <1>8. DOMAIN commits = 1..Len(commits) /\ DOMAIN commits' = 1..Len(commits')
    BY <1>1, LenProperties DEF SafetyInv, TypeInv, TypeOK
  <1>9. EditsFollowGit'
    <2>1. page_edits' = page_edits
      BY DEF CommitGit, tables
    <2>2. \A i \in DOMAIN page_edits :
            /\ page_edits[i].git_commit \in 1..Len(commits)
            /\ commits'[page_edits[i].git_commit] = commits[page_edits[i].git_commit]
      BY <1>5, <1>8 DEF SafetyInv, EditsFollowGit
    <2>3. \A i \in DOMAIN page_edits : page_edits[i].git_commit \in DOMAIN commits'
      BY <2>2, <1>5, <1>8
    <2> QED
      BY <2>1, <2>2, <2>3 DEF SafetyInv, EditsFollowGit
  <1>10. CommittedInv'
    <2> SUFFICES ASSUME NEW v \in Writers, pc'[v] = "committed"
                 PROVE  /\ commit_oid'[v] = Len(commits')
                        /\ HeadCommit'.page = req'[v].page
                        /\ HeadCommit'.tree[req'[v].page] = req'[v].content
                        /\ HeadCommit'.author = req'[v].signed
                        /\ HeadCommit'.write = v
                        /\ \A i \in DOMAIN page_edits' :
                              page_edits'[i].git_commit < Len(commits')
      BY DEF CommittedInv
    <2>1. v = w
      BY <1>4, StepKinds
    <2>2. commit_oid'[w] = Len(commits') /\ req' = req /\ page_edits' = page_edits
      BY <1>5 DEF CommitGit, tables, SafetyInv, TypeInv, TypeOK
    <2>3. HeadCommit'.tree[req[w].page] = req[w].content
      BY <1>5, <1>6, <1>7
    <2>4. \A i \in DOMAIN page_edits : page_edits[i].git_commit \in 1..Len(commits)
      BY <1>8 DEF SafetyInv, EditsFollowGit
    <2>5. \A i \in DOMAIN page_edits : page_edits[i].git_commit < Len(commits')
      BY <2>4, <1>5
    <2> QED
      BY <2>1, <2>2, <2>3, <2>5, <1>5
  <1>11. StoresAgree'
    <2> SUFFICES ASSUME NEW p \in Pages \ drifted, ~InFlight(p)'
                 PROVE  ~InFlight(p) /\ HeadCommit'.tree[p] = HeadCommit.tree[p]
      BY DEF StoresAgree, SafetyInv, CommitGit, tables
    <2>1. p # req[w].page
      BY <1>3 DEF InFlight, CommitGit
    <2>2. ~InFlight(p)
      BY <1>4, <2>1 DEF InFlight
    <2> QED
      BY <2>1, <2>2, <1>5, <1>6, <1>7
  <1> QED
    BY <1>1, <1>2, <1>9, <1>10, <1>11 DEF SafetyInv

\* The transaction adds one edit record behind those there are.
LEMMA EditExtends ==
    ASSUME TypeInv, NEW w \in Writers, ProjectTables(w)
    PROVE  /\ Len(page_edits) \in Nat
           /\ DOMAIN page_edits = 1..Len(page_edits)
           /\ DOMAIN page_edits' = 1..(Len(page_edits) + 1)
           /\ \A i \in 1..Len(page_edits) : page_edits'[i] = page_edits[i]
           /\ page_edits'[Len(page_edits) + 1] =
                [page |-> req[w].page, actor |-> req[w].actor,
                 git_commit |-> commit_oid[w], write |-> w]
  <1> DEFINE edit == [page |-> req[w].page, actor |-> req[w].actor,
                      git_commit |-> commit_oid[w], write |-> w]
  <1>1. page_edits' = Append(page_edits, edit)
    BY DEF ProjectTables
  <1>2. page_edits \in Seq(Edit)
    BY DEF TypeInv, TypeOK
  <1>3. edit \in {edit} \cup Edit /\ page_edits \in Seq({edit} \cup Edit)
    BY <1>2, SeqMonotonic
  <1>4. /\ Len(page_edits') = Len(page_edits) + 1
        /\ \A i \in 1..Len(page_edits) : page_edits'[i] = page_edits[i]
        /\ page_edits'[Len(page_edits) + 1] = edit
        /\ page_edits' \in Seq({edit} \cup Edit)
    BY <1>1, <1>3, AppendProperties
  <1> QED
    BY <1>2, <1>4, LenProperties

\* The transaction brings row, record and index to where file and HEAD are.
LEMMA ProjectSafety ==
    ASSUME SafetyInv, NEW w \in Writers, ProjectTables(w)
    PROVE  SafetyInv'
  <1> DEFINE r == req[w]
             n == Len(page_edits) + 1
  <1>1. TypeInv'
    BY ProjectType DEF SafetyInv
  <1>2. LockInv' /\ SignedInv'
    BY StepKinds DEF ProjectTables, SafetyInv, TypeInv, TypeOK, LockInv, SignedInv
  <1>3. pc[w] = "committed" /\ pc[w] \in Serialized /\ pc'[w] = "finishing"
    BY StepKinds DEF ProjectTables, SafetyInv, TypeInv, TypeOK
  <1>4. \A v \in Writers \ {w} : pc'[v] = pc[v] /\ pc[v] \notin Unprojected
    BY <1>3, Alone, StepKinds DEF ProjectTables, SafetyInv, TypeInv, TypeOK
  <1>5. FileInv' /\ CommittedInv'
    BY <1>3, <1>4, StepKinds DEF FileInv, CommittedInv
  <1>6. r \in Requests /\ r.page \in Pages /\ r.content \in Contents
    BY <1>3, RequestFields DEF SafetyInv, TypeInv, CallsHaveRequests
  <1>7. /\ commit_oid[w] = Len(commits)
        /\ HeadCommit.page = r.page
        /\ HeadCommit.tree[r.page] = r.content
        /\ HeadCommit.author = r.signed
        /\ HeadCommit.write = w
        /\ \A i \in DOMAIN page_edits : page_edits[i].git_commit < Len(commits)
    BY <1>3 DEF SafetyInv, CommittedInv
  <1>8. disk[r.page] = r.content /\ r.signed = r.actor
    BY <1>3, StepKinds DEF SafetyInv, FileInv, SignedInv
  <1>9. Len(commits) \in DOMAIN commits
    BY LenProperties, EmptySeq DEF SafetyInv, TypeInv, TypeOK
  <1>10. EditsFollowGit'
    <2>1. /\ Len(page_edits) \in Nat
          /\ DOMAIN page_edits = 1..Len(page_edits)
          /\ DOMAIN page_edits' = 1..n
          /\ \A i \in 1..Len(page_edits) : page_edits'[i] = page_edits[i]
          /\ page_edits'[n] = [page |-> r.page, actor |-> r.actor,
                               git_commit |-> commit_oid[w], write |-> w]
      BY EditExtends DEF SafetyInv
    <2>2. commits' = commits
      BY DEF ProjectTables, content
    <2>3. \A i \in DOMAIN page_edits' : i \in DOMAIN page_edits \/ i = n
      BY <2>1
    <2>4. ASSUME NEW i \in DOMAIN page_edits'
          PROVE  /\ page_edits'[i].git_commit \in DOMAIN commits
                 /\ commits[page_edits'[i].git_commit].page = page_edits'[i].page
                 /\ commits[page_edits'[i].git_commit].author = page_edits'[i].actor
                 /\ commits[page_edits'[i].git_commit].write = page_edits'[i].write
      <3>1. CASE i = n
        BY <3>1, <2>1, <1>7, <1>8, <1>9 DEF HeadCommit
      <3>2. CASE i \in DOMAIN page_edits
        BY <3>2, <2>1 DEF SafetyInv, EditsFollowGit
      <3> QED
        BY <3>1, <3>2, <2>3
    <2>5. ASSUME NEW i \in DOMAIN page_edits', NEW j \in DOMAIN page_edits', i < j
          PROVE  page_edits'[i].git_commit < page_edits'[j].git_commit
      <3>1. i \in DOMAIN page_edits
        BY <2>1, <2>5
      <3>2. CASE j = n
        BY <3>1, <3>2, <2>1, <1>7
      <3>3. CASE j \in DOMAIN page_edits
        BY <3>1, <3>3, <2>1, <2>5 DEF SafetyInv, EditsFollowGit
      <3> QED
        BY <3>2, <3>3, <2>3
    <2> QED
      BY <2>2, <2>4, <2>5 DEF EditsFollowGit
  <1>11. StoresAgree'
    <2> SUFFICES ASSUME NEW p \in Pages \ drifted', ~InFlight(p)'
                 PROVE  /\ disk'[p] = HeadCommit'.tree[p]
                        /\ pages_fts'[p] = disk'[p]
                        /\ pages'[p].present <=> disk'[p] # None
                        /\ disk'[p] # None => pages'[p].content_hash = ContentHash[disk'[p]]
      BY DEF StoresAgree
    <2>1. disk' = disk /\ HeadCommit' = HeadCommit
      BY DEF ProjectTables, content, HeadCommit
    <2>2. CASE p = r.page
      <3>1. pages'[p] = Written(r) /\ pages_fts'[p] = r.content
        BY <2>2, <1>6 DEF ProjectTables, SafetyInv, TypeInv, TypeOK
      <3>2. r.content # None
        BY <1>6, NoneIsApart
      <3> QED
        BY <2>1, <2>2, <3>1, <3>2, <1>7, <1>8 DEF Written
    <2>3. CASE p # r.page
      <3>1. p \notin drifted /\ pages'[p] = pages[p] /\ pages_fts'[p] = pages_fts[p]
        BY <2>3 DEF ProjectTables, SafetyInv, TypeInv, TypeOK
      <3>2. ~InFlight(p)
        BY <2>3, <1>4 DEF InFlight, ProjectTables
      <3> QED
        BY <2>1, <3>1, <3>2 DEF SafetyInv, StoresAgree
    <2> QED
      BY <2>2, <2>3
  <1> QED
    BY <1>1, <1>2, <1>5, <1>10, <1>11 DEF SafetyInv

\* A call that fails past its file leaves its page behind as drifted.
LEMMA StorageErrorSafety ==
    ASSUME SafetyInv, NEW w \in Writers, StorageError(w)
    PROVE  SafetyInv'
  <1>1. TypeInv'
    BY StorageErrorType DEF SafetyInv
  <1>2. LockInv' /\ SignedInv'
    BY StepKinds DEF StorageError, Reject, SafetyInv, TypeInv, TypeOK, LockInv, SignedInv
  <1>3. /\ UNCHANGED <<content, tables, req, commit_oid>>
        /\ pc' = [pc EXCEPT ![w] = "finishing"]
        /\ drifted' = drifted \cup LeftBehind(w)
    BY DEF StorageError, Reject
  <1>4. FileInv' /\ CommittedInv'
    BY <1>3 DEF SafetyInv, TypeInv, TypeOK, FileInv, CommittedInv, content, tables, HeadCommit
  <1>5. StoresAgree'
    <2> SUFFICES ASSUME NEW p \in Pages \ drifted', ~InFlight(p)'
                 PROVE  ~InFlight(p) /\ p \notin drifted
      BY <1>3 DEF StoresAgree, SafetyInv, content, tables, HeadCommit
    <2> QED
      BY <1>3 DEF InFlight, LeftBehind, SafetyInv, TypeInv, TypeOK
  <1> QED
    BY <1>1, <1>2, <1>3, <1>4, <1>5, EditsUntouched DEF SafetyInv

\* A crash leaves the page of the call it cuts short behind as drifted.
LEMMA CrashSafety ==
    ASSUME SafetyInv, Crash
    PROVE  SafetyInv'
  <1>1. TypeInv'
    BY CrashType DEF SafetyInv
  <1>2. \A v \in Writers : pc'[v] \in {"idle", "done"}
    BY DEF Crash
  <1>3. LockInv' /\ SignedInv' /\ FileInv' /\ CommittedInv'
    BY <1>2, StepKinds, NoneIsApart DEF Crash, LockInv, SignedInv, FileInv, CommittedInv
  <1>4. StoresAgree'
    <2> SUFFICES ASSUME NEW p \in Pages \ drifted'
                 PROVE  ~InFlight(p) /\ p \notin drifted
      BY DEF StoresAgree, SafetyInv, Crash, content, tables, HeadCommit
    <2> QED
      BY DEF InFlight, LeftBehind, Crash
  <1> QED
    BY <1>1, <1>3, <1>4, EditsUntouched DEF SafetyInv, Crash

\* Steps that leave the calls and the stores alone.
LEMMA OtherSafety ==
    ASSUME SafetyInv, TypeInv', UNCHANGED <<calls, content, tables, drifted>>
    PROVE  SafetyInv'
  <1>1. LockInv' /\ SignedInv'
    BY DEF SafetyInv, LockInv, SignedInv, calls
  <1>2. FileInv' /\ CommittedInv' /\ StoresAgree'
    BY StoresUntouched DEF calls
  <1> QED
    BY <1>1, <1>2, EditsUntouched DEF SafetyInv

\* Every step of the system keeps the inductive invariant.
LEMMA NextSafety == SafetyInv /\ [Next]_vars => SafetyInv'
  <1> SUFFICES ASSUME SafetyInv, [Next]_vars PROVE SafetyInv'
    OBVIOUS
  <1>0. TypeInv'
    BY NextType DEF SafetyInv
  <1>1. CASE UNCHANGED vars
    BY <1>0, <1>1, OtherSafety DEF vars
  <1>2. CASE \E w \in Writers, r \in Requests : Submit(w, r)
    BY <1>2, SubmitSafety
  <1>3. ASSUME NEW w \in Writers, Pipeline(w)
        PROVE  SafetyInv'
    BY <1>3, CheckSafety, FileSafety, CommitSafety, ProjectSafety, FinishSafety DEF Pipeline
  <1>4. ASSUME NEW w \in Writers, Accept(w) \/ Disconnect(w) \/ StorageError(w)
        PROVE  SafetyInv'
    BY <1>4, AcceptSafety, DisconnectSafety, StorageErrorSafety
  <1>5. CASE Crash
    BY <1>5, CrashSafety
  <1>6. CASE Restart \/ Shutdown \/ Stop
    BY <1>0, <1>6, OtherSafety DEF Restart, Shutdown, Stop
  <1>7. CASE (\E a \in Suspendable : SuspendActor(a)) \/ (\E l \in Retirable : RetireLayer(l))
    BY <1>0, <1>7, OtherSafety DEF SuspendActor, RetireLayer
  <1> QED
    BY <1>1, <1>2, <1>3, <1>4, <1>5, <1>6, <1>7 DEF Next, System

\* The inductive invariant holds for ever: the lock is exclusive, and the
\* store facts each accepted call relies on hold at each of its steps.
THEOREM SafetyInvariance == Spec => []SafetyInv
  BY InitSafety, NextSafety, PTL DEF Spec

\* SQLite projects Git's commits in Git's order and under the right actor,
\* through any number of errors and crashes.
THEOREM EditsAlwaysFollowGit == Spec => []EditsFollowGit
  BY SafetyInvariance, PTL DEF SafetyInv

\* File, HEAD, row and index agree on every page whose last call was not cut
\* short, and that no call is in the middle of.
THEOREM StoresAlwaysAgree == Spec => []StoresAgree
  BY SafetyInvariance, PTL DEF SafetyInv

\* At most one call is in write_serialized.
THEOREM WritesAreSerialized ==
    Spec => [](\A v, w \in Writers :
                 pc[v] \in Serialized /\ pc[w] \in Serialized => v = w)
  <1>1. SafetyInv => \A v, w \in Writers :
                       pc[v] \in Serialized /\ pc[w] \in Serialized => v = w
    BY Alone DEF SafetyInv
  <1> QED
    BY <1>1, SafetyInvariance, PTL

-----------------------------------------------------------------------------
(***************************************************************************)
(* Part 2. What a call's result says about the stores.                     *)
(***************************************************************************)

\* The steps before the call's commit.
Early == {"idle", "queued", "layer", "actor", "precondition", "file", "truncated", "written"}

-----------------------------------------------------------------------------
(* The inductive invariant.                                                *)

\* A call has a result when it has ended, and no request before it is made.
ResultInv ==
    \A w \in Writers :
        /\ pc[w] \in {"finishing", "done"} <=> result[w] # "none"
        /\ pc[w] = "idle" => req[w] = None

\* A call makes one commit, at its step, and records one edit.
TraceInv ==
    \A w \in Writers :
        /\ pc[w] \in Early => CommitsOf(w) = {}
        /\ pc[w] = "committed" => CommitsOf(w) = {Len(commits)} /\ EditsOf(w) = {}

\* Every commit but the seed is a call's, of the page and the text it asked for.
AuthorInv ==
    /\ commits[1].write = None /\ commits[1].page = None
    /\ \A i \in 2..Len(commits) :
        LET w == commits[i].write
        IN /\ w \in Writers /\ req[w] \in Requests
           /\ commits[i].page = req[w].page
           /\ commits[i].tree[req[w].page] = req[w].content

\* The stopped process has no call under way, and a queued call a caller.
QuietInv ==
    /\ server \in {"stopped", "crashed"} => \A w \in Writers : pc[w] \in {"idle", "done"}
    /\ \A w \in Writers : pc[w] = "queued" => caller[w] = "waiting"

OutcomeInv == ResultInv /\ TraceInv /\ AuthorInv /\ QuietInv /\ OutcomeIsTruthful

\* The commits and the edits of a page, which the two recording steps extend.
CommitsAt(p) == {i \in 2..Len(commits) : commits[i].page = p}
EditsAt(p) == {i \in DOMAIN page_edits : page_edits[i].page = p}

-----------------------------------------------------------------------------
(* What the two recording steps do to the history.                         *)

\* The history is a nonempty sequence, and so are its indices.
LEMMA HistoryDomain ==
    ASSUME TypeInv
    PROVE  /\ Len(commits) \in Nat \ {0} /\ DOMAIN commits = 1..Len(commits)
           /\ Len(page_edits) \in Nat /\ DOMAIN page_edits = 1..Len(page_edits)
  BY LenProperties, EmptySeq DEF TypeInv, TypeOK

\* The commit adds itself to its call's commits and to its page's, and nothing else.
LEMMA CommitTraces ==
    ASSUME SafetyInv, NEW w \in Writers, CommitGit(w)
    PROVE  /\ page_edits' = page_edits
           /\ Len(commits) \in Nat \ {0} /\ Len(commits') = Len(commits) + 1
           /\ \A i \in 1..Len(commits) : commits'[i] = commits[i]
           /\ \A v \in Writers :
                /\ CommitsOf(v)' = IF v = w THEN CommitsOf(v) \cup {Len(commits) + 1}
                                            ELSE CommitsOf(v)
                /\ EditsOf(v)' = EditsOf(v)
           /\ \A p \in Pages :
                /\ CommitsAt(p)' = IF p = req[w].page THEN CommitsAt(p) \cup {Len(commits) + 1}
                                                      ELSE CommitsAt(p)
                /\ EditsAt(p)' = EditsAt(p)
           /\ \A i \in DOMAIN page_edits : EditText(i)' = EditText(i)
  <1> DEFINE n == Len(commits)
  <1>1. /\ n \in Nat \ {0} /\ DOMAIN commits = 1..n
        /\ Len(commits') = n + 1
    BY HistoryDomain, CommitExtends DEF SafetyInv
  <1>2. TypeInv'
    BY CommitType DEF SafetyInv
  <1>3. DOMAIN commits' = 1..(n + 1)
    BY <1>1, <1>2, LenProperties DEF TypeInv, TypeOK
  <1>4. /\ \A i \in 1..n : commits'[i] = commits[i]
        /\ commits'[n + 1].page = req[w].page
        /\ commits'[n + 1].write = w
    BY <1>1, CommitExtends DEF SafetyInv, HeadCommit
  <1>5. page_edits' = page_edits
    BY DEF CommitGit, tables
  <1>6. \A i \in DOMAIN page_edits : page_edits[i].git_commit \in DOMAIN commits
    BY DEF SafetyInv, EditsFollowGit
  <1>7. 1..(n + 1) = (1..n) \cup {n + 1} /\ n + 1 \notin 1..n
    BY <1>1
  <1>8. 2..(n + 1) = (2..n) \cup {n + 1} /\ n + 1 \notin 2..n /\ 2..n \subseteq 1..n
    BY <1>1
  <1> HIDE DEF n
  <1>9. ASSUME NEW v \in Writers
        PROVE  CommitsOf(v)' = IF v = w THEN CommitsOf(v) \cup {n + 1} ELSE CommitsOf(v)
    BY <1>1, <1>3, <1>4, <1>7 DEF CommitsOf
  <1>10. ASSUME NEW p \in Pages
         PROVE  CommitsAt(p)' = IF p = req[w].page THEN CommitsAt(p) \cup {n + 1}
                                                   ELSE CommitsAt(p)
    <2>1. CommitsAt(p)' = {i \in 2..(n + 1) : commits'[i].page = p}
      BY <1>1 DEF CommitsAt
    <2>2. CommitsAt(p) = {i \in 2..n : commits[i].page = p}
      BY DEF CommitsAt, n
    <2> QED
      BY <1>4, <1>8, <2>1, <2>2
  <1>11. \A i \in DOMAIN page_edits : EditText(i)' = EditText(i)
    BY <1>1, <1>4, <1>5, <1>6 DEF EditText
  <1>12. \A v \in Writers : EditsOf(v)' = EditsOf(v)
    BY <1>5 DEF EditsOf
  <1>13. \A p \in Pages : EditsAt(p)' = EditsAt(p)
    BY <1>5 DEF EditsAt
  <1> QED
    BY <1>1, <1>4, <1>5, <1>9, <1>10, <1>11, <1>12, <1>13 DEF n

\* The transaction adds its edit to its call's edits and to its page's.
LEMMA EditTraces ==
    ASSUME SafetyInv, NEW w \in Writers, ProjectTables(w),
           NEW n, n = Len(page_edits) + 1
    PROVE  /\ commits' = commits
           /\ n \in Nat \ {0} /\ DOMAIN page_edits = 1..(n - 1) /\ DOMAIN page_edits' = 1..n
           /\ \A i \in DOMAIN page_edits : page_edits'[i] = page_edits[i]
           /\ page_edits'[n].git_commit = Len(commits)
           /\ page_edits'[n].page = req[w].page /\ page_edits'[n].write = w
           /\ \A v \in Writers :
                /\ EditsOf(v)' = IF v = w THEN EditsOf(v) \cup {n} ELSE EditsOf(v)
                /\ CommitsOf(v)' = CommitsOf(v)
           /\ \A p \in Pages :
                /\ EditsAt(p)' = IF p = req[w].page THEN EditsAt(p) \cup {n} ELSE EditsAt(p)
                /\ CommitsAt(p)' = CommitsAt(p)
           /\ \A i \in DOMAIN page_edits : EditText(i)' = EditText(i)
           /\ EditText(n)' = req[w].content
  <1>1. commits' = commits
    BY DEF ProjectTables, content
  <1>2. commit_oid[w] = Len(commits) /\ HeadCommit.tree[req[w].page] = req[w].content
    BY DEF SafetyInv, CommittedInv, ProjectTables
  <1>3. /\ n \in Nat \ {0}
        /\ DOMAIN page_edits = 1..(n - 1)
        /\ DOMAIN page_edits' = 1..n
        /\ \A i \in 1..(n - 1) : page_edits'[i] = page_edits[i]
        /\ page_edits'[n] = [page |-> req[w].page, actor |-> req[w].actor,
                             git_commit |-> Len(commits), write |-> w]
    BY <1>2, EditExtends DEF SafetyInv
  <1>4. 1..n = (1..(n - 1)) \cup {n} /\ n \notin 1..(n - 1)
    BY <1>3
  <1>5. \A v \in Writers : EditsOf(v)' = IF v = w THEN EditsOf(v) \cup {n} ELSE EditsOf(v)
    BY <1>3, <1>4 DEF EditsOf
  <1>6. \A p \in Pages : EditsAt(p)' = IF p = req[w].page THEN EditsAt(p) \cup {n} ELSE EditsAt(p)
    BY <1>3, <1>4 DEF EditsAt
  <1>7. \A i \in DOMAIN page_edits : EditText(i)' = EditText(i)
    BY <1>1, <1>3 DEF EditText
  <1>8. EditText(n)' = req[w].content
    BY <1>1, <1>2, <1>3 DEF EditText, HeadCommit
  <1>9. /\ \A v \in Writers : CommitsOf(v)' = CommitsOf(v)
        /\ \A p \in Pages : CommitsAt(p)' = CommitsAt(p)
    BY <1>1 DEF CommitsOf, CommitsAt
  <1> QED
    BY <1>1, <1>3, <1>5, <1>6, <1>7, <1>8, <1>9

\* A step that records nothing leaves every call's and every page's record alone.
LEMMA NothingRecorded ==
    ASSUME UNCHANGED <<commits, page_edits>>
    PROVE  /\ \A v \in Writers : CommitsOf(v)' = CommitsOf(v) /\ EditsOf(v)' = EditsOf(v)
           /\ \A p \in Pages : CommitsAt(p)' = CommitsAt(p) /\ EditsAt(p)' = EditsAt(p)
           /\ \A i : EditText(i)' = EditText(i)
           /\ HeadCommit' = HeadCommit
  BY DEF CommitsOf, EditsOf, CommitsAt, EditsAt, EditText, HeadCommit

\* A call without a commit has recorded no edit.
LEMMA NoCommitNoEdit ==
    ASSUME SafetyInv, NEW w \in Writers, CommitsOf(w) = {}
    PROVE  EditsOf(w) = {}
  BY DEF SafetyInv, EditsFollowGit, CommitsOf, EditsOf

-----------------------------------------------------------------------------
(* What a call is told is what happened.                                   *)

\* The invariant holds before the first call.
LEMMA InitOutcome == Init => OutcomeInv
  <1> SUFFICES ASSUME Init PROVE OutcomeInv
    OBVIOUS
  <1>1. Len(commits) = 1 /\ DOMAIN commits = {1} /\ commits[1] = SeedCommit
    BY DEF Init
  <1>2. \A w \in Writers : CommitsOf(w) = {}
    BY <1>1, NoneIsApart DEF CommitsOf, SeedCommit
  <1> QED
    BY <1>1, <1>2 DEF Init, OutcomeInv, ResultInv, TraceInv, AuthorInv, QuietInv,
                      OutcomeIsTruthful, SeedCommit

\* A call that has no result yet has recorded no edit.
LEMMA PendingHasNoEdit ==
    ASSUME SafetyInv, OutcomeInv, NEW w \in Writers, result[w] = "none"
    PROVE  EditsOf(w) = {}
  <1>1. pc[w] \in Early \cup {"committed"}
    BY DEF SafetyInv, TypeInv, TypeOK, OutcomeInv, ResultInv, Steps, Early
  <1> QED
    BY <1>1, NoCommitNoEdit DEF OutcomeInv, TraceInv

\* How a step that records nothing may end a call.
EndsTruthfully(w) ==
    \/ result'[w] = result[w]
    \/ /\ result[w] = "none"
       /\ \/ result'[w] \in {"error", "lost"}
          \/ /\ result'[w] \in {"bad_request", "forbidden", "conflict", "cancelled"}
             /\ pc[w] \in Early

\* A step that records nothing keeps what the calls were told true, if it ends
\* only calls that have recorded nothing, as they are told.
LEMMA UnrecordedOutcome ==
    ASSUME SafetyInv, OutcomeInv, UNCHANGED <<commits, page_edits>>,
           \A w \in Writers : pc'[w] \in Early => pc[w] \in Early,
           \A w \in Writers : pc'[w] = "committed" => pc[w] = "committed",
           \A w \in Writers : pc[w] # "idle" => req'[w] = req[w],
           \A w \in Writers : EndsTruthfully(w)
    PROVE  TraceInv' /\ AuthorInv' /\ OutcomeIsTruthful'
  <1>1. \A v \in Writers : CommitsOf(v)' = CommitsOf(v) /\ EditsOf(v)' = EditsOf(v)
    BY NothingRecorded
  <1>2. \A i : EditText(i)' = EditText(i)
    BY NothingRecorded
  <1>3. \A v \in Writers : CommitsOf(v) # {} => pc[v] # "idle"
    BY DEF OutcomeInv, TraceInv, Early
  <1>4. TraceInv'
    BY <1>1 DEF OutcomeInv, TraceInv
  <1>5. AuthorInv'
    <2> SUFFICES ASSUME NEW i \in 2..Len(commits)
                 PROVE  req'[commits[i].write] = req[commits[i].write]
      BY DEF OutcomeInv, AuthorInv
    <2>1. commits[i].write \in Writers /\ i \in DOMAIN commits
      BY HistoryDomain DEF OutcomeInv, AuthorInv, SafetyInv
    <2> QED
      BY <1>3, <2>1 DEF CommitsOf
  <1>6. OutcomeIsTruthful'
    <2> SUFFICES ASSUME NEW w \in Writers
                 PROVE
                   /\ result'[w] \in {"bad_request", "forbidden", "conflict", "cancelled"} =>
                        CommitsOf(w) = {} /\ EditsOf(w) = {}
                   /\ result'[w] \in {"error", "lost"} => EditsOf(w) = {}
                   /\ result'[w] = "ok" =>
                        \E i \in DOMAIN page_edits :
                          /\ EditsOf(w) = {i}
                          /\ CommitsOf(w) = {page_edits[i].git_commit}
                          /\ EditText(i) = req'[w].content
      BY <1>1, <1>2 DEF OutcomeIsTruthful
    <2>1. CASE result'[w] = result[w]
      BY <2>1, <1>3 DEF OutcomeInv, OutcomeIsTruthful
    <2>2. CASE /\ result[w] = "none"
               /\ \/ result'[w] \in {"error", "lost"}
                  \/ /\ result'[w] \in {"bad_request", "forbidden", "conflict", "cancelled"}
                     /\ pc[w] \in Early
      BY <2>2, PendingHasNoEdit DEF OutcomeInv, TraceInv
    <2> QED
      BY <2>1, <2>2 DEF EndsTruthfully
  <1> QED
    BY <1>4, <1>5, <1>6

\* A call that arrives has neither recorded anything nor been told anything.
LEMMA SubmitOutcome ==
    ASSUME SafetyInv, OutcomeInv, NEW w \in Writers, NEW r \in Requests, Submit(w, r)
    PROVE  OutcomeInv'
  <1>1. ResultInv' /\ QuietInv'
    BY DEF Submit, SafetyInv, TypeInv, TypeOK, OutcomeInv, ResultInv, QuietInv
  <1>2. TraceInv' /\ AuthorInv' /\ OutcomeIsTruthful'
    BY UnrecordedOutcome DEF Submit, SafetyInv, TypeInv, TypeOK, Early, EndsTruthfully,
                             content, tables
  <1> QED
    BY <1>1, <1>2 DEF OutcomeInv

\* A call enters write_serialized before it records anything.
LEMMA AcceptOutcome ==
    ASSUME SafetyInv, OutcomeInv, NEW w \in Writers, Accept(w)
    PROVE  OutcomeInv'
  <1>1. ResultInv' /\ QuietInv'
    BY DEF Accept, SafetyInv, TypeInv, TypeOK, OutcomeInv, ResultInv, QuietInv
  <1>2. TraceInv' /\ AuthorInv' /\ OutcomeIsTruthful'
    BY UnrecordedOutcome DEF Accept, SafetyInv, TypeInv, TypeOK, Early, EndsTruthfully,
                             content, tables
  <1> QED
    BY <1>1, <1>2 DEF OutcomeInv

\* A call is cancelled only in the queue.
LEMMA DisconnectOutcome ==
    ASSUME SafetyInv, OutcomeInv, NEW w \in Writers, Disconnect(w)
    PROVE  OutcomeInv'
  <1>1. ResultInv' /\ QuietInv'
    BY DEF Disconnect, SafetyInv, TypeInv, TypeOK, OutcomeInv, ResultInv, QuietInv
  <1>2. \A v \in Writers : EndsTruthfully(v)
    BY DEF Disconnect, SafetyInv, TypeInv, TypeOK, OutcomeInv, ResultInv, Early, EndsTruthfully
  <1>3. TraceInv' /\ AuthorInv' /\ OutcomeIsTruthful'
    BY <1>2, UnrecordedOutcome DEF Disconnect, SafetyInv, TypeInv, TypeOK, Early,
                                   content, tables
  <1> QED
    BY <1>1, <1>3 DEF OutcomeInv

\* The checks refuse a call before it records anything.
LEMMA CheckOutcome ==
    ASSUME SafetyInv, OutcomeInv, NEW w \in Writers,
           CheckLayer(w) \/ CheckActor(w) \/ CheckPrecondition(w)
    PROVE  OutcomeInv'
  <1>1. ResultInv' /\ QuietInv'
    BY DEF CheckLayer, CheckActor, CheckPrecondition, Proceed, Reject,
           SafetyInv, TypeInv, TypeOK, OutcomeInv, ResultInv, QuietInv
  <1>2. \A v \in Writers : EndsTruthfully(v)
    BY DEF CheckLayer, CheckActor, CheckPrecondition, Proceed, Reject,
           SafetyInv, TypeInv, TypeOK, OutcomeInv, ResultInv, Early, EndsTruthfully
  <1>3. TraceInv' /\ AuthorInv' /\ OutcomeIsTruthful'
    BY <1>2, UnrecordedOutcome DEF CheckLayer, CheckActor, CheckPrecondition, Proceed, Reject,
                                   SafetyInv, TypeInv, TypeOK, Early, content, tables
  <1> QED
    BY <1>1, <1>3 DEF OutcomeInv

\* The page's file is no record of a call, and giving the lock back is none.
LEMMA FileOutcome ==
    ASSUME SafetyInv, OutcomeInv, NEW w \in Writers,
           TruncateFile(w) \/ WriteFile(w) \/ Finish(w)
    PROVE  OutcomeInv'
  <1>1. ResultInv' /\ QuietInv'
    BY DEF TruncateFile, WriteFile, Finish,
           SafetyInv, TypeInv, TypeOK, OutcomeInv, ResultInv, QuietInv
  <1>2. TraceInv' /\ AuthorInv' /\ OutcomeIsTruthful'
    BY UnrecordedOutcome DEF TruncateFile, WriteFile, Finish, SafetyInv, TypeInv, TypeOK,
                             Early, EndsTruthfully, content, tables
  <1> QED
    BY <1>1, <1>2 DEF OutcomeInv

\* A call that fails on storage fails before its transaction.
LEMMA StorageErrorOutcome ==
    ASSUME SafetyInv, OutcomeInv, NEW w \in Writers, StorageError(w)
    PROVE  OutcomeInv'
  <1>1. ResultInv' /\ QuietInv'
    BY StepKinds DEF StorageError, Reject, SafetyInv, TypeInv, TypeOK,
                     OutcomeInv, ResultInv, QuietInv
  <1>2. \A v \in Writers : EndsTruthfully(v)
    BY StepKinds DEF StorageError, Reject, SafetyInv, TypeInv, TypeOK,
                     OutcomeInv, ResultInv, EndsTruthfully
  <1>3. TraceInv' /\ AuthorInv' /\ OutcomeIsTruthful'
    BY <1>2, UnrecordedOutcome DEF StorageError, Reject, SafetyInv, TypeInv, TypeOK, Early,
                                   content, tables
  <1> QED
    BY <1>1, <1>3 DEF OutcomeInv

\* A crash loses the calls that have no result, and no others.
LEMMA CrashOutcome ==
    ASSUME SafetyInv, OutcomeInv, Crash
    PROVE  OutcomeInv'
  <1>1. ResultInv' /\ QuietInv'
    BY DEF Crash, SafetyInv, TypeInv, TypeOK, OutcomeInv, ResultInv, QuietInv
  <1>2. TraceInv' /\ AuthorInv' /\ OutcomeIsTruthful'
    BY UnrecordedOutcome DEF Crash, SafetyInv, TypeInv, TypeOK, Early, EndsTruthfully,
                             content, tables
  <1> QED
    BY <1>1, <1>2 DEF OutcomeInv

\* The process stops only when no call is under way.
LEMMA OtherOutcome ==
    ASSUME SafetyInv, OutcomeInv, UNCHANGED <<calls, content, tables>>,
           server' = server \/ Restart \/ Shutdown \/ Stop
    PROVE  OutcomeInv'
  <1>1. ResultInv'
    BY DEF OutcomeInv, ResultInv, calls
  <1>2. ASSUME Stop
        PROVE  \A w \in Writers : pc[w] \in {"idle", "done"}
    <2>1. \A w \in Writers : pc[w] \notin Serialized /\ pc[w] # "queued"
      BY <1>2, NoneIsApart DEF Stop, SafetyInv, LockInv, OutcomeInv, QuietInv
    <2> QED
      BY <2>1, StepKinds DEF SafetyInv, TypeInv, TypeOK, Steps
  <1>3. QuietInv'
    BY <1>2 DEF OutcomeInv, QuietInv, calls, Restart, Shutdown
  <1>4. TraceInv' /\ AuthorInv' /\ OutcomeIsTruthful'
    BY UnrecordedOutcome DEF EndsTruthfully, calls, content, tables
  <1> QED
    BY <1>1, <1>3, <1>4 DEF OutcomeInv

\* A call commits once, before it has a result.
LEMMA CommitOutcome ==
    ASSUME SafetyInv, OutcomeInv, NEW w \in Writers, CommitGit(w)
    PROVE  OutcomeInv'
  <1> DEFINE n == Len(commits)
  <1>1. /\ page_edits' = page_edits
        /\ n \in Nat \ {0} /\ Len(commits') = n + 1
        /\ \A i \in 1..n : commits'[i] = commits[i]
        /\ \A v \in Writers :
             /\ CommitsOf(v)' = IF v = w THEN CommitsOf(v) \cup {n + 1} ELSE CommitsOf(v)
             /\ EditsOf(v)' = EditsOf(v)
        /\ \A i \in DOMAIN page_edits : EditText(i)' = EditText(i)
    BY CommitTraces
  <1>2. /\ pc[w] = "written" /\ pc' = [pc EXCEPT ![w] = "committed"]
        /\ UNCHANGED <<server, req, caller, result>>
        /\ result[w] = "none"
    BY DEF CommitGit, SafetyInv, TypeInv, TypeOK, OutcomeInv, ResultInv
  <1>3. ResultInv' /\ QuietInv'
    BY <1>2 DEF SafetyInv, TypeInv, TypeOK, OutcomeInv, ResultInv, QuietInv
  <1>4. CommitsOf(w) = {} /\ EditsOf(w) = {}
    BY <1>2, PendingHasNoEdit DEF OutcomeInv, TraceInv, Early
  <1>5. \A v \in Writers \ {w} : pc[v] # "committed"
    BY <1>2, Alone, StepKinds DEF SafetyInv
  <1>6. TraceInv'
    BY <1>1, <1>2, <1>4, <1>5 DEF SafetyInv, TypeInv, TypeOK, OutcomeInv, TraceInv, Early
  <1>7. /\ commits'[n + 1].page = req[w].page
        /\ commits'[n + 1].write = w
        /\ commits'[n + 1].tree = [HeadCommit.tree EXCEPT ![req[w].page] = req[w].content]
    BY <1>1, CommitExtends DEF SafetyInv, HeadCommit
  <1>8. req[w] \in Requests /\ req[w].page \in Pages
    BY <1>2, RequestFields DEF SafetyInv, TypeInv, CallsHaveRequests
  <1>9. HeadCommit.tree \in [Pages -> Contents \cup {None}]
    BY HeadIsCommit DEF SafetyInv, TypeInv, TypeOK, Commit
  <1>10. AuthorInv'
    <2>1. commits'[1] = commits[1]
      BY <1>1
    <2>2. ASSUME NEW i \in 2..(n + 1)
          PROVE  /\ commits'[i].write \in Writers /\ req[commits'[i].write] \in Requests
                 /\ commits'[i].page = req[commits'[i].write].page
                 /\ commits'[i].tree[req[commits'[i].write].page]
                      = req[commits'[i].write].content
      <3>1. CASE i = n + 1
        BY <3>1, <1>7, <1>8, <1>9
      <3>2. CASE i # n + 1
        <4>1. i \in 2..n /\ commits'[i] = commits[i]
          BY <3>2, <1>1
        <4> QED
          BY <4>1 DEF OutcomeInv, AuthorInv
      <3> QED
        BY <3>1, <3>2
    <2> QED
      BY <1>1, <1>2, <2>1, <2>2 DEF OutcomeInv, AuthorInv
  <1>11. OutcomeIsTruthful'
    <2> SUFFICES ASSUME NEW v \in Writers, result[v] # "none"
                 PROVE  CommitsOf(v)' = CommitsOf(v) /\ EditsOf(v)' = EditsOf(v)
      BY <1>1, <1>2 DEF OutcomeInv, OutcomeIsTruthful
    <2> QED
      BY <1>1, <1>2
  <1> QED
    BY <1>3, <1>6, <1>10, <1>11 DEF OutcomeInv

\* A call succeeds with its one edit, which cites its one commit.
LEMMA ProjectOutcome ==
    ASSUME SafetyInv, OutcomeInv, NEW w \in Writers, ProjectTables(w)
    PROVE  OutcomeInv'
  <1>0. PICK n : n = Len(page_edits) + 1
    OBVIOUS
  <1>1. /\ commits' = commits
        /\ n \in DOMAIN page_edits'
        /\ DOMAIN page_edits \subseteq DOMAIN page_edits'
        /\ \A i \in DOMAIN page_edits : page_edits'[i] = page_edits[i]
        /\ page_edits'[n].git_commit = Len(commits)
        /\ \A v \in Writers :
             /\ EditsOf(v)' = IF v = w THEN EditsOf(v) \cup {n} ELSE EditsOf(v)
             /\ CommitsOf(v)' = CommitsOf(v)
        /\ \A i \in DOMAIN page_edits : EditText(i)' = EditText(i)
        /\ EditText(n)' = req[w].content
    <2>1. /\ n \in Nat \ {0} /\ DOMAIN page_edits = 1..(n - 1) /\ DOMAIN page_edits' = 1..n
      BY <1>0, EditTraces
    <2>2. n \in DOMAIN page_edits' /\ DOMAIN page_edits \subseteq DOMAIN page_edits'
      BY <2>1
    <2> QED
      BY <1>0, <2>2, EditTraces
  <1>3. /\ pc[w] = "committed" /\ pc' = [pc EXCEPT ![w] = "finishing"]
        /\ result' = [result EXCEPT ![w] = "ok"]
        /\ UNCHANGED <<server, req, caller>>
    BY DEF ProjectTables
  <1>4. ResultInv' /\ QuietInv'
    BY <1>3 DEF SafetyInv, TypeInv, TypeOK, OutcomeInv, ResultInv, QuietInv
  <1>5. CommitsOf(w) = {Len(commits)} /\ EditsOf(w) = {}
    BY <1>3 DEF OutcomeInv, TraceInv
  <1>6. TraceInv'
    <2>1. \A v \in Writers \ {w} : pc'[v] = pc[v] /\ EditsOf(v)' = EditsOf(v)
      BY <1>1, <1>3 DEF SafetyInv, TypeInv, TypeOK
    <2>2. pc'[w] = "finishing"
      BY <1>3 DEF SafetyInv, TypeInv, TypeOK
    <2> QED
      BY <1>1, <2>1, <2>2 DEF OutcomeInv, TraceInv, Early
  <1>7. AuthorInv'
    BY <1>1, <1>3 DEF OutcomeInv, AuthorInv
  <1>8. OutcomeIsTruthful'
    <2> SUFFICES ASSUME NEW v \in Writers
                 PROVE
                   /\ result'[v] \in {"bad_request", "forbidden", "conflict", "cancelled"} =>
                        CommitsOf(v)' = {} /\ EditsOf(v)' = {}
                   /\ result'[v] \in {"error", "lost"} => EditsOf(v)' = {}
                   /\ result'[v] = "ok" =>
                        \E i \in DOMAIN page_edits' :
                          /\ EditsOf(v)' = {i}
                          /\ CommitsOf(v)' = {page_edits'[i].git_commit}
                          /\ EditText(i)' = req[v].content
      BY <1>3 DEF OutcomeIsTruthful
    <2>1. CASE v = w
      <3>1. EditsOf(w)' = {n} /\ CommitsOf(w)' = {page_edits'[n].git_commit}
        BY <1>1, <1>5
      <3>2. result'[w] = "ok"
        BY <1>3 DEF SafetyInv, TypeInv, TypeOK
      <3> QED
        BY <2>1, <3>1, <3>2, <1>1
    <2>2. CASE v # w
      <3>1. /\ result'[v] = result[v]
            /\ EditsOf(v)' = EditsOf(v) /\ CommitsOf(v)' = CommitsOf(v)
        BY <1>1, <1>3, <2>2 DEF SafetyInv, TypeInv, TypeOK
      <3> QED
        BY <3>1, <1>1 DEF OutcomeInv, OutcomeIsTruthful
    <2> QED
      BY <2>1, <2>2
  <1> QED
    BY <1>4, <1>6, <1>7, <1>8 DEF OutcomeInv

\* Every step of the system keeps what the calls were told true.
LEMMA NextOutcome == SafetyInv /\ OutcomeInv /\ [Next]_vars => OutcomeInv'
  <1> SUFFICES ASSUME SafetyInv, OutcomeInv, [Next]_vars PROVE OutcomeInv'
    OBVIOUS
  <1>1. CASE UNCHANGED vars
    BY <1>1, OtherOutcome DEF vars
  <1>2. CASE \E w \in Writers, r \in Requests : Submit(w, r)
    BY <1>2, SubmitOutcome
  <1>3. ASSUME NEW w \in Writers, Pipeline(w)
        PROVE  OutcomeInv'
    BY <1>3, CheckOutcome, FileOutcome, CommitOutcome, ProjectOutcome DEF Pipeline
  <1>4. ASSUME NEW w \in Writers, Accept(w) \/ Disconnect(w) \/ StorageError(w)
        PROVE  OutcomeInv'
    BY <1>4, AcceptOutcome, DisconnectOutcome, StorageErrorOutcome
  <1>5. CASE Crash
    BY <1>5, CrashOutcome
  <1>6. CASE Restart \/ Shutdown \/ Stop
    BY <1>6, OtherOutcome DEF Restart, Shutdown, Stop
  <1>7. CASE (\E a \in Suspendable : SuspendActor(a)) \/ (\E l \in Retirable : RetireLayer(l))
    BY <1>7, OtherOutcome DEF SuspendActor, RetireLayer
  <1> QED
    BY <1>1, <1>2, <1>3, <1>4, <1>5, <1>6, <1>7 DEF Next, System

\* The traces a call leaves match the step it is at and the result it has.
THEOREM OutcomeInvariance == Spec => [](SafetyInv /\ OutcomeInv)
  BY InitSafety, NextSafety, InitOutcome, NextOutcome, PTL DEF Spec

\* A refused call left nothing, a failed one nothing in the tables, and one
\* that succeeded is in Git and in the tables exactly once.
THEOREM OutcomeIsAlwaysTruthful == Spec => []OutcomeIsTruthful
  BY OutcomeInvariance, PTL DEF OutcomeInv

\* When the drained process has stopped, no call is under way, and a commit
\* without an edit belongs to a call that was told of an error.
THEOREM StopIsAlwaysClean == Spec => []StopIsClean
  <1>1. SafetyInv /\ OutcomeInv => StopIsClean
    <2> SUFFICES ASSUME SafetyInv, OutcomeInv, server = "stopped",
                        NEW i \in 2..Len(commits), EditsOf(commits[i].write) = {}
                 PROVE  result[commits[i].write] \in {"error", "lost"}
      BY DEF StopIsClean, OutcomeInv, QuietInv
    <2> DEFINE w == commits[i].write
    <2>1. w \in Writers /\ i \in CommitsOf(w)
      BY HistoryDomain DEF SafetyInv, OutcomeInv, AuthorInv, CommitsOf
    <2>2. pc[w] = "done"
      BY <2>1 DEF OutcomeInv, QuietInv, TraceInv, Early
    <2>3. result[w] # "none" /\ result[w] # "ok"
      BY <2>1, <2>2 DEF OutcomeInv, ResultInv, OutcomeIsTruthful
    <2>4. result[w] \notin {"bad_request", "forbidden", "conflict", "cancelled"}
      BY <2>1 DEF OutcomeInv, OutcomeIsTruthful
    <2> QED
      BY <2>1, <2>3, <2>4 DEF SafetyInv, TypeInv, TypeOK, Results
  <1> QED
    BY <1>1, OutcomeInvariance, PTL

-----------------------------------------------------------------------------
(***************************************************************************)
(* Part 3. What the condition of a write means: for the text it replaces,  *)
(* for the order of a page's edits, and for a reader of the tables, to     *)
(* whom a write happens in one instant (the refinement of AtomicWiki).     *)
(* Last, what the checks behind the lock mean for a suspended actor.       *)
(***************************************************************************)

-----------------------------------------------------------------------------
(* The inductive invariant.                                                *)

\* The steps past the condition's check, up to the transaction.
Conditioned == {"file", "truncated", "written", "committed"}

\* A page's blob at HEAD is that of the page's newest commit.
HeadInv ==
    \A p \in Pages :
        \/ CommitsAt(p) = {} /\ HeadCommit.tree[p] = None
        \/ \E i \in CommitsAt(p) :
            /\ \A j \in CommitsAt(p) : j =< i
            /\ HeadCommit.tree[p] = commits[i].tree[p]

\* A page's row is that of the page's newest edit.
RowInv ==
    \A p \in Pages :
        \/ EditsAt(p) = {} /\ pages[p] = IF p \in Imported THEN UnrecordedRow ELSE NoRow
        \/ \E i \in EditsAt(p) :
            /\ \A j \in EditsAt(p) : j =< i
            /\ pages[p].present /\ pages[p].content_hash = ContentHash[EditText(i)]

\* Past its check, a call's condition holds until its transaction.
ConditionInv ==
    \A w \in Writers : pc[w] \in Conditioned => Allows(req[w].pre, pages[req[w].page])

ChainInv ==
    HeadInv /\ RowInv /\ ConditionInv /\ ConditionsChain /\ NoUnseenChangeErased

-----------------------------------------------------------------------------
(* Facts about the history.                                                *)

\* A commit, and an edit, is that of a call that has been made; an edit cites
\* a commit of its page behind the seed.
LEMMA HistoryHasCalls ==
    ASSUME SafetyInv, OutcomeInv
    PROVE  /\ \A i \in 2..Len(commits) :
                /\ commits[i].write \in Writers /\ pc[commits[i].write] # "idle"
                /\ commits[i].page \in Pages
                /\ commits[i].tree[commits[i].page] \in Contents
           /\ \A k \in DOMAIN page_edits :
                /\ page_edits[k].write \in Writers /\ pc[page_edits[k].write] # "idle"
                /\ page_edits[k].git_commit \in CommitsAt(page_edits[k].page)
                /\ page_edits[k].page \in Pages
  <1>1. /\ Len(commits) \in Nat \ {0} /\ DOMAIN commits = 1..Len(commits)
    BY HistoryDomain DEF SafetyInv
  <1>2. ASSUME NEW i \in 2..Len(commits)
        PROVE  /\ commits[i].write \in Writers /\ pc[commits[i].write] # "idle"
               /\ commits[i].page \in Pages
               /\ commits[i].tree[commits[i].page] \in Contents
    <2>1. /\ commits[i].write \in Writers /\ req[commits[i].write] \in Requests
          /\ commits[i].page = req[commits[i].write].page
          /\ commits[i].tree[commits[i].page] = req[commits[i].write].content
      BY DEF OutcomeInv, AuthorInv
    <2>2. i \in CommitsOf(commits[i].write)
      BY <1>1 DEF CommitsOf
    <2>3. pc[commits[i].write] # "idle"
      BY <2>1, <2>2 DEF OutcomeInv, TraceInv, Early
    <2> QED
      BY <2>1, <2>3, RequestFields
  <1>3. ASSUME NEW k \in DOMAIN page_edits
        PROVE  /\ page_edits[k].write \in Writers /\ pc[page_edits[k].write] # "idle"
               /\ page_edits[k].git_commit \in CommitsAt(page_edits[k].page)
               /\ page_edits[k].page \in Pages
    <2> DEFINE c == page_edits[k].git_commit
    <2>1. /\ c \in DOMAIN commits
          /\ commits[c].page = page_edits[k].page /\ commits[c].write = page_edits[k].write
      BY DEF SafetyInv, EditsFollowGit
    <2>2. page_edits[k].page \in Pages
      <3>1. page_edits[k] \in Edit
        BY HistoryDomain, ElementOfSeq DEF SafetyInv, TypeInv, TypeOK
      <3> QED
        BY <3>1 DEF Edit
    <2>3. c # 1
      BY <2>1, <2>2, NoneIsNoValue DEF OutcomeInv, AuthorInv
    <2>4. c \in 2..Len(commits)
      BY <1>1, <2>1, <2>3
    <2> QED
      BY <1>2, <2>1, <2>2, <2>4 DEF CommitsAt
  <1> QED
    BY <1>2, <1>3

\* The hypothesis of NoUnseenChangeErased: SQLite has recorded the newest commit
\* of the page before commit i.
PredecessorsRecorded(i) ==
    \A j \in 2..(i - 1) :
        commits[j].page = commits[i].page =>
            \/ \E k \in DOMAIN page_edits : page_edits[k].git_commit = j
            \/ \E l \in (j + 1)..(i - 1) : commits[l].page = commits[i].page

\* NoUnseenChangeErased in those words.
LEMMA ErasureByPredecessors ==
    NoUnseenChangeErased <=>
        \A i \in 2..Len(commits) : PredecessorsRecorded(i) => ErasesWhatItNames(i)
  BY DEF NoUnseenChangeErased, PredecessorsRecorded

\* The edits before an edit are those of the record.
LEMMA EarlierAreEdits ==
    ASSUME TypeInv, NEW i \in DOMAIN page_edits
    PROVE  EarlierEdits(i) \subseteq DOMAIN page_edits
  BY HistoryDomain DEF EarlierEdits

-----------------------------------------------------------------------------
(* The steps.                                                              *)

\* The invariant holds before the first call.
LEMMA InitChain == Init => ChainInv
  <1> SUFFICES ASSUME Init PROVE ChainInv
    OBVIOUS
  <1>1. Len(commits) = 1 /\ commits[1] = SeedCommit /\ page_edits = <<>>
    BY DEF Init
  <1>2. HeadInv
    BY <1>1 DEF HeadInv, HeadCommit, CommitsAt, SeedCommit
  <1>3. RowInv
    BY <1>1 DEF RowInv, EditsAt, Init
  <1>4. ConditionInv
    BY DEF ConditionInv, Init, Conditioned
  <1>5. ConditionsChain /\ NoUnseenChangeErased
    BY <1>1 DEF ConditionsChain, NoUnseenChangeErased
  <1> QED
    BY <1>2, <1>3, <1>4, <1>5 DEF ChainInv

\* A step that writes neither history nor rows keeps what they say of each other.
LEMMA UnrecordedChain ==
    ASSUME SafetyInv, OutcomeInv, ChainInv, UNCHANGED <<commits, page_edits, pages>>,
           \A w \in Writers : pc[w] # "idle" => req'[w] = req[w]
    PROVE  HeadInv' /\ RowInv' /\ ConditionsChain' /\ NoUnseenChangeErased'
  <1>1. HeadInv'
    BY DEF ChainInv, HeadInv, HeadCommit, CommitsAt
  <1>2. RowInv'
    BY DEF ChainInv, RowInv, EditsAt, EditText
  <1>3. \A k \in DOMAIN page_edits : req'[page_edits[k].write] = req[page_edits[k].write]
    BY HistoryHasCalls
  <1>4. ConditionsChain'
    BY <1>3 DEF ChainInv, ConditionsChain, EarlierEdits, EditText
  <1>5. \A i \in 2..Len(commits) : req'[commits[i].write] = req[commits[i].write]
    BY HistoryHasCalls
  <1>6. NoUnseenChangeErased'
    BY <1>5 DEF ChainInv, NoUnseenChangeErased, ErasesWhatItNames
  <1> QED
    BY <1>1, <1>2, <1>4, <1>6

\* A call's condition stays true, because only the holder of the lock writes
\* rows, and is true to begin with.
LEMMA NextCondition ==
    ASSUME SafetyInv, ConditionInv, [Next]_vars
    PROVE  ConditionInv'
  <1> SUFFICES ASSUME NEW v \in Writers, pc'[v] \in Conditioned
               PROVE  Allows(req'[v].pre, pages'[req'[v].page])
    BY DEF ConditionInv
  <1> USE DEF SafetyInv, TypeInv, TypeOK, Conditioned, ConditionInv
  <1>1. CASE UNCHANGED vars
    BY <1>1 DEF vars, calls, tables
  <1>2. ASSUME NEW w \in Writers, NEW r \in Requests, Submit(w, r)
        PROVE  Allows(req'[v].pre, pages'[req'[v].page])
    BY <1>2 DEF Submit, tables
  <1>3. ASSUME NEW w \in Writers, Accept(w) \/ Disconnect(w) \/ Finish(w) \/ StorageError(w)
        PROVE  Allows(req'[v].pre, pages'[req'[v].page])
    BY <1>3 DEF Accept, Disconnect, Finish, StorageError, Reject, tables
  <1>4. ASSUME NEW w \in Writers, CheckLayer(w) \/ CheckActor(w) \/ CheckPrecondition(w)
        PROVE  Allows(req'[v].pre, pages'[req'[v].page])
    BY <1>4 DEF CheckLayer, CheckActor, CheckPrecondition, Proceed, Reject, tables
  <1>5. ASSUME NEW w \in Writers, TruncateFile(w) \/ WriteFile(w) \/ CommitGit(w)
        PROVE  Allows(req'[v].pre, pages'[req'[v].page])
    BY <1>5 DEF TruncateFile, WriteFile, CommitGit, tables
  <1>6. ASSUME NEW w \in Writers, ProjectTables(w)
        PROVE  FALSE
    <2>1. pc[w] = "committed" /\ pc' = [pc EXCEPT ![w] = "finishing"]
      BY <1>6 DEF ProjectTables
    <2>2. v # w /\ pc[v] \in Conditioned
      BY <2>1
    <2> QED
      BY <2>1, <2>2, Alone, StepKinds
  <1>7. CASE Crash
    BY <1>7 DEF Crash
  <1>8. CASE Restart \/ Shutdown \/ Stop
    BY <1>8 DEF Restart, Shutdown, Stop, calls, tables
  <1>9. CASE (\E a \in Suspendable : SuspendActor(a)) \/ (\E l \in Retirable : RetireLayer(l))
    BY <1>9 DEF SuspendActor, RetireLayer, calls, tables
  <1> QED
    BY <1>1, <1>2, <1>3, <1>4, <1>5, <1>6, <1>7, <1>8, <1>9 DEF Next, System, Pipeline

\* The transaction makes its page's row that of its page's newest edit.
LEMMA ProjectRow ==
    ASSUME SafetyInv, OutcomeInv, ChainInv, NEW w \in Writers, ProjectTables(w)
    PROVE  HeadInv' /\ RowInv'
  <1>0. PICK n : n = Len(page_edits) + 1
    OBVIOUS
  <1>1. /\ commits' = commits
        /\ n \in Nat \ {0} /\ DOMAIN page_edits = 1..(n - 1)
        /\ \A p \in Pages :
             EditsAt(p)' = IF p = req[w].page THEN EditsAt(p) \cup {n} ELSE EditsAt(p)
        /\ \A i \in DOMAIN page_edits : EditText(i)' = EditText(i)
        /\ EditText(n)' = req[w].content
    BY <1>0, EditTraces
  <1>2. HeadInv'
    BY <1>1 DEF ChainInv, HeadInv, HeadCommit, CommitsAt
  <1>3. req[w] \in Requests /\ req[w].page \in Pages
    BY RequestFields DEF ProjectTables, SafetyInv, TypeInv, CallsHaveRequests
  <1>4. RowInv'
    <2> SUFFICES ASSUME NEW p \in Pages
                 PROVE
                   \/ EditsAt(p)' = {} /\ pages'[p] = IF p \in Imported THEN UnrecordedRow ELSE NoRow
                   \/ \E i \in EditsAt(p)' :
                        /\ \A j \in EditsAt(p)' : j =< i
                        /\ pages'[p].present
                        /\ pages'[p].content_hash = ContentHash[EditText(i)']
      BY DEF RowInv
    <2>1. CASE p = req[w].page
      <3>1. pages'[p] = Written(req[w])
        BY <2>1, <1>3 DEF ProjectTables, SafetyInv, TypeInv, TypeOK
      <3>2. EditsAt(p)' = EditsAt(p) \cup {n} /\ EditsAt(p) \subseteq 1..(n - 1)
        BY <2>1, <1>1 DEF EditsAt
      <3>3. \A j \in EditsAt(p)' : j =< n
        BY <3>2, <1>1
      <3>4. pages'[p].present /\ pages'[p].content_hash = ContentHash[EditText(n)']
        BY <3>1, <1>1 DEF Written
      <3> QED
        BY <3>2, <3>3, <3>4
    <2>2. CASE p # req[w].page
      <3>1. pages'[p] = pages[p]
        BY <2>2 DEF ProjectTables, SafetyInv, TypeInv, TypeOK
      <3>2. EditsAt(p)' = EditsAt(p) /\ EditsAt(p) \subseteq DOMAIN page_edits
        BY <2>2, <1>1 DEF EditsAt
      <3> QED
        BY <3>1, <3>2, <1>1 DEF ChainInv, RowInv
    <2> QED
      BY <2>1, <2>2
  <1> QED
    BY <1>2, <1>4

\* The edit the transaction records follows the one its call's condition names:
\* the condition held on the row, and the row is that of the newest edit.
LEMMA ProjectChain ==
    ASSUME SafetyInv, OutcomeInv, ChainInv, NEW w \in Writers, ProjectTables(w)
    PROVE  ConditionsChain'
  <1>0. PICK n : n = Len(page_edits) + 1
    OBVIOUS
  <1>1. /\ n \in Nat \ {0} /\ DOMAIN page_edits = 1..(n - 1) /\ DOMAIN page_edits' = 1..n
        /\ \A i \in DOMAIN page_edits : page_edits'[i] = page_edits[i]
        /\ page_edits'[n].page = req[w].page /\ page_edits'[n].write = w
        /\ \A i \in DOMAIN page_edits : EditText(i)' = EditText(i)
    BY <1>0, EditTraces
  <1>2. req' = req
    BY DEF ProjectTables
  <1> SUFFICES ASSUME NEW i \in DOMAIN page_edits'
               PROVE  LET e == page_edits'[i]
                          pre == req[e.write].pre
                          last == {j \in EarlierEdits(i)' : \A k \in EarlierEdits(i)' : k =< j}
                      IN /\ pre.kind = "Revision" =>
                              \E j \in last : ContentHash[EditText(j)'] = pre.rev
                         /\ pre.kind = "Absent" => last = {} /\ e.page \notin Imported
                         /\ pre.kind = "Exists" => last # {} \/ e.page \in Imported
    BY <1>2 DEF ConditionsChain
  <1>3. CASE i \in DOMAIN page_edits
    <2>1. page_edits'[i] = page_edits[i]
      BY <1>1, <1>3
    <2>2. 1..(i - 1) \subseteq DOMAIN page_edits
      BY <1>1, <1>3
    <2>3. EarlierEdits(i)' = EarlierEdits(i) /\ EarlierEdits(i) \subseteq DOMAIN page_edits
      BY <1>1, <2>1, <2>2 DEF EarlierEdits
    <2>4. \A j \in EarlierEdits(i) : EditText(j)' = EditText(j)
      BY <1>1, <2>3
    <2> QED
      BY <1>3, <2>1, <2>3, <2>4 DEF ChainInv, ConditionsChain
  <1>4. CASE i = n
    <2> DEFINE p == req[w].page
               pre == req[w].pre
    <2>1. req[w] \in Requests /\ p \in Pages /\ pre \in Preconditions
      BY RequestFields DEF ProjectTables, SafetyInv, TypeInv, CallsHaveRequests
    <2>2. page_edits'[i].page = p /\ page_edits'[i].write = w
      BY <1>1, <1>4
    <2>3. EarlierEdits(i)' = EditsAt(p) /\ EditsAt(p) \subseteq DOMAIN page_edits
      BY <1>1, <1>4, <2>2 DEF EarlierEdits, EditsAt
    <2>4. Allows(pre, pages[p])
      BY DEF ProjectTables, ChainInv, ConditionInv, Conditioned
    <2>5. CASE EditsAt(p) = {} /\ pages[p] = IF p \in Imported THEN UnrecordedRow ELSE NoRow
      <3>1. pages[p].content_hash = None /\ (pages[p].present <=> p \in Imported)
        BY <2>5 DEF UnrecordedRow, NoRow
      <3>2. pre.kind = "Revision" => pre.rev # None
        BY <2>1, NoneIsNoValue DEF Preconditions
      <3> QED
        BY <2>2, <2>3, <2>4, <2>5, <3>1, <3>2 DEF Allows
    <2>6. ASSUME NEW m \in EditsAt(p), \A j \in EditsAt(p) : j =< m,
                 pages[p].present, pages[p].content_hash = ContentHash[EditText(m)]
          PROVE  LET last == {j \in EditsAt(p) : \A k \in EditsAt(p) : k =< j}
                 IN /\ pre.kind = "Revision" =>
                         \E j \in last : ContentHash[EditText(j)'] = pre.rev
                    /\ pre.kind = "Absent" => last = {} /\ p \notin Imported
                    /\ pre.kind = "Exists" => last # {} \/ p \in Imported
      <3>1. EditText(m)' = EditText(m)
        BY <1>1, <2>3
      <3>2. m \in {j \in EditsAt(p) : \A k \in EditsAt(p) : k =< j}
        BY <2>6
      <3> QED
        BY <2>4, <2>6, <3>1, <3>2 DEF Allows
    <2> QED
      BY <2>1, <2>2, <2>3, <2>5, <2>6 DEF ChainInv, RowInv
  <1> QED
    BY <1>1, <1>3, <1>4

\* The edit the transaction records cites the newest commit: no commit before
\* that one becomes recorded by it.
LEMMA ProjectErasure ==
    ASSUME SafetyInv, OutcomeInv, ChainInv, NEW w \in Writers, ProjectTables(w)
    PROVE  NoUnseenChangeErased'
  <1>0. PICK n : n = Len(page_edits) + 1
    OBVIOUS
  <1>1. /\ commits' = commits
        /\ n \in Nat \ {0} /\ DOMAIN page_edits = 1..(n - 1) /\ DOMAIN page_edits' = 1..n
        /\ \A i \in DOMAIN page_edits : page_edits'[i] = page_edits[i]
        /\ page_edits'[n].git_commit = Len(commits)
    BY <1>0, EditTraces
  <1>2. req' = req /\ Len(commits) \in Nat
    BY HistoryDomain DEF ProjectTables, SafetyInv
  <1>3. ASSUME NEW i \in 2..Len(commits), NEW j \in 2..(i - 1),
               NEW k \in DOMAIN page_edits', page_edits'[k].git_commit = j
        PROVE  k \in DOMAIN page_edits /\ page_edits[k].git_commit = j
    <2>1. k # n
      BY <1>1, <1>2, <1>3
    <2> QED
      BY <1>1, <1>3, <2>1
  <1>4. \A i \in 2..Len(commits) : ErasesWhatItNames(i) => ErasesWhatItNames(i)'
    BY <1>1, <1>2 DEF ErasesWhatItNames
  <1> SUFFICES ASSUME NEW i \in 2..Len(commits), PredecessorsRecorded(i)'
               PROVE  PredecessorsRecorded(i)
    BY <1>1, <1>4, ErasureByPredecessors DEF ChainInv, NoUnseenChangeErased, PredecessorsRecorded
  <1> QED
    BY <1>1, <1>3 DEF PredecessorsRecorded


\* The commit makes its page's blob that of its page's newest commit.
LEMMA CommitHead ==
    ASSUME SafetyInv, OutcomeInv, ChainInv, NEW w \in Writers, CommitGit(w)
    PROVE  HeadInv' /\ RowInv' /\ ConditionsChain'
  <1> DEFINE n == Len(commits)
  <1>1. /\ page_edits' = page_edits
        /\ n \in Nat \ {0} /\ Len(commits') = n + 1
        /\ \A i \in 1..n : commits'[i] = commits[i]
        /\ \A p \in Pages :
             /\ CommitsAt(p)' = IF p = req[w].page THEN CommitsAt(p) \cup {n + 1} ELSE CommitsAt(p)
             /\ EditsAt(p)' = EditsAt(p)
        /\ \A i \in DOMAIN page_edits : EditText(i)' = EditText(i)
    BY CommitTraces
  <1>2. req' = req /\ pages' = pages
    BY DEF CommitGit, tables
  <1>3. /\ HeadCommit' = commits'[n + 1]
        /\ HeadCommit'.tree = [HeadCommit.tree EXCEPT ![req[w].page] = req[w].content]
    BY <1>1, CommitExtends DEF SafetyInv, HeadCommit
  <1>4. HeadCommit.tree \in [Pages -> Contents \cup {None}]
    BY HeadIsCommit DEF SafetyInv, TypeInv, TypeOK, Commit
  <1>5. HeadInv'
    <2> SUFFICES ASSUME NEW p \in Pages
                 PROVE
                   \/ CommitsAt(p)' = {} /\ HeadCommit'.tree[p] = None
                   \/ \E i \in CommitsAt(p)' :
                        /\ \A j \in CommitsAt(p)' : j =< i
                        /\ HeadCommit'.tree[p] = commits'[i].tree[p]
      BY DEF HeadInv
    <2>1. CommitsAt(p) \subseteq 1..n
      BY <1>1 DEF CommitsAt
    <2>2. CASE p = req[w].page
      <3>1. CommitsAt(p)' = CommitsAt(p) \cup {n + 1} /\ \A j \in CommitsAt(p)' : j =< n + 1
        BY <1>1, <2>1, <2>2
      <3> QED
        BY <1>3, <3>1
    <2>3. CASE p # req[w].page
      <3>1. CommitsAt(p)' = CommitsAt(p) /\ HeadCommit'.tree[p] = HeadCommit.tree[p]
        BY <1>1, <1>3, <1>4, <2>3
      <3> QED
        BY <1>1, <2>1, <3>1 DEF ChainInv, HeadInv
    <2> QED
      BY <2>2, <2>3
  <1>6. RowInv'
    <2>1. \A p \in Pages : \A i \in EditsAt(p) : EditText(i)' = EditText(i)
      BY <1>1 DEF EditsAt
    <2> QED
      BY <1>1, <1>2, <2>1 DEF ChainInv, RowInv
  <1>7. ConditionsChain'
    <2>1. \A i \in DOMAIN page_edits : EarlierEdits(i)' = EarlierEdits(i)
      BY <1>1 DEF EarlierEdits
    <2>2. \A i \in DOMAIN page_edits : \A j \in EarlierEdits(i) : EditText(j)' = EditText(j)
      BY <1>1, EarlierAreEdits DEF SafetyInv
    <2> QED
      BY <1>1, <1>2, <2>1, <2>2 DEF ChainInv, ConditionsChain
  <1> QED
    BY <1>5, <1>6, <1>7

\* The row of a page whose newest commit SQLite has recorded is that commit's:
\* the edit that cites it is the page's newest, since edits follow Git's order.
LEMMA RowFollowsHead ==
    ASSUME SafetyInv, OutcomeInv, ChainInv, NEW p \in Pages,
           \A j \in CommitsAt(p) :
               \/ \E k \in DOMAIN page_edits : page_edits[k].git_commit = j
               \/ \E l \in CommitsAt(p) : j < l
    PROVE  \/ /\ HeadCommit.tree[p] = None
              /\ pages[p] = IF p \in Imported THEN UnrecordedRow ELSE NoRow
           \/ /\ HeadCommit.tree[p] \in Contents /\ pages[p].present
              /\ pages[p].content_hash = ContentHash[HeadCommit.tree[p]]
  <1>0. Len(commits) \in Nat /\ CommitsAt(p) \subseteq 2..Len(commits)
    BY HistoryDomain DEF SafetyInv, CommitsAt
  <1>1. \A k \in EditsAt(p) : page_edits[k].git_commit \in CommitsAt(p)
    BY HistoryHasCalls DEF EditsAt
  <1>2. CASE CommitsAt(p) = {} /\ HeadCommit.tree[p] = None
    <2>1. EditsAt(p) = {}
      BY <1>1, <1>2
    <2> QED
      BY <1>2, <2>1 DEF ChainInv, RowInv
  <1>3. ASSUME NEW i \in CommitsAt(p), \A j \in CommitsAt(p) : j =< i,
               HeadCommit.tree[p] = commits[i].tree[p]
        PROVE  /\ HeadCommit.tree[p] \in Contents /\ pages[p].present
               /\ pages[p].content_hash = ContentHash[HeadCommit.tree[p]]
    <2>1. PICK k \in DOMAIN page_edits : page_edits[k].git_commit = i
      BY <1>0, <1>3
    <2>2. page_edits[k].page = p
      BY <2>1 DEF SafetyInv, EditsFollowGit, CommitsAt
    <2>3. k \in EditsAt(p)
      BY <2>2 DEF EditsAt
    <2>4. PICK m \in EditsAt(p) :
            /\ \A j \in EditsAt(p) : j =< m
            /\ pages[p].present /\ pages[p].content_hash = ContentHash[EditText(m)]
      BY <2>3 DEF ChainInv, RowInv
    <2>5. k = m
      <3>1. /\ k =< m /\ page_edits[m].git_commit =< i
            /\ k \in Nat /\ m \in Nat /\ m \in DOMAIN page_edits
        BY <1>1, <1>3, <2>3, <2>4, HistoryDomain DEF EditsAt, SafetyInv
      <3>2. k < m => i < page_edits[m].git_commit
        BY <2>1, <3>1 DEF SafetyInv, EditsFollowGit
      <3>3. i \in Nat /\ page_edits[m].git_commit \in Nat
        BY <1>0, <1>1, <2>4
      <3> QED
        BY <3>1, <3>2, <3>3
    <2>6. EditText(m) = commits[i].tree[p]
      BY <2>1, <2>2, <2>5 DEF EditText
    <2>7. commits[i].tree[p] \in Contents
      BY HistoryHasCalls DEF CommitsAt
    <2> QED
      BY <1>3, <2>4, <2>6, <2>7
  <1> QED
    BY <1>2, <1>3 DEF ChainInv, HeadInv

\* The commit replaces the text its call's condition names, if the row the
\* condition was evaluated on is that of the text.
LEMMA CommitErasure ==
    ASSUME SafetyInv, OutcomeInv, ChainInv, NEW w \in Writers, CommitGit(w)
    PROVE  NoUnseenChangeErased'
  <1> DEFINE n == Len(commits)
             p == req[w].page
             pre == req[w].pre
  <1>1. /\ page_edits' = page_edits
        /\ n \in Nat \ {0} /\ Len(commits') = n + 1
        /\ \A i \in 1..n : commits'[i] = commits[i]
    BY CommitTraces
  <1>2. /\ commits'[n + 1].page = p /\ commits'[n + 1].write = w
        /\ req' = req
    BY <1>1, CommitExtends DEF SafetyInv, HeadCommit, CommitGit
  <1> SUFFICES ASSUME NEW i \in 2..(n + 1), PredecessorsRecorded(i)'
               PROVE  ErasesWhatItNames(i)'
    BY <1>1, ErasureByPredecessors DEF NoUnseenChangeErased, PredecessorsRecorded
  <1>3. CASE i \in 2..n
    <2>1. commits'[i] = commits[i] /\ commits'[i - 1] = commits[i - 1]
      BY <1>1, <1>3
    <2>2. \A j \in 2..(i - 1) : commits'[j] = commits[j]
      BY <1>1, <1>3
    <2>3. \A j \in 2..(i - 1) : \A l \in (j + 1)..(i - 1) : commits'[l] = commits[l]
      BY <1>1, <1>3
    <2>4. PredecessorsRecorded(i)
      BY <1>1, <2>1, <2>2, <2>3 DEF PredecessorsRecorded
    <2>5. ErasesWhatItNames(i)
      BY <1>3, <2>4, ErasureByPredecessors DEF ChainInv
    <2> QED
      BY <1>2, <2>1, <2>5 DEF ErasesWhatItNames
  <1>4. CASE i = n + 1
    <2>1. req[w] \in Requests /\ p \in Pages /\ pre \in Preconditions
      BY RequestFields DEF CommitGit, SafetyInv, TypeInv, CallsHaveRequests
    <2>2. ASSUME NEW j \in CommitsAt(p)
          PROVE  \/ \E k \in DOMAIN page_edits : page_edits[k].git_commit = j
                 \/ \E l \in CommitsAt(p) : j < l
      <3>1. j \in 2..n /\ j \in 2..(i - 1) /\ commits'[j].page = p
        BY <1>1, <1>4 DEF CommitsAt
      <3>2. ASSUME NEW l \in (j + 1)..(i - 1), commits'[l].page = p
            PROVE  l \in CommitsAt(p) /\ j < l
        BY <1>1, <1>4, <3>1, <3>2 DEF CommitsAt
      <3> QED
        BY <1>1, <1>2, <1>4, <3>1, <3>2 DEF PredecessorsRecorded
    <2> DEFINE erased == HeadCommit.tree[p]
    <2>3. \/ /\ erased = None
             /\ pages[p] = IF p \in Imported THEN UnrecordedRow ELSE NoRow
          \/ /\ erased \in Contents /\ pages[p].present
             /\ pages[p].content_hash = ContentHash[erased]
      BY <2>1, <2>2, RowFollowsHead
    <2>4. Allows(pre, pages[p])
      BY DEF CommitGit, ChainInv, ConditionInv, Conditioned
    <2>5. pre.kind = "Revision" => pre.rev # None
      BY <2>1, NoneIsNoValue DEF Preconditions
    <2>6. /\ pre.kind = "Revision" => erased # None /\ ContentHash[erased] = pre.rev
          /\ pre.kind = "Absent" => erased = None
          /\ pre.kind = "Exists" => erased # None \/ p \in Imported
      BY <2>3, <2>4, <2>5, NoneIsApart DEF Allows, UnrecordedRow, NoRow
    <2>7. commits'[i - 1].tree[p] = erased
      BY <1>1, <1>4 DEF HeadCommit
    <2> QED
      BY <1>2, <1>4, <2>6, <2>7 DEF ErasesWhatItNames
  <1> QED
    BY <1>1, <1>3, <1>4

\* Every step of the system keeps the condition of each write true to the text
\* it replaces.
LEMMA NextChain ==
    SafetyInv /\ OutcomeInv /\ ChainInv /\ [Next]_vars => ChainInv'
  <1> SUFFICES ASSUME SafetyInv, OutcomeInv, ChainInv, [Next]_vars PROVE ChainInv'
    OBVIOUS
  <1>1. ConditionInv'
    BY NextCondition DEF ChainInv
  <1> DEFINE Others == HeadInv' /\ RowInv' /\ ConditionsChain' /\ NoUnseenChangeErased'
  <1>2. CASE UNCHANGED vars
    BY <1>1, <1>2, UnrecordedChain DEF ChainInv, vars, calls, content, tables
  <1>3. ASSUME NEW w \in Writers, NEW r \in Requests, Submit(w, r)
        PROVE  Others
    <2>1. \A v \in Writers : pc[v] # "idle" => req'[v] = req[v]
      BY <1>3 DEF Submit, SafetyInv, TypeInv, TypeOK
    <2> QED
      BY <1>3, <2>1, UnrecordedChain DEF Submit, content, tables
  <1>4. ASSUME NEW w \in Writers, Accept(w) \/ Disconnect(w) \/ Finish(w) \/ StorageError(w)
        PROVE  Others
    BY <1>4, UnrecordedChain DEF Accept, Disconnect, Finish, StorageError, content, tables
  <1>5. ASSUME NEW w \in Writers,
               \/ CheckLayer(w) \/ CheckActor(w) \/ CheckPrecondition(w)
               \/ TruncateFile(w) \/ WriteFile(w)
        PROVE  Others
    BY <1>5, UnrecordedChain
    DEF CheckLayer, CheckActor, CheckPrecondition, TruncateFile, WriteFile, content, tables
  <1>6. ASSUME NEW w \in Writers, CommitGit(w) \/ ProjectTables(w)
        PROVE  Others
    BY <1>6, CommitHead, CommitErasure, ProjectRow, ProjectChain, ProjectErasure
  <1>7. CASE Crash \/ Restart \/ Shutdown \/ Stop
    BY <1>1, <1>7, UnrecordedChain
    DEF ChainInv, Crash, Restart, Shutdown, Stop, calls, content, tables
  <1>8. CASE (\E a \in Suspendable : SuspendActor(a)) \/ (\E l \in Retirable : RetireLayer(l))
    BY <1>1, <1>8, UnrecordedChain
    DEF ChainInv, SuspendActor, RetireLayer, calls, content, tables
  <1> QED
    BY <1>1, <1>2, <1>3, <1>4, <1>5, <1>6, <1>7, <1>8 DEF Next, System, Pipeline, ChainInv

\* Each condition an accepted call has passed stays true, of the row and of
\* the text, until the call's transaction.
THEOREM ChainInvariance == Spec => [](SafetyInv /\ OutcomeInv /\ ChainInv)
  BY InitSafety, NextSafety, InitOutcome, NextOutcome, InitChain, NextChain, PTL DEF Spec

\* Among the recorded edits of a page, each conditional one follows the edit
\* its condition names.
THEOREM ConditionsAlwaysChain == Spec => []ConditionsChain
  BY ChainInvariance, PTL DEF ChainInv

\* A conditional write replaces in Git only the text its condition names,
\* wherever SQLite has recorded the page's previous commit.
THEOREM NoUnseenChangeIsErased == Spec => []NoUnseenChangeErased
  BY ChainInvariance, PTL DEF ChainInv

-----------------------------------------------------------------------------
(* The refinement of AtomicWiki.                                           *)

\* The calls that took effect, in order, and what became of each.
Log == [i \in DOMAIN page_edits |-> page_edits[i].write]
Outcomes == [w \in Writers |-> Outcome(w)]

\* What a result looks like to the caller of an atomic register.
LEMMA OutcomeCases ==
    ASSUME NEW w \in Writers
    PROVE  /\ result[w] = "none" => Outcome(w) = "pending"
           /\ result[w] = "ok" => Outcome(w) = "ok"
           /\ result[w] = "conflict" => Outcome(w) = "refused"
           /\ result[w] \notin {"none", "ok", "conflict"} => Outcome(w) = "failed"
  BY DEF Outcome

\* The initial states are those of the register.
LEMMA InitRegister == Init => Register!Init
  <1> SUFFICES ASSUME Init PROVE Register!Init
    OBVIOUS
  <1>1. Log = <<>>
    BY DEF Init, Log
  <1>2. Outcomes = [w \in Writers |-> "pending"]
    BY OutcomeCases DEF Init, Outcomes
  <1> QED
    BY <1>1, <1>2 DEF Init, Register!Init, Log, Outcomes, NoRow, UnrecordedRow,
                      Register!NoRow, Register!UnrecordedRow

\* A step that writes no row and no edit, brings no request and ends no call
\* is none of the register's.
LEMMA RegisterStutters ==
    ASSUME UNCHANGED <<pages, page_edits, req, result>>
    PROVE  UNCHANGED Register!vars
  BY DEF Register!vars, Outcome

\* A step that ends calls other than by their transaction or their condition,
\* and does nothing else the register sees, abandons those calls.
LEMMA RegisterAbandons ==
    ASSUME SafetyInv, OutcomeInv, UNCHANGED <<pages, page_edits, req>>,
           \A w \in Writers :
               \/ result'[w] = result[w]
               \/ /\ result[w] = "none" /\ pc[w] # "idle"
                  /\ result'[w] \notin {"none", "ok", "conflict"}
    PROVE  [Register!Next]_(Register!vars)
  <1> DEFINE S == {w \in Writers : result'[w] # result[w]}
  <1>1. \A w \in S : req[w] # None /\ Outcome(w) = "pending"
    BY NoneIsNoRequest, RequestsAreWriteRequests, OutcomeCases DEF SafetyInv, TypeInv, CallsHaveRequests
  <1>2. \A w \in Writers : Outcome(w)' = IF w \in S THEN "failed" ELSE Outcome(w)
    BY DEF Outcome
  <1>3. CASE S = {}
    BY <1>2, <1>3 DEF Register!vars
  <1>4. CASE S # {}
    <2>1. Register!Abandon(S)
      BY <1>1, <1>2, <1>4 DEF Register!Abandon
    <2> QED
      BY <2>1 DEF Register!Next
  <1> QED
    BY <1>3, <1>4

\* The arrival of a call invokes the register.
LEMMA SubmitRegister ==
    ASSUME SafetyInv, OutcomeInv, NEW w \in Writers, NEW r \in Requests, Submit(w, r)
    PROVE  [Register!Next]_(Register!vars)
  <1>1. req[w] = None /\ req' = [req EXCEPT ![w] = r] /\ UNCHANGED <<pages, page_edits, result>>
    BY DEF Submit, tables, OutcomeInv, ResultInv
  <1>2. Register!Invoke(w, r)
    BY <1>1 DEF Register!Invoke, Outcome
  <1> QED
    BY <1>2 DEF Register!Next

\* A call refused for its condition is refused in an instant in which its
\* condition does not hold.
LEMMA ConflictRegister ==
    ASSUME SafetyInv, OutcomeInv, NEW w \in Writers, CheckPrecondition(w)
    PROVE  [Register!Next]_(Register!vars)
  <1>1. CASE Allows(req[w].pre, pages[req[w].page])
    BY <1>1, RegisterStutters DEF CheckPrecondition, Proceed, tables
  <1>2. CASE ~Allows(req[w].pre, pages[req[w].page])
    <2>1. /\ pc[w] = "precondition" /\ result[w] = "none"
          /\ result' = [result EXCEPT ![w] = "conflict"]
          /\ UNCHANGED <<pages, page_edits, req>>
      BY <1>2 DEF CheckPrecondition, Reject, tables, OutcomeInv, ResultInv
    <2>2. req[w] # None
      BY <2>1, NoneIsNoRequest, RequestsAreWriteRequests DEF SafetyInv, TypeInv, CallsHaveRequests
    <2>3. \A v \in Writers : Outcome(v)' = IF v = w THEN "refused" ELSE Outcome(v)
      BY <2>1 DEF Outcome, SafetyInv, TypeInv, TypeOK
    <2>4. Register!Refuse(w)
      BY <1>2, <2>1, <2>2, <2>3, OutcomeCases DEF Register!Refuse, Register!Allows, Allows
    <2> QED
      BY <2>4 DEF Register!Next
  <1> QED
    BY <1>1, <1>2

\* The transaction is the instant in which a write takes effect: its condition
\* holds there, and row and log change together.
LEMMA ProjectRegister ==
    ASSUME SafetyInv, OutcomeInv, ConditionInv, NEW w \in Writers, ProjectTables(w)
    PROVE  [Register!Next]_(Register!vars)
  <1>1. /\ pc[w] = "committed" /\ result[w] = "none"
        /\ result' = [result EXCEPT ![w] = "ok"]
        /\ pages' = [pages EXCEPT ![req[w].page] = Written(req[w])]
        /\ req' = req
    BY DEF ProjectTables, OutcomeInv, ResultInv
  <1>2. req[w] # None
    BY <1>1, NoneIsNoRequest, RequestsAreWriteRequests DEF SafetyInv, TypeInv, CallsHaveRequests
  <1>3. Allows(req[w].pre, pages[req[w].page])
    BY <1>1 DEF ConditionInv, Conditioned
  <1>4. \A v \in Writers : Outcome(v)' = IF v = w THEN "ok" ELSE Outcome(v)
    BY <1>1 DEF Outcome, SafetyInv, TypeInv, TypeOK
  <1>5. Log' = Append(Log, w)
    <2>1. /\ Len(page_edits) \in Nat
          /\ DOMAIN page_edits = 1..Len(page_edits)
          /\ DOMAIN page_edits' = 1..(Len(page_edits) + 1)
          /\ \A i \in 1..Len(page_edits) : page_edits'[i] = page_edits[i]
          /\ page_edits'[Len(page_edits) + 1] =
               [page |-> req[w].page, actor |-> req[w].actor,
                git_commit |-> commit_oid[w], write |-> w]
      BY EditExtends DEF SafetyInv
    <2>2. \A i \in DOMAIN page_edits : page_edits[i].write \in Writers
      BY HistoryHasCalls
    <2>3. Log \in Seq(Writers) /\ Len(Log) = Len(page_edits)
      BY <2>1, <2>2 DEF Log
    <2>4. /\ Append(Log, w) \in Seq(Writers) /\ Len(Append(Log, w)) = Len(page_edits) + 1
          /\ \A i \in 1..Len(page_edits) : Append(Log, w)[i] = Log[i]
          /\ Append(Log, w)[Len(page_edits) + 1] = w
      BY <2>3, AppendProperties
    <2>5. \A i \in 1..(Len(page_edits) + 1) : page_edits'[i].write \in Writers
      BY <2>1, <2>2
    <2>6. Log' \in Seq(Writers) /\ Len(Log') = Len(page_edits) + 1
      BY <2>1, <2>5 DEF Log
    <2>7. \A i \in 1..(Len(page_edits) + 1) : Log'[i] = Append(Log, w)[i]
      BY <2>1, <2>4 DEF Log
    <2> QED
      BY <2>4, <2>6, <2>7, SeqEqual
  <1>6. Register!Apply(w)
    BY <1>1, <1>2, <1>3, <1>4, <1>5, OutcomeCases
    DEF Register!Apply, Register!Allows, Allows, Register!Written, Written, Log
  <1> QED
    BY <1>6 DEF Register!Next

\* Every step of the pipeline is one of the register's, or none of them.
LEMMA NextRegister ==
    SafetyInv /\ OutcomeInv /\ ConditionInv /\ [Next]_vars => [Register!Next]_(Register!vars)
  <1> SUFFICES ASSUME SafetyInv, OutcomeInv, ConditionInv, [Next]_vars
               PROVE  [Register!Next]_(Register!vars)
    OBVIOUS
  <1>1. CASE UNCHANGED vars
    BY <1>1, RegisterStutters DEF vars, calls, tables
  <1>2. CASE \E w \in Writers, r \in Requests : Submit(w, r)
    BY <1>2, SubmitRegister
  <1>3. ASSUME NEW w \in Writers, Accept(w) \/ TruncateFile(w) \/ WriteFile(w)
                                  \/ CommitGit(w) \/ Finish(w)
        PROVE  [Register!Next]_(Register!vars)
    BY <1>3, RegisterStutters DEF Accept, TruncateFile, WriteFile, CommitGit, Finish, tables
  <1>4. ASSUME NEW w \in Writers, CheckPrecondition(w) \/ ProjectTables(w)
        PROVE  [Register!Next]_(Register!vars)
    BY <1>4, ConflictRegister, ProjectRegister
  <1>5. ASSUME NEW w \in Writers, CheckLayer(w) \/ CheckActor(w) \/ StorageError(w) \/ Disconnect(w)
        PROVE  [Register!Next]_(Register!vars)
    <2>1. UNCHANGED <<pages, page_edits, req>>
      BY <1>5 DEF CheckLayer, CheckActor, StorageError, Disconnect, tables
    <2>2. \A v \in Writers :
            \/ result'[v] = result[v]
            \/ /\ result[v] = "none" /\ pc[v] # "idle"
               /\ result'[v] \notin {"none", "ok", "conflict"}
      BY <1>5, StepKinds DEF CheckLayer, CheckActor, StorageError, Disconnect, Proceed, Reject,
                             SafetyInv, TypeInv, TypeOK, OutcomeInv, ResultInv
    <2> QED
      BY <2>1, <2>2, RegisterAbandons
  <1>6. CASE Crash
    <2>1. UNCHANGED <<pages, page_edits, req>>
      BY <1>6 DEF Crash, tables
    <2>2. \A v \in Writers :
            \/ result'[v] = result[v]
            \/ /\ result[v] = "none" /\ pc[v] # "idle"
               /\ result'[v] \notin {"none", "ok", "conflict"}
      BY <1>6 DEF Crash
    <2> QED
      BY <2>1, <2>2, RegisterAbandons
  <1>7. CASE Restart \/ Shutdown \/ Stop
    BY <1>7, RegisterStutters DEF Restart, Shutdown, Stop, calls, tables
  <1>8. CASE (\E a \in Suspendable : SuspendActor(a)) \/ (\E l \in Retirable : RetireLayer(l))
    BY <1>8, RegisterStutters DEF SuspendActor, RetireLayer, calls, tables
  <1> QED
    BY <1>1, <1>2, <1>3, <1>4, <1>5, <1>6, <1>7, <1>8 DEF Next, System, Pipeline

\* The tables implement one atomic register per page: every behaviour of the
\* pipeline is, seen through rows, edits and results, one of AtomicWiki.
THEOREM TablesAreAtomic == Spec => ImplementsAtomicWiki
  <1>1. ChainInv => ConditionInv
    BY DEF ChainInv
  <1> QED
    BY <1>1, ChainInvariance, InitRegister, NextRegister, PTL
    DEF Spec, Register!Spec, ImplementsAtomicWiki


-----------------------------------------------------------------------------
(* Calls of suspended actors.                                              *)

\* A call that cannot succeed any more: its actor is suspended and still to be
\* checked, or it has ended otherwise.
Doomed(w) ==
    \/ pc[w] \in {"queued", "layer", "actor"} /\ req[w].actor \notin activeActors
    \/ pc[w] \in {"finishing", "done"} /\ result[w] # "ok"

\* No step saves such a call.
LEMMA NextDoomed ==
    ASSUME SafetyInv, OutcomeInv, NEW w \in Writers, Doomed(w), [Next]_vars
    PROVE  Doomed(w)'
  <1> USE DEF SafetyInv, TypeInv, TypeOK, OutcomeInv, ResultInv, Doomed
  <1>1. CASE UNCHANGED vars
    BY <1>1 DEF vars, calls, admin
  <1>2. ASSUME NEW v \in Writers, NEW r \in Requests, Submit(v, r)
        PROVE  Doomed(w)'
    BY <1>2 DEF Submit, admin
  <1>3. ASSUME NEW v \in Writers, Accept(v) \/ Disconnect(v) \/ StorageError(v)
        PROVE  Doomed(w)'
    BY <1>3, StepKinds DEF Accept, Disconnect, StorageError, Reject, admin
  <1>4. ASSUME NEW v \in Writers, CheckLayer(v) \/ CheckActor(v) \/ CheckPrecondition(v)
        PROVE  Doomed(w)'
    BY <1>4 DEF CheckLayer, CheckActor, CheckPrecondition, ActorIsValid, Proceed, Reject, admin
  <1>5. ASSUME NEW v \in Writers,
               TruncateFile(v) \/ WriteFile(v) \/ CommitGit(v) \/ ProjectTables(v) \/ Finish(v)
        PROVE  Doomed(w)'
    BY <1>5 DEF TruncateFile, WriteFile, CommitGit, ProjectTables, Finish, admin
  <1>6. CASE Crash
    BY <1>6 DEF Crash, admin
  <1>7. CASE Restart \/ Shutdown \/ Stop
    BY <1>7 DEF Restart, Shutdown, Stop, calls, admin
  <1>8. CASE (\E a \in Suspendable : SuspendActor(a)) \/ (\E l \in Retirable : RetireLayer(l))
    BY <1>8 DEF SuspendActor, RetireLayer, calls
  <1> QED
    BY <1>1, <1>2, <1>3, <1>4, <1>5, <1>6, <1>7, <1>8 DEF Next, System, Pipeline

\* An actor suspended while its call waits for the lock, or for the checks
\* behind it, changes nothing.
THEOREM SuspendedActorIsAlwaysRefused == Spec => SuspendedActorIsRefused
  <1> SUFFICES ASSUME NEW w \in Writers
               PROVE  Spec => []( pc[w] \in {"queued", "layer", "actor"}
                                    /\ req[w].actor \notin activeActors
                                  => [](result[w] # "ok") )
    BY DEF SuspendedActorIsRefused
  <1> DEFINE Queued == pc[w] \in {"queued", "layer", "actor"} /\ req[w].actor \notin activeActors
             Told == result[w] # "ok"
  <1>1. Queued => Doomed(w)
    BY DEF Doomed
  <1>2. SafetyInv /\ OutcomeInv /\ Doomed(w) => Told
    BY DEF SafetyInv, TypeInv, TypeOK, OutcomeInv, ResultInv, Doomed
  <1>3. SafetyInv /\ OutcomeInv /\ Doomed(w) /\ [Next]_vars => Doomed(w)'
    BY NextDoomed
  <1> QED
    BY <1>1, <1>2, <1>3, OutcomeInvariance, PTL DEF Spec

-----------------------------------------------------------------------------
(* Calls that run to their end.                                            *)

\* The runtime does not leave a task for ever at a step it can take: weak fairness
\* of Pipeline(w), with the condition on pc under which one of its steps can be
\* taken for ENABLED, of which the provers know nothing.
TaskRuns(w) == []<>(pc[w] \notin Serialized) \/ []<><<Pipeline(w)>>_vars

\* The steps of an accepted call that come after a step.
Later(step) ==
    CASE step = "layer" -> {"actor", "precondition", "file", "truncated", "written",
                            "committed", "finishing", "done"}
      [] step = "actor" -> {"precondition", "file", "truncated", "written", "committed",
                            "finishing", "done"}
      [] step = "precondition" -> {"file", "truncated", "written", "committed", "finishing", "done"}
      [] step = "file" -> {"truncated", "written", "committed", "finishing", "done"}
      [] step = "truncated" -> {"written", "committed", "finishing", "done"}
      [] step = "written" -> {"committed", "finishing", "done"}
      [] step = "committed" -> {"finishing", "done"}
      [] step = "finishing" -> {"done"}

\* A call behind its checks goes on with its write, and it is told of a success or
\* of an error, if the process lives.
GoesOn(w, step) ==
    \/ /\ step \in {"file", "truncated", "written"}
       /\ pc[w] = (CASE step = "file" -> "truncated" [] step = "truncated" -> "written"
                     [] step = "written" -> "committed")
    \/ result[w] = "ok"
    \/ "storage" \in Faults /\ result[w] = "error"

\* A call whose task runs leaves a step for a later one; the second formula is for
\* writes behind their checks.
Leaves(w, step) == Spec /\ TaskRuns(w) => (pc[w] = step ~> pc[w] \in Later(step))
Advances(w, step) == Spec /\ TaskRuns(w) => (pc[w] = step ~> GoesOn(w, step))

\* An accepted call only goes forward, whatever other calls, faults and shutdown do ...
LEMMA TaskGoesForward ==
    ASSUME TypeOK, NEW w \in Writers, NEW step \in Serialized, pc[w] = step, [Next]_vars
    PROVE  /\ pc'[w] = step \/ pc'[w] \in Later(step)
           /\ "crash" \notin Faults /\ step \in {"file", "truncated", "written", "committed"} =>
                pc'[w] = step \/ GoesOn(w, step)'
  <1> USE StepKinds DEF TypeOK
  <1>1. CASE UNCHANGED vars
    BY <1>1 DEF vars, calls
  <1>2. ASSUME NEW v \in Writers, NEW r \in Requests, Submit(v, r)
        PROVE  pc'[w] = pc[w]
    BY <1>2 DEF Submit
  <1>3. ASSUME NEW v \in Writers, Accept(v) \/ Disconnect(v)
        PROVE  pc'[w] = pc[w]
    BY <1>3 DEF Accept, Disconnect
  <1>4. ASSUME NEW v \in Writers, StorageError(v)
        PROVE  \/ pc'[w] = pc[w]
               \/ /\ pc'[w] = "finishing" /\ step # "finishing"
                  /\ "storage" \in Faults /\ result'[w] = "error"
    BY <1>4 DEF StorageError, Reject
  <1>5. ASSUME NEW v \in Writers, Pipeline(v), v # w
        PROVE  pc'[w] = pc[w]
    BY <1>5 DEF Pipeline, CheckLayer, CheckActor, CheckPrecondition, TruncateFile, WriteFile,
                CommitGit, ProjectTables, Finish, Proceed, Reject
  <1>6. ASSUME Pipeline(w)
        PROVE  /\ pc'[w] \in Later(step)
               /\ step \in {"file", "truncated", "written", "committed"} => GoesOn(w, step)'
    <2>1. CASE CheckLayer(w) \/ CheckActor(w) \/ CheckPrecondition(w)
      <3>1. pc'[w] \in Later(step) /\ step \in {"layer", "actor", "precondition"}
        BY <2>1 DEF CheckLayer, CheckActor, CheckPrecondition, Proceed, Reject, Later
      <3> QED
        BY <3>1
    <2>2. CASE TruncateFile(w)
      BY <2>2 DEF TruncateFile, Later, GoesOn
    <2>3. CASE WriteFile(w)
      BY <2>3 DEF WriteFile, Later, GoesOn
    <2>4. CASE CommitGit(w)
      BY <2>4 DEF CommitGit, Later, GoesOn
    <2>5. CASE ProjectTables(w)
      BY <2>5 DEF ProjectTables, Later, GoesOn
    <2>6. CASE Finish(w)
      BY <2>6 DEF Finish, Later
    <2> QED
      BY <1>6, <2>1, <2>2, <2>3, <2>4, <2>5, <2>6 DEF Pipeline
  <1>7. ASSUME Crash
        PROVE  pc'[w] \in Later(step) /\ "crash" \in Faults
    BY <1>7 DEF Crash, Later
  <1>8. ASSUME Restart \/ Shutdown \/ Stop
        PROVE  pc'[w] = pc[w]
    BY <1>8 DEF Restart, Shutdown, Stop, calls
  <1>9. ASSUME (\E a \in Suspendable : SuspendActor(a)) \/ (\E l \in Retirable : RetireLayer(l))
        PROVE  pc'[w] = pc[w]
    BY <1>9 DEF SuspendActor, RetireLayer, calls
  <1>10. step # "finishing" => "finishing" \in Later(step)
    BY DEF Later
  <1>11. "storage" \in Faults /\ result'[w] = "error" => GoesOn(w, step)'
    BY DEF GoesOn
  <1> QED
    BY <1>1, <1>2, <1>3, <1>4, <1>5, <1>6, <1>7, <1>8, <1>9, <1>10, <1>11 DEF Next, System

\* ... and goes on when it is run.
LEMMA TaskMoves ==
    ASSUME TypeOK, NEW w \in Writers, Pipeline(w)
    PROVE  pc'[w] # pc[w]
  BY DEF TypeOK, Pipeline, CheckLayer, CheckActor, CheckPrecondition, TruncateFile, WriteFile,
         CommitGit, ProjectTables, Finish, Proceed, Reject

\* So it does not stay at a step ...
LEMMA TaskLeaves ==
    ASSUME NEW w \in Writers, NEW step \in Serialized
    PROVE  Leaves(w, step)
  <1>1. TypeOK /\ pc[w] = step /\ [Next]_vars => (pc[w] = step)' \/ (pc[w] \in Later(step))'
    BY TaskGoesForward
  <1>2. TypeOK /\ pc[w] = step /\ <<Pipeline(w)>>_vars => ~(pc[w] = step)'
    BY TaskMoves
  <1>3. pc[w] = step => ~(pc[w] \notin Serialized)
    OBVIOUS
  <1> QED
    BY <1>1, <1>2, <1>3, TypeCorrect, PTL DEF Spec, TaskRuns, Leaves

\* ... and behind its checks it leaves towards success, or with an error told.
LEMMA WriteGoesOn ==
    ASSUME "crash" \notin Faults, NEW w \in Writers,
           NEW step \in {"file", "truncated", "written", "committed"}
    PROVE  Advances(w, step)
  <1>0. step \in Serialized
    BY StepKinds
  <1>1. TypeOK /\ pc[w] = step /\ [Next]_vars => (pc[w] = step)' \/ GoesOn(w, step)'
    BY <1>0, TaskGoesForward
  <1>2. TypeOK /\ pc[w] = step /\ <<Pipeline(w)>>_vars => ~(pc[w] = step)'
    BY TaskMoves
  <1>3. pc[w] = step => ~(pc[w] \notin Serialized)
    BY <1>0
  <1> QED
    BY <1>1, <1>2, <1>3, TypeCorrect, PTL DEF Spec, TaskRuns, Advances

\* A call that has the writer lock gives it back, through errors and crashes, if its
\* task runs: what EveryCallEnds says of the calls that have been accepted.
THEOREM AcceptedCallsEnd ==
    ASSUME NEW w \in Writers
    PROVE  Spec /\ TaskRuns(w) => (pc[w] \in Serialized ~> pc[w] = "done")
  <1>0. {"layer", "actor", "precondition", "file", "truncated",
         "written", "committed", "finishing"} = Serialized
    BY StepKinds
  <1>1. Leaves(w, "layer")
    BY <1>0, TaskLeaves
  <1>2. Leaves(w, "actor")
    BY <1>0, TaskLeaves
  <1>3. Leaves(w, "precondition")
    BY <1>0, TaskLeaves
  <1>4. Leaves(w, "file")
    BY <1>0, TaskLeaves
  <1>5. Leaves(w, "truncated")
    BY <1>0, TaskLeaves
  <1>6. Leaves(w, "written")
    BY <1>0, TaskLeaves
  <1>7. Leaves(w, "committed")
    BY <1>0, TaskLeaves
  <1>8. Leaves(w, "finishing")
    BY <1>0, TaskLeaves
  <1>9. /\ pc[w] \in Later("finishing") => pc[w] = "done"
        /\ pc[w] \in Later("committed") => pc[w] = "finishing" \/ pc[w] = "done"
        /\ pc[w] \in Later("written") => pc[w] = "committed" \/ pc[w] = "finishing" \/ pc[w] = "done"
        /\ pc[w] \in Later("truncated") => pc[w] = "written" \/ pc[w] \in Later("written")
        /\ pc[w] \in Later("file") => pc[w] = "truncated" \/ pc[w] \in Later("truncated")
        /\ pc[w] \in Later("precondition") => pc[w] = "file" \/ pc[w] \in Later("file")
        /\ pc[w] \in Later("actor") => pc[w] = "precondition" \/ pc[w] \in Later("precondition")
        /\ pc[w] \in Later("layer") => pc[w] = "actor" \/ pc[w] \in Later("actor")
    BY DEF Later
  <1>10. pc[w] \in Serialized => pc[w] = "layer" \/ pc[w] \in Later("layer")
    BY StepKinds DEF Later
  <1> QED
    BY <1>1, <1>2, <1>3, <1>4, <1>5, <1>6, <1>7, <1>8, <1>9, <1>10, PTL DEF Leaves

\* A write that has passed its checks goes through unless storage fails it, among any
\* number of calls, whoever waits for it and whatever is being stopped, if its task
\* runs and the process lives.
THEOREM AcceptedWritesComplete ==
    ASSUME "crash" \notin Faults
    PROVE  Spec /\ (\A w \in Writers : TaskRuns(w)) => AcceptedWriteCompletes
  <1> SUFFICES ASSUME NEW w \in Writers
               PROVE  Spec /\ TaskRuns(w) =>
                        (pc[w] = "file" ~>
                           result[w] = "ok" \/ ("storage" \in Faults /\ result[w] = "error"))
    BY DEF AcceptedWriteCompletes
  <1> DEFINE Told == result[w] = "ok" \/ ("storage" \in Faults /\ result[w] = "error")
  <1>1. Advances(w, "file")
    BY WriteGoesOn
  <1>2. Advances(w, "truncated")
    BY WriteGoesOn
  <1>3. Advances(w, "written")
    BY WriteGoesOn
  <1>4. Advances(w, "committed")
    BY WriteGoesOn
  <1>5. /\ GoesOn(w, "file") => pc[w] = "truncated" \/ Told
        /\ GoesOn(w, "truncated") => pc[w] = "written" \/ Told
        /\ GoesOn(w, "written") => pc[w] = "committed" \/ Told
        /\ GoesOn(w, "committed") => Told
    BY DEF GoesOn
  <1> QED
    BY <1>1, <1>2, <1>3, <1>4, <1>5, PTL DEF Advances

-----------------------------------------------------------------------------
(* Part 4. Sessions: what their calls ask for, and what they replace.       *)

\* What is known of the pipeline below the editors.
PipelineInv == SafetyInv /\ OutcomeInv /\ ChainInv

-----------------------------------------------------------------------------
(* The inductive invariant of every session.                               *)

\* What an editor's save carries.
SentCondition(e, row) == IF e \in Agents THEN AgentCondition(row) ELSE FormCondition(row)

\* An editor's position agrees with what it has: a page, a call, a warning.
Placed(e) ==
    LET s == session[e]
    IN /\ s.at # "start" => s.page \in Pages
       /\ s.at \in {"start", "meta"} => s.call = None /\ ~s.warned
       /\ s.at = "open" /\ ~s.warned => s.call = None
       /\ s.at = "saving" => s.call # None
       /\ s.at = "meta" => s.row.present
       /\ s.row.content_hash # None => s.row.present
       /\ s.warned => e \notin Agents
       /\ s.blind => s.warned

\* A session's call asks for its page, on the condition its row makes.
Sent(e) ==
    LET s == session[e]
    IN s.at \in {"saving", "ended"} /\ s.call # None =>
         /\ pc[s.call] # "idle"
         /\ req[s.call].page = s.page
         /\ req[s.call].pre = SentCondition(e, s.row)

\* An edit of the page has been recorded since the editor was shown its row.
EditedSince(s) == \E i \in DOMAIN page_edits : i > s.edits /\ page_edits[i].page = s.page

\* The row an editor was shown is the page's row, or an edit has been recorded
\* since, unless there was no row to show.
Shown(e) ==
    LET s == session[e]
    IN /\ s.edits =< Len(page_edits)
       /\ s.at # "start" /\ ~s.blind => pages[s.page] = s.row \/ EditedSince(s)

EditorInv ==
    /\ session \in [Editors -> Session]
    /\ \A e \in Editors : Placed(e) /\ Sent(e) /\ Shown(e)

-----------------------------------------------------------------------------
(* The inductive invariant of reads, where nothing fails and texts are new. *)

\* No two calls carry the same text.
DistinctInv ==
    \A v, w \in Writers :
        v # w /\ pc[v] # "idle" /\ pc[w] # "idle" => req[v].content # req[w].content

\* A call has written a row with this hash.
RowWritten(hash) ==
    \E v \in Writers : pc[v] \in {"finishing", "done"} /\ ContentHash[req[v].content] = hash

\* The text an editor read is the one its row speaks of ...
Matches(s) ==
    IF s.row.present THEN s.text \in Contents /\ ContentHash[s.text] = s.row.content_hash
                     ELSE s.text = None

\* ... unless the page has changed since it read the row.
Outdated(s) ==
    IF s.row.present THEN pages[s.page].content_hash # s.row.content_hash
                     ELSE pages[s.page].present

\* An editor with what it read, before any form has come back.
HasRead(s) == (s.at = "open" \/ s.call # None) /\ ~s.warned

\* A text of another version was read from the middle of a write, whose row is
\* there by the time that anybody else evaluates a condition.
ReadWell(e) ==
    LET s == session[e]
    IN /\ s.at # "start" /\ s.row.present => RowWritten(s.row.content_hash)
       /\ HasRead(s) => Matches(s) \/ Outdated(s) \/ InFlight(s.page)

\* Past its check, a save is about to replace the text its editor read.
AboutToReplace(e) ==
    LET s == session[e]
    IN s.call # None /\ ~s.warned /\ pc[s.call] \in {"file", "truncated", "written"} =>
         HeadCommit.tree[s.page] = s.text

\* SavesOverWhatItRead of one editor.
SavesOver(e) ==
    session[e].call # None /\ ~session[e].warned =>
        \A i \in CommitsOf(session[e].call) :
            commits[i - 1].tree[session[e].page] = session[e].text

CarefulInv ==
    /\ drifted = {} /\ DistinctInv
    /\ \A e \in Editors : ReadWell(e) /\ AboutToReplace(e) /\ SavesOver(e)

-----------------------------------------------------------------------------
(* Editors make calls of the pipeline, and nothing else.                   *)

\* An editor is an agent or a browser, and not both.
LEMMA EditorKinds ==
    /\ Editors = Agents \cup Browsers /\ Agents \cap Browsers = {} /\ None \notin Editors
  BY EditorsAreDistinct DEF Editors

\* A step of a session is a step of the pipeline, or leaves the pipeline alone.
LEMMA StepOfPipeline == [SessionNext]_sessionVars => [Next]_vars
  <1> SUFFICES ASSUME [SessionNext]_sessionVars PROVE [Next]_vars
    OBVIOUS
  <1>1. CASE UNCHANGED sessionVars
    BY <1>1 DEF sessionVars
  <1>2. CASE System /\ UNCHANGED session
    BY <1>2 DEF Next
  <1>3. ASSUME NEW w \in Writers, NEW r \in Background, Overwrite(w, r)
        PROVE  Next
    BY <1>3, BackgroundRequests DEF Overwrite, Next
  <1>4. ASSUME NEW e \in Editors, NEW p \in Pages, ReadMeta(e, p)
        PROVE  UNCHANGED vars
    BY <1>4 DEF ReadMeta
  <1>5. ASSUME NEW e \in Editors, ReadFile(e) \/ Refused(e) \/ EndSession(e)
        PROVE  UNCHANGED vars
    BY <1>5 DEF ReadFile, Refused, EndSession
  <1>6. ASSUME NEW e \in Editors, NEW w \in Writers, NEW r \in Requests, Save(e, w, r)
        PROVE  Next
    BY <1>6 DEF Save, Next
  <1> QED
    BY <1>1, <1>2, <1>3, <1>4, <1>5, <1>6 DEF SessionNext

\* Whatever holds of PageWrite for all requests holds below its editors.
THEOREM EditorsCallPageWrite == SessionSpec => Spec
  <1>1. SessionInit => Init
    BY DEF SessionInit
  <1> QED
    BY <1>1, StepOfPipeline, PTL DEF SessionSpec, Spec

\* The rows that editors and background writers leave behind are those of atomic
\* writes: no reading without the lock, and no refused save, shows in the tables.
THEOREM SessionsAreAtomic == SessionSpec => ImplementsAtomicWiki
  BY EditorsCallPageWrite, TablesAreAtomic, PTL

\* The invariants of PageWrite hold below the editors.
LEMMA PipelineInvariance == SessionSpec => []PipelineInv
  BY EditorsCallPageWrite, ChainInvariance, PTL DEF PipelineInv

-----------------------------------------------------------------------------
(* What a step of the pipeline does to calls and rows.                     *)

\* A call that has been made keeps its request.
LEMMA CallsStay ==
    ASSUME TypeInv, [Next]_vars, NEW w \in Writers, pc[w] # "idle"
    PROVE  pc'[w] # "idle" /\ req'[w] = req[w]
  <1> USE DEF TypeInv, TypeOK
  <1>1. CASE UNCHANGED vars
    BY <1>1 DEF vars, calls
  <1>2. ASSUME NEW v \in Writers, NEW r \in Requests, Submit(v, r)
        PROVE  pc'[w] # "idle" /\ req'[w] = req[w]
    BY <1>2 DEF Submit
  <1>3. ASSUME NEW v \in Writers, Accept(v) \/ Disconnect(v) \/ Finish(v) \/ StorageError(v)
        PROVE  pc'[w] # "idle" /\ req'[w] = req[w]
    BY <1>3 DEF Accept, Disconnect, Finish, StorageError, Reject
  <1>4. ASSUME NEW v \in Writers, CheckLayer(v) \/ CheckActor(v) \/ CheckPrecondition(v)
        PROVE  pc'[w] # "idle" /\ req'[w] = req[w]
    BY <1>4 DEF CheckLayer, CheckActor, CheckPrecondition, Proceed, Reject
  <1>5. ASSUME NEW v \in Writers,
               TruncateFile(v) \/ WriteFile(v) \/ CommitGit(v) \/ ProjectTables(v)
        PROVE  pc'[w] # "idle" /\ req'[w] = req[w]
    BY <1>5 DEF TruncateFile, WriteFile, CommitGit, ProjectTables
  <1>6. CASE Crash
    BY <1>6 DEF Crash
  <1>7. CASE Restart \/ Shutdown \/ Stop
    BY <1>7 DEF Restart, Shutdown, Stop, calls
  <1>8. CASE (\E a \in Suspendable : SuspendActor(a)) \/ (\E l \in Retirable : RetireLayer(l))
    BY <1>8 DEF SuspendActor, RetireLayer, calls
  <1> QED
    BY <1>1, <1>2, <1>3, <1>4, <1>5, <1>6, <1>7, <1>8 DEF Next, System, Pipeline

\* Only the transaction changes a row or records an edit.
LEMMA RowsStay ==
    ASSUME [Next]_vars, \A w \in Writers : ~ProjectTables(w)
    PROVE  UNCHANGED <<pages, page_edits>>
  BY DEF vars, Next, System, Pipeline, Submit, Accept, Disconnect, Finish, StorageError,
         CheckLayer, CheckActor, CheckPrecondition, TruncateFile, WriteFile, CommitGit, Crash,
         Restart, Shutdown, Stop, SuspendActor, RetireLayer, tables

\* A row with a revision is the row of a page.
LEMMA RowIsWhole ==
    ASSUME PipelineInv, NEW p \in Pages
    PROVE  pages[p] \in Row /\ (pages[p].content_hash # None => pages[p].present)
  <1>1. pages[p] \in Row
    BY DEF PipelineInv, SafetyInv, TypeInv, TypeOK
  <1>2. CASE EditsAt(p) = {} /\ pages[p] = IF p \in Imported THEN UnrecordedRow ELSE NoRow
    BY <1>1, <1>2 DEF UnrecordedRow, NoRow
  <1>3. CASE pages[p].present
    BY <1>1, <1>3
  <1> QED
    BY <1>2, <1>3 DEF PipelineInv, ChainInv, RowInv

-----------------------------------------------------------------------------
(* The sessions' invariant.                                                *)

\* A session that has just begun.
LEMMA FreshSession ==
    /\ Fresh \in Session
    /\ Fresh.at = "start" /\ Fresh.call = None /\ ~Fresh.warned /\ ~Fresh.blind
    /\ Fresh.row = NoRow /\ Fresh.edits = 0
  BY DEF Fresh, Session, Row, NoRow

\* Nobody has anything open to begin with.
LEMMA InitEditors == SessionInit => EditorInv
  <1> SUFFICES ASSUME SessionInit PROVE EditorInv
    OBVIOUS
  <1>1. session = [e \in Editors |-> Fresh] /\ page_edits = <<>>
    BY DEF SessionInit, Init
  <1>2. ASSUME NEW e \in Editors PROVE Placed(e) /\ Sent(e) /\ Shown(e)
    BY <1>1, FreshSession DEF Placed, Sent, Shown, NoRow
  <1> QED
    BY <1>1, <1>2, FreshSession DEF EditorInv

\* What an editor was shown may be overtaken, but not unnoticed.
LEMMA ShownStays ==
    ASSUME PipelineInv, EditorInv, [Next]_vars, NEW e \in Editors, session'[e] = session[e]
    PROVE  Shown(e)'
  <1>1. session[e] \in Session /\ Shown(e)
    BY DEF EditorInv
  <1>2. CASE \A w \in Writers : ~ProjectTables(w)
    BY <1>1, <1>2, RowsStay DEF Shown, EditedSince
  <1>3. ASSUME NEW w \in Writers, ProjectTables(w)
        PROVE  Shown(e)'
    <2>0. PICK n : n = Len(page_edits) + 1
      OBVIOUS
    <2>1. /\ n \in Nat \ {0} /\ DOMAIN page_edits = 1..(n - 1) /\ DOMAIN page_edits' = 1..n
          /\ \A i \in DOMAIN page_edits : page_edits'[i] = page_edits[i]
          /\ page_edits'[n].page = req[w].page
      BY <1>3, <2>0, EditTraces DEF PipelineInv
    <2>2. Len(page_edits) = n - 1 /\ Len(page_edits') = n
      BY <2>0, <2>1, HistoryDomain, NextType DEF PipelineInv, SafetyInv
    <2>3. session[e].edits \in Nat
      BY <1>1 DEF Session
    <2>4. EditedSince(session[e]) => EditedSince(session[e])'
      BY <2>1 DEF EditedSince
    <2>5. req[w].page = session[e].page => EditedSince(session[e])'
      BY <1>1, <2>1, <2>2, <2>3 DEF EditedSince, Shown
    <2>6. req[w].page # session[e].page => pages'[session[e].page] = pages[session[e].page]
      BY <1>3 DEF ProjectTables, PipelineInv, SafetyInv, TypeInv, TypeOK
    <2> QED
      BY <1>1, <2>2, <2>3, <2>4, <2>5, <2>6 DEF Shown
  <1> QED
    BY <1>2, <1>3

\* A session that does nothing keeps its place in the invariant.
LEMMA EditorStays ==
    ASSUME PipelineInv, EditorInv, [Next]_vars, NEW e \in Editors, session'[e] = session[e]
    PROVE  Placed(e)' /\ Sent(e)' /\ Shown(e)'
  <1>1. session[e] \in Session /\ Placed(e) /\ Sent(e)
    BY DEF EditorInv
  <1>2. Placed(e)'
    BY <1>1 DEF Placed
  <1>3. session[e].call # None => session[e].call \in Writers
    BY <1>1 DEF Session
  <1>4. Sent(e)'
    BY <1>1, <1>3, CallsStay DEF Sent, PipelineInv, SafetyInv
  <1> QED
    BY <1>2, <1>4, ShownStays

\* Reading a row shows the editor the page as it is.
LEMMA ReadMetaEditor ==
    ASSUME PipelineInv, EditorInv, NEW e \in Editors, NEW p \in Pages, ReadMeta(e, p)
    PROVE  session'[e] \in Session /\ Placed(e)' /\ Sent(e)' /\ Shown(e)'
  <1>1. UNCHANGED vars /\ pages' = pages /\ page_edits' = page_edits
    BY DEF ReadMeta, vars, tables
  <1>2. pages[p] \in Row /\ (pages[p].content_hash # None => pages[p].present)
    BY RowIsWhole
  <1>3. Len(page_edits) \in Nat
    BY HistoryDomain DEF PipelineInv, SafetyInv
  <1>4. PICK at : at = IF pages[p].present THEN "meta" ELSE "open"
    OBVIOUS
  <1>5. session'[e] = [Fresh EXCEPT !.at = at, !.page = p, !.row = pages[p],
                                    !.edits = Len(page_edits)]
    BY <1>4 DEF ReadMeta, EditorInv
  <1>6. /\ session'[e] \in Session
        /\ session'[e].at = at /\ session'[e].page = p /\ session'[e].row = pages[p]
        /\ session'[e].edits = Len(page_edits)
        /\ session'[e].call = None /\ ~session'[e].warned /\ ~session'[e].blind
    BY <1>2, <1>3, <1>4, <1>5, FreshSession DEF Session
  <1>7. Placed(e)'
    BY <1>2, <1>4, <1>6 DEF Placed
  <1>8. Sent(e)'
    BY <1>6 DEF Sent
  <1>9. Shown(e)'
    BY <1>1, <1>3, <1>6 DEF Shown
  <1> QED
    BY <1>6, <1>7, <1>8, <1>9

\* Reading the file adds a text to what the editor has, or ends its session.
LEMMA ReadFileEditor ==
    ASSUME PipelineInv, EditorInv, NEW e \in Editors, ReadFile(e)
    PROVE  session'[e] \in Session /\ Placed(e)' /\ Sent(e)' /\ Shown(e)'
  <1>1. UNCHANGED vars /\ pages' = pages /\ page_edits' = page_edits
    BY DEF ReadFile, vars, tables
  <1>2. session[e] \in Session /\ Placed(e) /\ Shown(e) /\ session[e].at = "meta"
    BY DEF EditorInv, ReadFile
  <1>3. session[e].page \in Pages /\ session[e].call = None /\ ~session[e].warned
    BY <1>2 DEF Placed
  <1>4. PICK text : text = disk[session[e].page]
    OBVIOUS
  <1>5. text \in Contents \cup {None, Torn}
    BY <1>3, <1>4 DEF PipelineInv, SafetyInv, TypeInv, TypeOK
  <1>6. PICK at : at = IF text = None THEN "ended" ELSE "open"
    OBVIOUS
  <1>7. session'[e] = [session[e] EXCEPT !.text = text, !.at = at]
    BY <1>4, <1>6 DEF ReadFile, EditorInv
  <1>8. /\ session'[e] \in Session
        /\ session'[e].at = at /\ session'[e].page = session[e].page
        /\ session'[e].row = session[e].row /\ session'[e].edits = session[e].edits
        /\ session'[e].call = None /\ ~session'[e].warned
        /\ session'[e].blind = session[e].blind
    BY <1>2, <1>3, <1>5, <1>6, <1>7 DEF Session
  <1>9. Placed(e)'
    BY <1>2, <1>3, <1>6, <1>8 DEF Placed
  <1>10. Sent(e)'
    BY <1>8 DEF Sent
  <1>11. Shown(e)'
    BY <1>1, <1>2, <1>8 DEF Shown, EditedSince
  <1> QED
    BY <1>8, <1>9, <1>10, <1>11

\* A refusal makes an agent begin again, and shows a browser the row as it is.
LEMMA RefusedEditor ==
    ASSUME PipelineInv, EditorInv, NEW e \in Editors, Refused(e)
    PROVE  session'[e] \in Session /\ Placed(e)' /\ Sent(e)' /\ Shown(e)'
  <1> DEFINE s == session[e]
  <1>1. UNCHANGED vars /\ pages' = pages /\ page_edits' = page_edits
    BY DEF Refused, vars, tables
  <1>2. s \in Session /\ Placed(e) /\ Sent(e) /\ s.at = "saving"
    BY DEF EditorInv, Refused, Answered
  <1>3. s.page \in Pages /\ s.call \in Writers /\ pc[s.call] # "idle"
    BY <1>2 DEF Placed, Sent, Session
  <1>4. Len(page_edits) \in Nat
    BY HistoryDomain DEF PipelineInv, SafetyInv
  <1>5. CASE e \in Agents
    <2>1. session'[e] = Fresh
      BY <1>5 DEF Refused, EditorInv
    <2> QED
      BY <1>4, <2>1, <1>1, FreshSession DEF Placed, Sent, Shown, NoRow
  <1>6. CASE e \notin Agents
    <2>1. PICK text : text = req[s.call].content
      OBVIOUS
    <2>2. text \in Contents
      BY <1>3, <2>1, RequestFields DEF PipelineInv, SafetyInv, TypeInv, CallsHaveRequests
    <2>3. pages[s.page] \in Row /\ (pages[s.page].content_hash # None => pages[s.page].present)
      BY <1>3, RowIsWhole
    <2>4. PICK blind \in BOOLEAN :
            session'[e] = [s EXCEPT !.at = "open", !.warned = TRUE, !.blind = blind,
                                    !.row = IF blind THEN NoRow ELSE pages[s.page],
                                    !.text = text, !.edits = Len(page_edits)]
      BY <1>6, <2>1 DEF Refused, EditorInv
    <2>5. PICK row : row = IF blind THEN NoRow ELSE pages[s.page]
      OBVIOUS
    <2>6. row \in Row /\ (row.content_hash # None => row.present)
      BY <2>3, <2>5 DEF NoRow, Row
    <2>7. /\ session'[e] \in Session
          /\ session'[e].at = "open" /\ session'[e].page = s.page
          /\ session'[e].row = row /\ session'[e].edits = Len(page_edits)
          /\ session'[e].warned /\ session'[e].blind = blind
      <3> HIDE DEF s
      <3>1. blind \in BOOLEAN /\ \E n \in Nat : n = Len(page_edits)
        BY <1>4, <2>4
      <3>2. PICK n \in Nat : n = Len(page_edits)
        BY <3>1
      <3>3. session'[e] = [s EXCEPT !.at = "open", !.warned = TRUE, !.blind = blind,
                                    !.row = row, !.text = text, !.edits = n]
        BY <2>4, <2>5, <3>2
      <3>4. session'[e] \in Session
        BY <1>2, <2>2, <2>6, <3>1, <3>2, <3>3 DEF Session
      <3>5. /\ session'[e].at = "open" /\ session'[e].page = s.page
            /\ session'[e].row = row /\ session'[e].edits = n
            /\ session'[e].warned
        BY <1>2, <3>3 DEF Session
      <3>6. session'[e].blind = blind
        BY <1>2, <3>3 DEF Session
      <3> QED
        BY <3>2, <3>4, <3>5, <3>6
    <2>8. Placed(e)'
      BY <1>3, <1>6, <2>6, <2>7 DEF Placed
    <2>9. Sent(e)'
      BY <2>7 DEF Sent
    <2>10. Shown(e)'
      BY <1>1, <1>4, <2>5, <2>7 DEF Shown
    <2> QED
      BY <2>7, <2>8, <2>9, <2>10
  <1> QED
    BY <1>5, <1>6

\* An answer, or a broken connection, ends the session.
LEMMA EndSessionEditor ==
    ASSUME PipelineInv, EditorInv, NEW e \in Editors, EndSession(e)
    PROVE  session'[e] \in Session /\ Placed(e)' /\ Sent(e)' /\ Shown(e)'
  <1>1. /\ UNCHANGED vars /\ pages' = pages /\ page_edits' = page_edits
        /\ pc' = pc /\ req' = req
    BY DEF EndSession, vars, tables, calls
  <1>2. /\ session[e] \in Session /\ Placed(e) /\ Sent(e) /\ Shown(e)
        /\ session[e].at = "saving"
    BY DEF EditorInv, EndSession
  <1>3. session'[e] = [session[e] EXCEPT !.at = "ended"]
    BY DEF EndSession, EditorInv
  <1>4. /\ session'[e] \in Session
        /\ session'[e].at = "ended" /\ session'[e].page = session[e].page
        /\ session'[e].row = session[e].row /\ session'[e].edits = session[e].edits
        /\ session'[e].call = session[e].call /\ session'[e].warned = session[e].warned
        /\ session'[e].blind = session[e].blind
    BY <1>2, <1>3 DEF Session
  <1> QED
    BY <1>1, <1>2, <1>4 DEF Placed, Sent, Shown, EditedSince

\* A save carries the session's page and the condition its row makes.
LEMMA SaveEditor ==
    ASSUME PipelineInv, EditorInv,
           NEW e \in Editors, NEW w \in Writers, NEW r \in Requests, Save(e, w, r)
    PROVE  session'[e] \in Session /\ Placed(e)' /\ Sent(e)' /\ Shown(e)'
  <1>1. pages' = pages /\ page_edits' = page_edits
    BY DEF Save, Submit, tables
  <1>2. /\ session[e] \in Session /\ Placed(e) /\ Shown(e)
        /\ session[e].at = "open"
    BY DEF EditorInv, Save
  <1>3. session'[e] = [session[e] EXCEPT !.at = "saving", !.call = w]
    BY DEF Save, EditorInv
  <1>4. /\ session'[e] \in Session
        /\ session'[e].at = "saving" /\ session'[e].page = session[e].page
        /\ session'[e].row = session[e].row /\ session'[e].edits = session[e].edits
        /\ session'[e].call = w /\ session'[e].warned = session[e].warned
        /\ session'[e].blind = session[e].blind
    BY <1>2, <1>3 DEF Session
  <1>5. pc'[w] = "queued" /\ req'[w] = r
    BY DEF Save, Submit, PipelineInv, SafetyInv, TypeInv, TypeOK
  <1>6. r.page = session[e].page /\ r.pre = SentCondition(e, session[e].row)
    BY DEF Save, SentCondition
  <1>7. Sent(e)'
    BY <1>4, <1>5, <1>6 DEF Sent
  <1>8. w # None
    BY NoneIsApart
  <1>9. Placed(e)'
    BY <1>2, <1>4, <1>8 DEF Placed
  <1>10. Shown(e)'
    BY <1>1, <1>2, <1>4 DEF Shown, EditedSince
  <1> QED
    BY <1>4, <1>7, <1>9, <1>10

\* A step of one editor is nobody else's.
LEMMA OneEditorMoves ==
    ASSUME EditorInv, NEW e \in Editors,
           \/ \E p \in Pages : ReadMeta(e, p)
           \/ ReadFile(e) \/ Refused(e) \/ EndSession(e)
           \/ \E w \in Writers, r \in Requests : Save(e, w, r)
    PROVE  /\ DOMAIN session' = Editors /\ session' = [session EXCEPT ![e] = session'[e]]
           /\ \A d \in Editors \ {e} : session'[d] = session[d]
  <1>1. session \in [Editors -> Session]
    BY DEF EditorInv
  <1>2. \E x : session' = [session EXCEPT ![e] = x]
    BY <1>1 DEF ReadMeta, ReadFile, Refused, EndSession, Save
  <1> QED
    BY <1>1, <1>2

\* Every step keeps every session in order.
LEMMA NextEditors ==
    PipelineInv /\ EditorInv /\ [SessionNext]_sessionVars => EditorInv'
  <1> SUFFICES ASSUME PipelineInv, EditorInv, [SessionNext]_sessionVars PROVE EditorInv'
    OBVIOUS
  <1>1. [Next]_vars
    BY StepOfPipeline
  <1>2. CASE UNCHANGED session
    BY <1>1, <1>2, EditorStays DEF EditorInv
  <1>3. ASSUME NEW e \in Editors,
               \/ \E p \in Pages : ReadMeta(e, p)
               \/ ReadFile(e) \/ Refused(e) \/ EndSession(e)
               \/ \E w \in Writers, r \in Requests : Save(e, w, r)
        PROVE  EditorInv'
    <2>1. session'[e] \in Session /\ Placed(e)' /\ Sent(e)' /\ Shown(e)'
      BY <1>3, ReadMetaEditor, ReadFileEditor, RefusedEditor, EndSessionEditor, SaveEditor
    <2>2. \A d \in Editors \ {e} : session'[d] = session[d]
      BY <1>3, OneEditorMoves
    <2>3. \A d \in Editors : Placed(d)' /\ Sent(d)' /\ Shown(d)'
      BY <1>1, <2>1, <2>2, EditorStays
    <2>4. session' \in [Editors -> Session]
      BY <1>3, <2>1, OneEditorMoves DEF EditorInv
    <2> QED
      BY <2>3, <2>4 DEF EditorInv
  <1> QED
    BY <1>2, <1>3 DEF SessionNext, sessionVars, Overwrite

\* The invariants of the pipeline and of the editors hold together.
LEMMA EditorInvariance == SessionSpec => [](PipelineInv /\ EditorInv)
  BY PipelineInvariance, InitEditors, NextEditors, PTL DEF SessionSpec

-----------------------------------------------------------------------------
(* Who is refused.                                                         *)

\* A condition made from a row is met by that row, unless the form is void.
LEMMA ConditionNamesItsRow ==
    ASSUME NEW e \in Editors, NEW row \in Row, row.content_hash # None => row.present,
           e \in Browsers => ~(row.present /\ row.content_hash = None)
    PROVE  Allows(SentCondition(e, row), row)
  BY EditorKinds DEF SentCondition, AgentCondition, FormCondition, Allows, Row

\* Only a condition that does not hold of the page's row makes a conflict.
LEMMA ConflictMeansUnmet ==
    ASSUME PipelineInv, [Next]_vars, NEW w \in Writers,
           pc[w] = "precondition", result'[w] = "conflict"
    PROVE  ~Allows(req[w].pre, pages[req[w].page])
  <1> USE DEF PipelineInv, SafetyInv, TypeInv, TypeOK
  <1>0. result[w] = "none"
    BY DEF OutcomeInv, ResultInv
  <1>1. CASE UNCHANGED vars
    BY <1>0, <1>1 DEF vars, calls
  <1>2. ASSUME NEW v \in Writers, NEW r \in Requests, Submit(v, r)
        PROVE  FALSE
    BY <1>0, <1>2 DEF Submit
  <1>3. ASSUME NEW v \in Writers, Accept(v) \/ Disconnect(v) \/ Finish(v) \/ StorageError(v)
        PROVE  FALSE
    BY <1>0, <1>3 DEF Accept, Disconnect, Finish, StorageError, Reject
  <1>4. ASSUME NEW v \in Writers, CheckLayer(v) \/ CheckActor(v)
        PROVE  FALSE
    BY <1>0, <1>4 DEF CheckLayer, CheckActor, Proceed, Reject
  <1>5. ASSUME NEW v \in Writers, CheckPrecondition(v)
        PROVE  ~Allows(req[w].pre, pages[req[w].page])
    BY <1>0, <1>5 DEF CheckPrecondition, Proceed, Reject
  <1>6. ASSUME NEW v \in Writers,
               TruncateFile(v) \/ WriteFile(v) \/ CommitGit(v) \/ ProjectTables(v)
        PROVE  FALSE
    BY <1>0, <1>6 DEF TruncateFile, WriteFile, CommitGit, ProjectTables
  <1>7. CASE Crash
    BY <1>0, <1>7 DEF Crash
  <1>8. CASE Restart \/ Shutdown \/ Stop
    BY <1>0, <1>8 DEF Restart, Shutdown, Stop, calls
  <1>9. CASE (\E a \in Suspendable : SuspendActor(a)) \/ (\E l \in Retirable : RetireLayer(l))
    BY <1>0, <1>9 DEF SuspendActor, RetireLayer, calls
  <1> QED
    BY <1>1, <1>2, <1>3, <1>4, <1>5, <1>6, <1>7, <1>8, <1>9 DEF Next, System, Pipeline

\* A refused save of an editor means that the page's row is another one.
LEMMA RefusalMeansChange ==
    ASSUME PipelineInv, EditorInv, [Next]_vars, NEW e \in Editors,
           session[e].at = "saving", pc[session[e].call] = "precondition",
           result'[session[e].call] = "conflict", ~FormIsVoid(e)
    PROVE  pages[session[e].page] # session[e].row
  <1> DEFINE s == session[e]
  <1>1. s \in Session /\ Placed(e) /\ Sent(e)
    BY DEF EditorInv
  <1>2. s.call \in Writers /\ s.page \in Pages /\ s.row \in Row
    BY <1>1 DEF Placed, Session
  <1>3. req[s.call].page = s.page /\ req[s.call].pre = SentCondition(e, s.row)
    BY <1>1 DEF Sent, Placed
  <1>4. ~Allows(req[s.call].pre, pages[req[s.call].page])
    BY <1>2, ConflictMeansUnmet
  <1>5. Allows(SentCondition(e, s.row), s.row)
    BY <1>1, <1>2, ConditionNamesItsRow DEF FormIsVoid, Placed
  <1> QED
    BY <1>3, <1>4, <1>5

\* No editor is refused for its own condition: a conditional save is refused only
\* if the row its editor read has changed, or if its form is void, under any faults
\* and beside any calls.
THEOREM NobodyIsRefusedWithoutChange == SessionSpec => RefusedOnlyIfChanged
  <1> DEFINE Justified ==
        \A e \in Editors :
          LET s == session[e]
          IN /\ s.at = "saving" /\ pc[s.call] = "precondition"
             /\ result'[s.call] = "conflict" /\ ~FormIsVoid(e)
             => pages[s.page] # s.row
  <1>1. PipelineInv /\ EditorInv /\ [SessionNext]_sessionVars => Justified
    BY StepOfPipeline, RefusalMeansChange
  <1>2. PipelineInv /\ EditorInv /\ [SessionNext]_sessionVars => [Justified]_sessionVars
    BY <1>1
  <1> QED
    BY <1>2, EditorInvariance, PTL DEF SessionSpec, RefusedOnlyIfChanged

\* Saving the form that came back, if it could be given the row's revision, is
\* refused only if yet another edit of the page was recorded after the form was made.
THEOREM SavingAgainAlwaysOverwrites == SessionSpec => SavingAgainOverwrites
  <1> DEFINE Justified ==
        \A e \in Browsers :
          LET s == session[e]
          IN /\ s.warned /\ s.at = "saving" /\ pc[s.call] = "precondition"
             /\ result'[s.call] = "conflict" /\ ~FormIsVoid(e)
             => \E i \in DOMAIN page_edits : i > s.edits /\ page_edits[i].page = s.page
  <1>1. PipelineInv /\ EditorInv /\ [SessionNext]_sessionVars => [Justified]_sessionVars
    <2> SUFFICES ASSUME PipelineInv, EditorInv, [SessionNext]_sessionVars,
                        NEW e \in Browsers,
                        session[e].at = "saving", pc[session[e].call] = "precondition",
                        result'[session[e].call] = "conflict", ~FormIsVoid(e)
                 PROVE  EditedSince(session[e])
      BY DEF EditedSince
    <2>1. e \in Editors
      BY EditorKinds
    <2>2. pages[session[e].page] # session[e].row
      BY <2>1, StepOfPipeline, RefusalMeansChange
    <2> QED
      BY <2>1, <2>2 DEF EditorInv, Shown, FormIsVoid
  <1> QED
    BY <1>1, EditorInvariance, PTL DEF SessionSpec, SavingAgainOverwrites

-----------------------------------------------------------------------------
(* What a save replaces.  A text that is written twice makes an old row    *)
(* current again (README.md, "Findings"), a fault leaves a file that no    *)
(* row speaks of, and so does another tool.  The rest of this module is    *)
(* about behaviours without the three.                                     *)

Undisturbed == Rewrites = FALSE /\ Faults = {} /\ Imported = {}

\* A call that has ended stays so.
LEMMA EndedStay ==
    ASSUME TypeInv, [Next]_vars, NEW w \in Writers, pc[w] \in {"finishing", "done"}
    PROVE  pc'[w] \in {"finishing", "done"}
  <1> USE DEF TypeInv, TypeOK
  <1>1. CASE UNCHANGED vars
    BY <1>1 DEF vars, calls
  <1>2. ASSUME NEW v \in Writers, NEW r \in Requests, Submit(v, r)
        PROVE  pc'[w] \in {"finishing", "done"}
    BY <1>2 DEF Submit
  <1>3. ASSUME NEW v \in Writers, Accept(v) \/ Disconnect(v) \/ Finish(v) \/ StorageError(v)
        PROVE  pc'[w] \in {"finishing", "done"}
    BY <1>3 DEF Accept, Disconnect, Finish, StorageError, Reject
  <1>4. ASSUME NEW v \in Writers, CheckLayer(v) \/ CheckActor(v) \/ CheckPrecondition(v)
        PROVE  pc'[w] \in {"finishing", "done"}
    BY <1>4 DEF CheckLayer, CheckActor, CheckPrecondition, Proceed, Reject
  <1>5. ASSUME NEW v \in Writers,
               TruncateFile(v) \/ WriteFile(v) \/ CommitGit(v) \/ ProjectTables(v)
        PROVE  pc'[w] \in {"finishing", "done"}
    BY <1>5 DEF TruncateFile, WriteFile, CommitGit, ProjectTables
  <1>6. CASE Crash
    BY <1>6 DEF Crash
  <1>7. CASE Restart \/ Shutdown \/ Stop
    BY <1>7 DEF Restart, Shutdown, Stop, calls
  <1>8. CASE (\E a \in Suspendable : SuspendActor(a)) \/ (\E l \in Retirable : RetireLayer(l))
    BY <1>8 DEF SuspendActor, RetireLayer, calls
  <1> QED
    BY <1>1, <1>2, <1>3, <1>4, <1>5, <1>6, <1>7, <1>8 DEF Next, System, Pipeline

\* The positions between a call's condition and its commit.
Replacing == {"file", "truncated", "written"}

\* Where nothing fails, a call that has touched its page projects it, and one
\* that is about to replace its page has just been checked.
LEMMA StepsInOrder ==
    ASSUME Undisturbed, TypeInv, [Next]_vars, NEW w \in Writers
    PROVE  /\ pc[w] \in Unprojected => pc'[w] \in Unprojected \/ ProjectTables(w)
           /\ pc'[w] \in Replacing => pc[w] \in Replacing \/ CheckPrecondition(w)
           /\ drifted' \subseteq drifted
  <1> USE StepKinds DEF TypeInv, TypeOK, Undisturbed, Replacing
  <1> DEFINE Goal == /\ pc[w] \in Unprojected => pc'[w] \in Unprojected \/ ProjectTables(w)
                     /\ pc'[w] \in Replacing => pc[w] \in Replacing \/ CheckPrecondition(w)
                     /\ drifted' \subseteq drifted
  <1>1. CASE UNCHANGED vars
    BY <1>1 DEF vars, calls
  <1>2. ASSUME NEW v \in Writers, NEW r \in Requests, Submit(v, r)
        PROVE  Goal
    BY <1>2 DEF Submit
  <1>3. ASSUME NEW v \in Writers, Accept(v) \/ Disconnect(v) \/ Finish(v)
        PROVE  Goal
    BY <1>3 DEF Accept, Disconnect, Finish
  <1>4. ASSUME NEW v \in Writers, StorageError(v)
        PROVE  Goal
    BY <1>4 DEF StorageError
  <1>5. ASSUME NEW v \in Writers, CheckLayer(v) \/ CheckActor(v)
        PROVE  Goal
    BY <1>5 DEF CheckLayer, CheckActor, Proceed, Reject
  <1>6. ASSUME NEW v \in Writers, CheckPrecondition(v)
        PROVE  Goal
    <2>1. pc[v] = "precondition" /\ drifted' = drifted
      BY <1>6 DEF CheckPrecondition
    <2>2. v # w => pc'[w] = pc[w]
      BY <1>6 DEF CheckPrecondition, Proceed, Reject
    <2> QED
      BY <1>6, <2>1, <2>2
  <1>7. ASSUME NEW v \in Writers, TruncateFile(v) \/ WriteFile(v) \/ CommitGit(v)
        PROVE  Goal
    BY <1>7 DEF TruncateFile, WriteFile, CommitGit
  <1>8. ASSUME NEW v \in Writers, ProjectTables(v)
        PROVE  Goal
    <2>1. /\ v # w => pc'[w] = pc[w]
          /\ pc'[v] = "finishing" /\ drifted' \subseteq drifted
      BY <1>8 DEF ProjectTables
    <2> QED
      BY <1>8, <2>1
  <1>9. CASE Crash
    BY <1>9 DEF Crash
  <1>10. CASE Restart \/ Shutdown \/ Stop
    BY <1>10 DEF Restart, Shutdown, Stop, calls
  <1>11. CASE (\E a \in Suspendable : SuspendActor(a)) \/ (\E l \in Retirable : RetireLayer(l))
    BY <1>11 DEF SuspendActor, RetireLayer, calls
  <1> QED
    BY <1>1, <1>2, <1>3, <1>4, <1>5, <1>6, <1>7, <1>8, <1>9, <1>10, <1>11
       DEF Next, System, Pipeline

\* Only the commit changes the history.
LEMMA HistoryStays ==
    ASSUME [Next]_vars, \A w \in Writers : ~CommitGit(w)
    PROVE  commits' = commits
  BY DEF vars, Next, System, Pipeline, Submit, Accept, Disconnect, Finish, StorageError,
         CheckLayer, CheckActor, CheckPrecondition, TruncateFile, WriteFile, ProjectTables,
         Crash, Restart, Shutdown, Stop, SuspendActor, RetireLayer, content

\* A call is made by its arrival, which in a session brings a new text.
LEMMA CallsArrive ==
    ASSUME TypeInv, [SessionNext]_sessionVars
    PROVE  \/ \A w \in Writers : pc'[w] # "idle" => pc[w] # "idle"
           \/ \E w \in Writers, r \in Requests : Submit(w, r) /\ NewText(r.content)
  <1> USE DEF TypeInv, TypeOK
  <1>1. CASE UNCHANGED vars
    BY <1>1 DEF vars, calls
  <1>2. ASSUME NEW v \in Writers, Accept(v) \/ Disconnect(v) \/ Finish(v) \/ StorageError(v)
        PROVE  \A w \in Writers : pc'[w] # "idle" => pc[w] # "idle"
    BY <1>2, StepKinds DEF Accept, Disconnect, Finish, StorageError, Reject
  <1>3. ASSUME NEW v \in Writers, CheckLayer(v) \/ CheckActor(v) \/ CheckPrecondition(v)
        PROVE  \A w \in Writers : pc'[w] # "idle" => pc[w] # "idle"
    BY <1>3 DEF CheckLayer, CheckActor, CheckPrecondition, Proceed, Reject
  <1>4. ASSUME NEW v \in Writers,
               TruncateFile(v) \/ WriteFile(v) \/ CommitGit(v) \/ ProjectTables(v)
        PROVE  \A w \in Writers : pc'[w] # "idle" => pc[w] # "idle"
    BY <1>4 DEF TruncateFile, WriteFile, CommitGit, ProjectTables
  <1>5. CASE Crash
    BY <1>5 DEF Crash
  <1>6. CASE Restart \/ Shutdown \/ Stop
    BY <1>6 DEF Restart, Shutdown, Stop, calls
  <1>7. CASE (\E a \in Suspendable : SuspendActor(a)) \/ (\E l \in Retirable : RetireLayer(l))
    BY <1>7 DEF SuspendActor, RetireLayer, calls
  <1>8. ASSUME NEW w \in Writers, NEW r \in Background, Overwrite(w, r)
        PROVE  r \in Requests /\ Submit(w, r) /\ NewText(r.content)
    BY <1>8, BackgroundRequests DEF Overwrite
  <1>9. ASSUME NEW e \in Editors, NEW w \in Writers, NEW r \in Requests, Save(e, w, r)
        PROVE  Submit(w, r) /\ NewText(r.content)
    BY <1>9 DEF Save
  <1>10. ASSUME NEW e \in Editors,
                (\E p \in Pages : ReadMeta(e, p)) \/ ReadFile(e) \/ Refused(e) \/ EndSession(e)
         PROVE  UNCHANGED vars
    BY <1>10 DEF ReadMeta, ReadFile, Refused, EndSession
  <1> QED
    BY <1>1, <1>2, <1>3, <1>4, <1>5, <1>6, <1>7, <1>8, <1>9, <1>10
       DEF SessionNext, sessionVars, System, Pipeline

\* A row that is there was written by a call, which has ended.
LEMMA PagesAreWritten ==
    ASSUME Undisturbed, PipelineInv, NEW p \in Pages, pages[p].present
    PROVE  RowWritten(pages[p].content_hash)
  <1>1. PICK k \in EditsAt(p) : pages[p].content_hash = ContentHash[EditText(k)]
    BY DEF PipelineInv, ChainInv, RowInv, Undisturbed, NoRow
  <1>2. k \in DOMAIN page_edits /\ page_edits[k].page = p
    BY <1>1 DEF EditsAt
  <1> DEFINE v == page_edits[k].write
             c == page_edits[k].git_commit
  <1>3. v \in Writers /\ c \in CommitsAt(p)
    BY <1>2, HistoryHasCalls DEF PipelineInv
  <1>4. c \in 2..Len(commits) /\ commits[c].page = p /\ commits[c].write = v
    BY <1>2, <1>3 DEF CommitsAt, PipelineInv, SafetyInv, EditsFollowGit
  <1>5. req[v].page = p /\ commits[c].tree[p] = req[v].content
    BY <1>4 DEF PipelineInv, OutcomeInv, AuthorInv
  <1>6. EditText(k) = req[v].content
    BY <1>2, <1>5 DEF EditText
  <1>7. c \in CommitsOf(v) /\ k \in EditsOf(v)
    BY <1>2, <1>4, HistoryDomain DEF CommitsOf, EditsOf, PipelineInv, SafetyInv
  <1>8. pc[v] \notin Early /\ pc[v] # "committed" /\ pc[v] \in Steps
    BY <1>3, <1>7 DEF PipelineInv, OutcomeInv, TraceInv, SafetyInv, TypeInv, TypeOK
  <1>9. pc[v] \in {"finishing", "done"}
    BY <1>8 DEF Early, Steps
  <1> QED
    BY <1>1, <1>3, <1>6, <1>9 DEF RowWritten

\* What a call has written stays written.
LEMMA RowWrittenStays ==
    ASSUME PipelineInv, [Next]_vars, NEW hash, RowWritten(hash)
    PROVE  RowWritten(hash)'
  <1>1. PICK v \in Writers :
            pc[v] \in {"finishing", "done"} /\ ContentHash[req[v].content] = hash
    BY DEF RowWritten
  <1>2. pc'[v] \in {"finishing", "done"} /\ req'[v] = req[v]
    BY <1>1, EndedStay, CallsStay DEF PipelineInv, SafetyInv
  <1> QED
    BY <1>1, <1>2 DEF RowWritten

\* Texts stay apart.
LEMMA NextDistinct ==
    ASSUME Undisturbed, PipelineInv, DistinctInv, [SessionNext]_sessionVars
    PROVE  DistinctInv'
  <1>1. TypeInv /\ [Next]_vars
    BY StepOfPipeline DEF PipelineInv, SafetyInv
  <1> SUFFICES ASSUME NEW v \in Writers, NEW w \in Writers, v # w,
                      pc'[v] # "idle", pc'[w] # "idle"
               PROVE  req'[v].content # req'[w].content
    BY DEF DistinctInv
  <1>2. CASE \A u \in Writers : pc'[u] # "idle" => pc[u] # "idle"
    BY <1>1, <1>2, CallsStay DEF DistinctInv
  <1>3. ASSUME NEW u \in Writers, NEW r \in Requests, Submit(u, r), NewText(r.content)
        PROVE  req'[v].content # req'[w].content
    <2>1. \A x \in Writers : x # u => pc'[x] = pc[x] /\ req'[x] = req[x]
      BY <1>1, <1>3 DEF Submit, TypeInv, TypeOK
    <2>2. req'[u] = r
      BY <1>1, <1>3 DEF Submit, TypeInv, TypeOK
    <2>3. \A x \in Writers : pc[x] # "idle" => req[x].content # r.content
      BY <1>1, <1>3, RequestsAreWriteRequests, NoneIsNoRequest
         DEF NewText, Undisturbed, TypeInv, CallsHaveRequests
    <2> QED
      BY <2>1, <2>2, <2>3 DEF DistinctInv
  <1> QED
    BY <1>1, <1>2, <1>3, CallsArrive

\* The transaction outdates what every editor of the page has read: its text is
\* none that any row had before.
LEMMA ProjectOutdates ==
    ASSUME PipelineInv, EditorInv, CarefulInv, NEW e \in Editors, NEW w \in Writers,
           ProjectTables(w), session[e].at # "start", session[e].page = req[w].page,
           session'[e] = session[e]
    PROVE  Outdated(session[e])'
  <1> DEFINE s == session[e]
  <1>1. s.page \in Pages /\ pc[w] = "committed" /\ req[w] \in Requests
    BY DEF EditorInv, Placed, ProjectTables, PipelineInv, SafetyInv, TypeInv, CallsHaveRequests
  <1>2. pages'[s.page] = Written(req[w])
    BY <1>1 DEF ProjectTables, PipelineInv, SafetyInv, TypeInv, TypeOK
  <1>3. pages'[s.page].present /\ pages'[s.page].content_hash = ContentHash[req[w].content]
    BY <1>2 DEF Written
  <1>4. CASE s.row.present
    <2>1. PICK v \in Writers : /\ pc[v] \in {"finishing", "done"}
                               /\ ContentHash[req[v].content] = s.row.content_hash
      BY <1>4 DEF CarefulInv, ReadWell, RowWritten
    <2>2. v # w /\ req[v].content # req[w].content /\ req[v] \in Requests
      BY <1>1, <2>1 DEF CarefulInv, DistinctInv, PipelineInv, SafetyInv, TypeInv, CallsHaveRequests
    <2>3. ContentHash[req[v].content] # ContentHash[req[w].content]
      BY <1>1, <2>2, RequestFields, HashIsInjective
    <2> QED
      BY <1>3, <1>4, <2>1, <2>3 DEF Outdated
  <1>5. CASE ~s.row.present
    BY <1>3, <1>5 DEF Outdated
  <1> QED
    BY <1>4, <1>5

\* What an editor has read stays good, or becomes outdated when the write it was
\* read from ends.
LEMMA ReadStays ==
    ASSUME Undisturbed, PipelineInv, EditorInv, CarefulInv, [Next]_vars,
           NEW e \in Editors, session'[e] = session[e]
    PROVE  ReadWell(e)'
  <1> DEFINE s == session[e]
  <1>1. s.at # "start" /\ s.row.present => RowWritten(s.row.content_hash)'
    BY RowWrittenStays DEF CarefulInv, ReadWell
  <1>2. ASSUME HasRead(s)
        PROVE  Matches(s) \/ Outdated(s)' \/ InFlight(s.page)'
    <2>1. s.at # "start" /\ s.page \in Pages
      BY <1>2 DEF HasRead, EditorInv, Placed
    <2>2. CASE Matches(s)
      BY <2>2
    <2>3. CASE Outdated(s)
      <3>1. CASE \A w \in Writers : ~ProjectTables(w)
        BY <2>3, <3>1, RowsStay DEF Outdated
      <3>2. ASSUME NEW w \in Writers, ProjectTables(w), req[w].page # s.page
            PROVE  Outdated(s)'
        <4>1. pages'[s.page] = pages[s.page]
          BY <2>1, <3>2 DEF ProjectTables, PipelineInv, SafetyInv, TypeInv, TypeOK
        <4> QED
          BY <2>3, <4>1 DEF Outdated
      <3> QED
        BY <2>1, <3>1, <3>2, ProjectOutdates
    <2>4. CASE InFlight(s.page)
      <3>1. PICK v \in Writers : pc[v] \in Unprojected /\ req[v].page = s.page
        BY <2>4 DEF InFlight
      <3>2. req'[v] = req[v]
        BY <3>1, CallsStay, StepKinds DEF PipelineInv, SafetyInv
      <3>3. pc'[v] \in Unprojected \/ ProjectTables(v)
        BY <3>1, StepsInOrder DEF PipelineInv, SafetyInv
      <3>4. CASE pc'[v] \in Unprojected
        BY <3>1, <3>2, <3>4 DEF InFlight
      <3>5. CASE ProjectTables(v)
        BY <2>1, <3>1, <3>5, ProjectOutdates
      <3> QED
        BY <3>3, <3>4, <3>5
    <2> QED
      BY <1>2, <2>2, <2>3, <2>4 DEF CarefulInv, ReadWell
  <1> QED
    BY <1>1, <1>2 DEF ReadWell, HasRead, Matches

\* A condition that holds of the page's row, with no write under way but the
\* call's own, holds of the text the editor read: that is the page's text.
LEMMA CheckedIsRead ==
    ASSUME Undisturbed, PipelineInv, EditorInv, CarefulInv, NEW e \in Editors,
           session[e].call # None, ~session[e].warned,
           CheckPrecondition(session[e].call), pc'[session[e].call] = "file"
    PROVE  HeadCommit.tree[session[e].page] = session[e].text
  <1> DEFINE s == session[e]
             w == s.call
             p == s.page
  <1>1. s \in Session /\ Placed(e) /\ Sent(e) /\ ReadWell(e)
    BY DEF EditorInv, CarefulInv
  <1>2. w \in Writers /\ s.at \in {"saving", "ended"} /\ p \in Pages /\ s.row \in Row
    BY <1>1 DEF Placed, Session
  <1>3. req[w].page = p /\ req[w].pre = SentCondition(e, s.row)
    BY <1>1, <1>2 DEF Sent
  <1>4. pc[w] = "precondition" /\ Allows(SentCondition(e, s.row), pages[p])
    BY <1>2, <1>3 DEF CheckPrecondition, Reject, PipelineInv, SafetyInv, TypeInv, TypeOK
  <1>5. ~InFlight(p)
    BY <1>2, <1>4, Alone, StepKinds DEF InFlight, PipelineInv, SafetyInv
  <1>6. /\ disk[p] = HeadCommit.tree[p]
        /\ pages[p].present <=> disk[p] # None
        /\ disk[p] # None => pages[p].content_hash = ContentHash[disk[p]]
    BY <1>2, <1>5 DEF PipelineInv, SafetyInv, StoresAgree, CarefulInv
  <1>7. disk[p] \in Contents \cup {None}
    <2>1. HeadCommit \in Commit
      BY HeadIsCommit DEF PipelineInv, SafetyInv, TypeInv, TypeOK
    <2> QED
      BY <1>2, <1>6, <2>1 DEF Commit
  <1>8. CASE s.row.present
    <2>1. PICK v \in Writers : /\ pc[v] \in {"finishing", "done"}
                               /\ ContentHash[req[v].content] = s.row.content_hash
      BY <1>1, <1>2, <1>8 DEF ReadWell, RowWritten
    <2>2. req[v].content \in Contents
      BY <2>1, RequestFields DEF PipelineInv, SafetyInv, TypeInv, CallsHaveRequests
    <2>3. s.row.content_hash # None
      BY <2>1, <2>2, HashIsInjective, NoneIsNoValue
    <2>4. SentCondition(e, s.row) = [kind |-> "Revision", rev |-> s.row.content_hash]
      BY <2>3 DEF SentCondition, AgentCondition, FormCondition
    <2>5. pages[p].present /\ pages[p].content_hash = s.row.content_hash
      BY <1>4, <2>4 DEF Allows
    <2>6. s.text \in Contents /\ ContentHash[s.text] = s.row.content_hash
      BY <1>1, <1>5, <1>8, <2>5 DEF ReadWell, HasRead, Matches, Outdated
    <2> QED
      BY <1>6, <1>7, <2>5, <2>6, HashIsInjective
  <1>9. CASE ~s.row.present
    <2>1. s.row.content_hash = None
      BY <1>1, <1>9 DEF Placed
    <2>2. SentCondition(e, s.row) = [kind |-> "Absent", rev |-> None]
      BY <1>9, <2>1 DEF SentCondition, AgentCondition, FormCondition
    <2>3. ~pages[p].present
      BY <1>4, <2>2 DEF Allows
    <2>4. s.text = None
      BY <1>1, <1>5, <1>9, <2>3 DEF ReadWell, HasRead, Matches, Outdated
    <2> QED
      BY <1>6, <2>3, <2>4
  <1> QED
    BY <1>8, <1>9

\* From its check to its commit, HEAD is what a save is about to replace.
LEMMA AboutStays ==
    ASSUME Undisturbed, PipelineInv, EditorInv, CarefulInv, [Next]_vars,
           NEW e \in Editors, session'[e] = session[e]
    PROVE  AboutToReplace(e)'
  <1> DEFINE s == session[e]
             w == s.call
  <1> SUFFICES ASSUME w # None, ~s.warned, pc'[w] \in Replacing
               PROVE  HeadCommit'.tree[s.page] = s.text
    BY DEF AboutToReplace, Replacing
  <1>1. w \in Writers
    BY DEF EditorInv, Session
  <1>2. TypeInv /\ LockInv
    BY DEF PipelineInv, SafetyInv
  <1>3. pc[w] \in Replacing \/ CheckPrecondition(w)
    BY <1>1, <1>2, StepsInOrder
  <1>4. CASE pc[w] \in Replacing
    <2>1. \A v \in Writers : ~CommitGit(v)
      <3> SUFFICES ASSUME NEW v \in Writers, CommitGit(v) PROVE FALSE
        OBVIOUS
      <3>1. pc[v] = "written" /\ pc'[v] = "committed"
        BY <1>2 DEF CommitGit, TypeInv, TypeOK
      <3>2. v = w
        BY <1>1, <1>2, <1>4, <3>1, Alone, StepKinds DEF Replacing
      <3> QED
        BY <3>1, <3>2 DEF Replacing
    <2>2. commits' = commits
      BY <2>1, HistoryStays
    <2>3. HeadCommit.tree[s.page] = s.text
      BY <1>4 DEF CarefulInv, AboutToReplace, Replacing
    <2> QED
      BY <2>2, <2>3 DEF HeadCommit
  <1>5. CASE CheckPrecondition(w)
    <2>1. commits' = commits
      BY <1>5 DEF CheckPrecondition, content
    <2>2. pc'[w] = "file"
      BY <1>1, <1>2, <1>5 DEF CheckPrecondition, Proceed, Reject, TypeInv, TypeOK, Replacing
    <2> QED
      BY <1>5, <2>1, <2>2, CheckedIsRead DEF HeadCommit
  <1> QED
    BY <1>3, <1>4, <1>5

\* The commit of a save replaces HEAD, and no later commit changes that.
LEMMA SavesStay ==
    ASSUME PipelineInv, EditorInv, CarefulInv, [Next]_vars,
           NEW e \in Editors, session'[e] = session[e]
    PROVE  SavesOver(e)'
  <1> DEFINE s == session[e]
             w == s.call
  <1> SUFFICES ASSUME w # None, ~s.warned, NEW i \in CommitsOf(w)'
               PROVE  commits'[i - 1].tree[s.page] = s.text
    BY DEF SavesOver
  <1>1. w \in Writers
    BY DEF EditorInv, Session
  <1>2. \A j \in CommitsOf(w) :
            commits[j - 1].tree[s.page] = s.text /\ j \in 2..Len(commits)
    <2>1. ASSUME NEW j \in CommitsOf(w) PROVE j \in 2..Len(commits)
      <3>1. j \in 1..Len(commits) /\ commits[j].write = w
        BY HistoryDomain DEF CommitsOf, PipelineInv, SafetyInv
      <3>2. j # 1
        BY <1>1, <3>1, NoneIsApart DEF PipelineInv, OutcomeInv, AuthorInv
      <3> QED
        BY <3>1, <3>2
    <2> QED
      BY <2>1 DEF CarefulInv, SavesOver
  <1>3. CASE \A v \in Writers : ~CommitGit(v)
    <2>1. commits' = commits
      BY <1>3, HistoryStays
    <2> QED
      BY <1>2, <2>1 DEF CommitsOf
  <1>4. ASSUME NEW v \in Writers, CommitGit(v)
        PROVE  commits'[i - 1].tree[s.page] = s.text
    <2>0. PICK n : n = Len(commits)
      OBVIOUS
    <2>1. /\ n \in Nat \ {0} /\ \A j \in 1..n : commits'[j] = commits[j]
          /\ CommitsOf(w)' = IF w = v THEN CommitsOf(w) \cup {n + 1} ELSE CommitsOf(w)
      BY <1>1, <1>4, <2>0, CommitTraces DEF PipelineInv
    <2>2. CASE i \in CommitsOf(w)
      BY <1>2, <2>0, <2>1, <2>2
    <2>3. CASE w = v /\ i = n + 1
      <3>1. pc[w] = "written"
        BY <1>4, <2>3 DEF CommitGit
      <3>2. commits[n].tree[s.page] = s.text
        BY <2>0, <3>1 DEF CarefulInv, AboutToReplace, HeadCommit
      <3> QED
        BY <2>1, <2>3, <3>2
    <2> QED
      BY <2>1, <2>2, <2>3
  <1> QED
    BY <1>3, <1>4

-----------------------------------------------------------------------------
(* The editors' own steps.                                                 *)

\* Reading a row, an editor has a text only of a page that is not there: none.
LEMMA ReadMetaReads ==
    ASSUME Undisturbed, PipelineInv, EditorInv, CarefulInv, [Next]_vars,
           NEW e \in Editors, NEW p \in Pages, ReadMeta(e, p)
    PROVE  ReadWell(e)' /\ AboutToReplace(e)' /\ SavesOver(e)'
  <1>1. PICK row, at : row = pages[p] /\ at = IF row.present THEN "meta" ELSE "open"
    OBVIOUS
  <1>2. session'[e] = [Fresh EXCEPT !.at = at, !.page = p, !.row = row,
                                    !.edits = Len(page_edits)]
    BY <1>1 DEF ReadMeta, EditorInv
  <1>3. Fresh.text = None
    BY DEF Fresh
  <1>4. /\ session'[e].at = at /\ session'[e].page = p /\ session'[e].row = row
        /\ session'[e].text = None /\ session'[e].call = None
    BY <1>2, <1>3, FreshSession DEF Session
  <1>5. row.present => RowWritten(row.content_hash)'
    BY <1>1, PagesAreWritten, RowWrittenStays
  <1>6. ReadWell(e)'
    BY <1>1, <1>4, <1>5 DEF ReadWell, HasRead, Matches
  <1> QED
    BY <1>4, <1>6 DEF AboutToReplace, SavesOver

\* The file an editor reads is the one its row speaks of, or the row has changed,
\* or a write of the page is under way.
LEMMA ReadFileReads ==
    ASSUME PipelineInv, EditorInv, CarefulInv, [Next]_vars, NEW e \in Editors, ReadFile(e)
    PROVE  ReadWell(e)' /\ AboutToReplace(e)' /\ SavesOver(e)'
  <1>1. UNCHANGED vars /\ pages' = pages /\ pc' = pc /\ req' = req
    BY DEF ReadFile, vars, tables, calls
  <1>2. /\ session[e] \in Session /\ Placed(e) /\ session[e].at = "meta" /\ ReadWell(e)
    BY DEF EditorInv, CarefulInv, ReadFile
  <1>3. PICK p, row : p = session[e].page /\ row = session[e].row
    OBVIOUS
  <1>4. p \in Pages /\ session[e].call = None /\ row.present
    BY <1>2, <1>3 DEF Placed
  <1>5. PICK text, at : text = disk[p] /\ at = IF text = None THEN "ended" ELSE "open"
    OBVIOUS
  <1>6. session'[e] = [session[e] EXCEPT !.text = text, !.at = at]
    BY <1>3, <1>5 DEF ReadFile, EditorInv
  <1>7. /\ session'[e].at = at /\ session'[e].page = p /\ session'[e].row = row
        /\ session'[e].text = text /\ session'[e].call = None
    BY <1>2, <1>3, <1>4, <1>6 DEF Session
  <1>8. RowWritten(row.content_hash)'
    BY <1>2, <1>3, <1>4, RowWrittenStays DEF ReadWell
  <1>9. CASE InFlight(p)
    <2>1. InFlight(p)'
      BY <1>1, <1>9 DEF InFlight
    <2>2. ReadWell(e)'
      BY <1>7, <1>8, <2>1 DEF ReadWell
    <2> QED
      BY <1>7, <2>2 DEF AboutToReplace, SavesOver
  <1>10. CASE ~InFlight(p)
    <2>1. disk[p] = HeadCommit.tree[p]
          /\ (disk[p] # None => pages[p].content_hash = ContentHash[disk[p]])
      BY <1>4, <1>10 DEF PipelineInv, SafetyInv, StoresAgree, CarefulInv
    <2>2. HeadCommit \in Commit
      BY HeadIsCommit DEF PipelineInv, SafetyInv, TypeInv, TypeOK
    <2>3. text # None => text \in Contents /\ pages'[p].content_hash = ContentHash[text]
      BY <1>1, <1>4, <1>5, <2>1, <2>2 DEF Commit
    <2>4. HasRead(session[e])' => text # None
      BY <1>5, <1>7 DEF HasRead
    <2>5. text # None => Matches(session[e])' \/ Outdated(session[e])'
      BY <1>4, <1>7, <2>3 DEF Matches, Outdated
    <2>6. ReadWell(e)'
      BY <1>7, <1>8, <2>4, <2>5 DEF ReadWell
    <2> QED
      BY <1>7, <2>6 DEF AboutToReplace, SavesOver
  <1> QED
    BY <1>9, <1>10

\* A session that begins again, or comes back with a conflict, has read nothing yet.
LEMMA RefusedReads ==
    ASSUME Undisturbed, PipelineInv, EditorInv, CarefulInv, [Next]_vars,
           NEW e \in Editors, Refused(e)
    PROVE  ReadWell(e)' /\ AboutToReplace(e)' /\ SavesOver(e)'
  <1> DEFINE s == session[e]
  <1>1. CASE e \in Agents
    <2>1. session'[e] = Fresh
      BY <1>1 DEF Refused, EditorInv
    <2> QED
      BY <2>1, FreshSession DEF ReadWell, HasRead, AboutToReplace, SavesOver
  <1>2. CASE e \notin Agents
    <2>1. s \in Session /\ s.page \in Pages
      BY DEF EditorInv, Placed, Refused, Answered
    <2>2. PICK text, n : text = req[s.call].content /\ n = Len(page_edits)
      OBVIOUS
    <2>3. PICK blind \in BOOLEAN :
            session'[e] = [s EXCEPT !.at = "open", !.warned = TRUE, !.blind = blind,
                                    !.row = IF blind THEN NoRow ELSE pages[s.page],
                                    !.text = text, !.edits = n]
      BY <1>2, <2>2 DEF Refused, EditorInv
    <2>4. PICK row : row = IF blind THEN NoRow ELSE pages[s.page]
      OBVIOUS
    <2>5. session'[e].warned /\ session'[e].row = row
      <3> HIDE DEF s
      <3> QED
        BY <2>1, <2>3, <2>4 DEF Session
    <2>6. row.present => RowWritten(row.content_hash)'
      BY <2>1, <2>4, PagesAreWritten, RowWrittenStays DEF NoRow
    <2> QED
      BY <2>5, <2>6 DEF ReadWell, HasRead, AboutToReplace, SavesOver
  <1> QED
    BY <1>1, <1>2

\* The end of a session changes nothing that it read or wrote.
LEMMA EndSessionReads ==
    ASSUME PipelineInv, EditorInv, CarefulInv, [Next]_vars, NEW e \in Editors, EndSession(e)
    PROVE  ReadWell(e)' /\ AboutToReplace(e)' /\ SavesOver(e)'
  <1>1. UNCHANGED vars /\ pages' = pages /\ pc' = pc /\ req' = req /\ commits' = commits
    BY DEF EndSession, vars, tables, calls, content
  <1>2. /\ session[e] \in Session /\ session[e].at = "saving"
        /\ ReadWell(e) /\ AboutToReplace(e) /\ SavesOver(e)
    BY DEF EditorInv, CarefulInv, EndSession
  <1>3. session'[e] = [session[e] EXCEPT !.at = "ended"]
    BY DEF EndSession, EditorInv
  <1>4. /\ session'[e].at = "ended" /\ session'[e].page = session[e].page
        /\ session'[e].row = session[e].row /\ session'[e].text = session[e].text
        /\ session'[e].call = session[e].call /\ session'[e].warned = session[e].warned
        /\ session'[e].blind = session[e].blind
    BY <1>2, <1>3 DEF Session
  <1>5. ReadWell(e)'
    BY <1>1, <1>2, <1>4 DEF ReadWell, RowWritten, HasRead, Matches, Outdated, InFlight
  <1>6. AboutToReplace(e)'
    BY <1>1, <1>2, <1>4 DEF AboutToReplace, HeadCommit
  <1>7. SavesOver(e)'
    BY <1>1, <1>2, <1>4 DEF SavesOver, CommitsOf
  <1> QED
    BY <1>5, <1>6, <1>7

\* A save sends off what was read, and has made no commit yet.
LEMMA SaveReads ==
    ASSUME PipelineInv, EditorInv, CarefulInv, [Next]_vars,
           NEW e \in Editors, NEW w \in Writers, NEW r \in Requests, Save(e, w, r)
    PROVE  ReadWell(e)' /\ AboutToReplace(e)' /\ SavesOver(e)'
  <1>1. /\ pages' = pages /\ commits' = commits /\ pc[w] = "idle" /\ pc'[w] = "queued"
        /\ \A v \in Writers : pc[v] # "idle" => pc'[v] = pc[v] /\ req'[v] = req[v]
    BY DEF Save, Submit, tables, content, PipelineInv, SafetyInv, TypeInv, TypeOK
  <1>2. /\ session[e] \in Session /\ session[e].at = "open" /\ ReadWell(e)
    BY DEF EditorInv, CarefulInv, Save
  <1>3. PICK p, row : p = session[e].page /\ row = session[e].row
    OBVIOUS
  <1>4. session'[e] = [session[e] EXCEPT !.at = "saving", !.call = w]
    BY DEF Save, EditorInv
  <1>5. /\ session'[e].at = "saving" /\ session'[e].page = p
        /\ session'[e].row = row /\ session'[e].text = session[e].text
        /\ session'[e].call = w /\ session'[e].warned = session[e].warned
        /\ session'[e].blind = session[e].blind
    BY <1>2, <1>3, <1>4 DEF Session
  <1>6. /\ row.present => RowWritten(row.content_hash)'
        /\ InFlight(p) => InFlight(p)'
    BY <1>1, <1>2, <1>3, RowWrittenStays, StepKinds DEF ReadWell, InFlight
  <1>7. ReadWell(e)'
    BY <1>1, <1>2, <1>3, <1>5, <1>6 DEF ReadWell, HasRead, Matches, Outdated
  <1>8. CommitsOf(w)' = {}
    BY <1>1 DEF CommitsOf, PipelineInv, OutcomeInv, TraceInv, Early
  <1> QED
    BY <1>1, <1>5, <1>7, <1>8 DEF AboutToReplace, SavesOver

\* Nobody has read anything to begin with.
LEMMA InitCareful == Undisturbed /\ SessionInit => CarefulInv
  <1> SUFFICES ASSUME Undisturbed, SessionInit PROVE CarefulInv
    OBVIOUS
  <1>1. drifted = {} /\ DistinctInv
    BY DEF SessionInit, Init, Undisturbed, DistinctInv
  <1>2. session = [e \in Editors |-> Fresh]
    BY DEF SessionInit
  <1>3. ASSUME NEW e \in Editors PROVE ReadWell(e) /\ AboutToReplace(e) /\ SavesOver(e)
    BY <1>2, FreshSession DEF ReadWell, HasRead, AboutToReplace, SavesOver
  <1> QED
    BY <1>1, <1>3 DEF CarefulInv

\* Every step keeps what was read in order.
LEMMA NextCareful ==
    ASSUME Undisturbed
    PROVE  PipelineInv /\ EditorInv /\ CarefulInv /\ [SessionNext]_sessionVars => CarefulInv'
  <1> SUFFICES ASSUME PipelineInv, EditorInv, CarefulInv, [SessionNext]_sessionVars
               PROVE  CarefulInv'
    OBVIOUS
  <1>1. [Next]_vars
    BY StepOfPipeline
  <1>2. drifted' \subseteq drifted
    <2>1. CASE \E w \in Writers : TRUE
      BY <1>1, <2>1, StepsInOrder DEF PipelineInv, SafetyInv
    <2>2. CASE Writers = {}
      BY <1>1, <2>2 DEF Undisturbed, Next, System, vars, Crash, Restart, Shutdown, Stop,
                        SuspendActor, RetireLayer
    <2> QED
      BY <2>1, <2>2
  <1>3. drifted' = {} /\ DistinctInv'
    BY <1>2, NextDistinct DEF CarefulInv
  <1>4. CASE UNCHANGED session
    BY <1>1, <1>3, <1>4, ReadStays, AboutStays, SavesStay DEF CarefulInv
  <1>5. ASSUME NEW e \in Editors,
               \/ \E p \in Pages : ReadMeta(e, p)
               \/ ReadFile(e) \/ Refused(e) \/ EndSession(e)
               \/ \E w \in Writers, r \in Requests : Save(e, w, r)
        PROVE  CarefulInv'
    <2>1. ReadWell(e)' /\ AboutToReplace(e)' /\ SavesOver(e)'
      BY <1>1, <1>5, ReadMetaReads, ReadFileReads, RefusedReads, EndSessionReads, SaveReads
    <2>2. \A d \in Editors \ {e} : session'[d] = session[d]
      BY <1>5, OneEditorMoves
    <2>3. \A d \in Editors : ReadWell(d)' /\ AboutToReplace(d)' /\ SavesOver(d)'
      BY <1>1, <2>1, <2>2, ReadStays, AboutStays, SavesStay
    <2> QED
      BY <1>3, <2>3 DEF CarefulInv
  <1> QED
    BY <1>4, <1>5 DEF SessionNext, sessionVars, Overwrite

\* A save that goes through replaces the text its editor had before it, and no
\* other, although reads take no lock: where texts are new, nothing fails between
\* a file and its row, and no other tool writes pages.  Without the first TLC finds
\* the property violated (README.md, "Findings").
THEOREM SavesReplaceWhatWasRead ==
    ASSUME Rewrites = FALSE, Faults = {}, Imported = {}
    PROVE  SessionSpec => []SavesOverWhatItRead
  <1>1. Undisturbed
    BY DEF Undisturbed
  <1>2. SessionInit => CarefulInv
    BY <1>1, InitCareful
  <1>3. PipelineInv /\ EditorInv /\ CarefulInv /\ [SessionNext]_sessionVars => CarefulInv'
    BY <1>1, NextCareful
  <1>4. CarefulInv => SavesOverWhatItRead
    BY DEF CarefulInv, SavesOver, SavesOverWhatItRead
  <1> QED
    BY <1>2, <1>3, <1>4, EditorInvariance, PTL DEF SessionSpec
=============================================================================
