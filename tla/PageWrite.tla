------------------------------ MODULE PageWrite ------------------------------
(***************************************************************************)
(* The page write pipeline: calls of pages::write (src/pages/mod.rs) queue *)
(* on the repository's writer lock; the accepted call runs in a task of    *)
(* its own through the checks, the file, the Git commit                    *)
(* (src/git/mod.rs) and the SQLite transaction, and gives the lock back.   *)
(*                                                                         *)
(* Around it: callers that stop waiting, storage errors at every step, a   *)
(* crash and a restart of the process, the drain of a graceful shutdown    *)
(* (src/main.rs), and an administrator who changes actors and layers.      *)
(***************************************************************************)
EXTENDS WikiData, Integers, Sequences

CONSTANTS
    Torn,        \* what a file says between its truncation and its last byte
    Imported,    \* pages whose row another tool wrote: no hash, no commit
    Faults,      \* what may go wrong: a subset of {"storage", "crash"}
    Suspendable, \* actors an administrator may deactivate
    Retirable    \* layers an administrator may deactivate

ASSUME TornIsNoContent == Torn \notin Contents \cup {None}
ASSUME NoneIsNoRequest == None \notin WriteRequests
ASSUME ImportedPages == Imported \subseteq Pages
ASSUME AdminRows == Suspendable \subseteq Actors /\ Retirable \subseteq Layers
ASSUME FaultKinds == Faults \subseteq {"storage", "crash"}

VARIABLES
    server,       \* the process: "up", "draining", "stopped" or "crashed"
    holder,       \* the call that holds write_lock, or None
    pc,           \* [Writers -> the step a call is at]
    req,          \* [Writers -> its request, None before it is made]
    caller,       \* [Writers -> "none", "waiting", "answered" or "gone"]
    result,       \* [Writers -> what write_serialized returned]
    commit_oid,   \* [Writers -> the commit the call made, 0 before]
    disk,         \* [Pages -> the page's file]
    commits,      \* HEAD's history, oldest first
    pages,        \* the table pages
    page_edits,   \* the table page_edits, oldest first
    pages_fts,    \* the search index: [Pages -> indexed text]
    activeActors, \* actors.is_active
    activeLayers, \* layers.is_active
    drifted       \* history variable: pages last touched by a call that
                  \* ended between its file and its SQLite commit

calls == <<holder, pc, req, caller, result, commit_oid>>
content == <<disk, commits>>
tables == <<pages, page_edits, pages_fts>>
admin == <<activeActors, activeLayers>>
vars == <<server, calls, content, tables, admin, drifted>>

Steps == {"idle", "queued", "layer", "actor", "precondition",
          "file", "truncated", "written", "committed", "finishing", "done"}

\* The steps of an accepted call, which run under the writer lock ...
Serialized == Steps \ {"idle", "queued", "done"}
\* ... and those at which it has touched the page and not yet projected it.
Unprojected == {"truncated", "written", "committed"}

Results == {"none", "ok", "bad_request", "forbidden", "conflict",
            "error", "cancelled", "lost"}

Commit == [tree : [Pages -> Contents \cup {None}], page : Pages \cup {None},
           author : Actors \cup {None}, write : Writers \cup {None}]

Edit == [page : Pages, actor : Actors, git_commit : Nat, write : Writers]

HeadCommit == commits[Len(commits)]

\* seed_initial_commit: a commit of `.keep`, which is no page.
SeedCommit == [tree |-> [p \in Pages |-> None], page |-> None,
               author |-> None, write |-> None]

Init ==
    /\ server = "up"
    /\ holder = None
    /\ pc = [w \in Writers |-> "idle"]
    /\ req = [w \in Writers |-> None]
    /\ caller = [w \in Writers |-> "none"]
    /\ result = [w \in Writers |-> "none"]
    /\ commit_oid = [w \in Writers |-> 0]
    /\ disk \in [Pages -> Contents \cup {None}]
    /\ \A p \in Pages \ Imported : disk[p] = None
    /\ commits = <<SeedCommit>>
    /\ pages = [p \in Pages |-> IF p \in Imported THEN UnrecordedRow ELSE NoRow]
    /\ page_edits = <<>>
    /\ pages_fts = [p \in Pages |-> None]
    /\ activeActors = Actors
    /\ activeLayers = Layers
    /\ drifted = Imported

-----------------------------------------------------------------------------
(* Callers and the lock.                                                   *)

\* A request's handler calls pages::write, which waits for the lock.  During the
\* drain no connection is accepted, but a request that came before the signal may
\* get here after it.
Submit(w, r) ==
    /\ server \in {"up", "draining"}
    /\ pc[w] = "idle"
    /\ pc' = [pc EXCEPT ![w] = "queued"]
    /\ req' = [req EXCEPT ![w] = r]
    /\ caller' = [caller EXCEPT ![w] = "waiting"]
    /\ UNCHANGED <<server, holder, result, commit_oid, content, tables, admin, drifted>>

\* write_session().await returns and the pipeline is spawned: no await lies
\* between the two. Tokio serves the queue in order; here any queued call may
\* be next, which includes that order.
Accept(w) ==
    /\ pc[w] = "queued"
    /\ holder = None
    /\ holder' = w
    /\ pc' = [pc EXCEPT ![w] = "layer"]
    /\ UNCHANGED <<server, req, caller, result, commit_oid, content, tables, admin, drifted>>

\* Mutants of Disconnect: a cancelled call keeps its place in the queue; the
\* pipeline is not detached and dies with its caller.
DisconnectKeepsPlace(w) ==
    /\ caller[w] = "waiting"
    /\ caller' = [caller EXCEPT ![w] = "gone"]
    /\ result' = [result EXCEPT ![w] = IF pc[w] = "queued" THEN "cancelled" ELSE @]
    /\ UNCHANGED <<server, holder, pc, req, commit_oid, content, tables, admin, drifted>>

DisconnectAborts(w) ==
    /\ caller[w] = "waiting"
    /\ caller' = [caller EXCEPT ![w] = "gone"]
    /\ pc' = [pc EXCEPT ![w] = "done"]
    /\ result' = [result EXCEPT ![w] = IF @ = "none" THEN "cancelled" ELSE @]
    /\ holder' = IF holder = w THEN None ELSE holder
    /\ UNCHANGED <<server, req, commit_oid, content, tables, admin, drifted>>

\* The caller stops waiting. Before acceptance this drops the call; afterwards
\* the detached task does not notice.
Disconnect(w) ==
    /\ caller[w] = "waiting"
    /\ caller' = [caller EXCEPT ![w] = "gone"]
    /\ IF pc[w] = "queued"
         THEN /\ pc' = [pc EXCEPT ![w] = "done"]
              /\ result' = [result EXCEPT ![w] = "cancelled"]
         ELSE UNCHANGED <<pc, result>>
    /\ UNCHANGED <<server, holder, req, commit_oid, content, tables, admin, drifted>>

-----------------------------------------------------------------------------
(* write_serialized, one action per read or write of shared state.         *)

\* The call goes on to `step`, or ends with an error that leaves no trace.
Proceed(w, step) ==
    /\ pc' = [pc EXCEPT ![w] = step]
    /\ UNCHANGED result

Reject(w, error) ==
    /\ pc' = [pc EXCEPT ![w] = "finishing"]
    /\ result' = [result EXCEPT ![w] = error]

CheckLayer(w) ==
    /\ pc[w] = "layer"
    /\ IF req[w].layer \in activeLayers
         THEN Proceed(w, "actor")
         ELSE Reject(w, "bad_request")
    /\ UNCHANGED <<server, holder, req, caller, commit_oid, content, tables, admin, drifted>>

\* Mutant of ActorIsValid: whether the actor is active was known to the handler.
ActorIsKnown(r) == r.signed = r.actor

\* The id SQLite will record and the identity Git will record must be those
\* of one active actor.
ActorIsValid(r) == r.actor \in activeActors /\ r.signed = r.actor

CheckActor(w) ==
    /\ pc[w] = "actor"
    /\ IF ActorIsValid(req[w])
         THEN Proceed(w, "precondition")
         ELSE Reject(w, "forbidden")
    /\ UNCHANGED <<server, holder, req, caller, commit_oid, content, tables, admin, drifted>>

CheckPrecondition(w) ==
    /\ pc[w] = "precondition"
    /\ IF Allows(req[w].pre, pages[req[w].page])
         THEN Proceed(w, "file")
         ELSE Reject(w, "conflict")
    /\ UNCHANGED <<server, holder, req, caller, commit_oid, content, tables, admin, drifted>>

\* std::fs::write opens the file for truncation and then writes the text: a
\* reader that comes in between sees neither the old text nor the new one.
TruncateFile(w) ==
    /\ pc[w] = "file"
    /\ pc' = [pc EXCEPT ![w] = "truncated"]
    /\ disk' = [disk EXCEPT ![req[w].page] = Torn]
    /\ UNCHANGED <<server, holder, req, caller, result, commit_oid, commits,
                   tables, admin, drifted>>

WriteFile(w) ==
    /\ pc[w] = "truncated"
    /\ pc' = [pc EXCEPT ![w] = "written"]
    /\ disk' = [disk EXCEPT ![req[w].page] = req[w].content]
    /\ UNCHANGED <<server, holder, req, caller, result, commit_oid, commits,
                   tables, admin, drifted>>

\* Mutant of CommitGit: the lock covers the file and Git, and not SQLite.
CommitGitAndUnlock(w) ==
    LET commit == [tree |-> [HeadCommit.tree EXCEPT ![req[w].page] = req[w].content],
                   page |-> req[w].page,
                   author |-> req[w].signed,
                   write |-> w]
    IN /\ pc[w] = "written"
       /\ pc' = [pc EXCEPT ![w] = "committed"]
       /\ holder' = None
       /\ commits' = Append(commits, commit)
       /\ commit_oid' = [commit_oid EXCEPT ![w] = Len(commits) + 1]
       /\ UNCHANGED <<server, req, caller, result, disk, tables, admin, drifted>>

\* The parent's tree with this one blob replaced, signed with the handle the
\* request carries, becomes HEAD.
CommitGit(w) ==
    LET commit == [tree |-> [HeadCommit.tree EXCEPT ![req[w].page] = req[w].content],
                   page |-> req[w].page,
                   author |-> req[w].signed,
                   write |-> w]
    IN /\ pc[w] = "written"
       /\ pc' = [pc EXCEPT ![w] = "committed"]
       /\ commits' = Append(commits, commit)
       /\ commit_oid' = [commit_oid EXCEPT ![w] = Len(commits) + 1]
       /\ UNCHANGED <<server, holder, req, caller, result, disk, tables, admin, drifted>>

\* Mutant of ProjectTables: the index is filled on INSERT and not on UPDATE.
ProjectTablesStaleIndex(w) ==
    LET r == req[w]
        edit == [page |-> r.page, actor |-> r.actor,
                 git_commit |-> commit_oid[w], write |-> w]
    IN /\ pc[w] = "committed"
       /\ pc' = [pc EXCEPT ![w] = "finishing"]
       /\ result' = [result EXCEPT ![w] = "ok"]
       /\ pages' = [pages EXCEPT ![r.page] = Written(r)]
       /\ page_edits' = Append(page_edits, edit)
       /\ pages_fts' = [pages_fts EXCEPT ![r.page] = IF @ = None THEN r.content ELSE @]
       /\ drifted' = drifted \ {r.page}
       /\ UNCHANGED <<server, holder, req, caller, commit_oid, content, admin>>

\* BEGIN IMMEDIATE ... COMMIT: the row, its edit record and the search index
\* change together.
ProjectTables(w) ==
    LET r == req[w]
        edit == [page |-> r.page, actor |-> r.actor,
                 git_commit |-> commit_oid[w], write |-> w]
    IN /\ pc[w] = "committed"
       /\ pc' = [pc EXCEPT ![w] = "finishing"]
       /\ result' = [result EXCEPT ![w] = "ok"]
       /\ pages' = [pages EXCEPT ![r.page] = Written(r)]
       /\ page_edits' = Append(page_edits, edit)
       /\ pages_fts' = [pages_fts EXCEPT ![r.page] = r.content]
       /\ drifted' = drifted \ {r.page}
       /\ UNCHANGED <<server, holder, req, caller, commit_oid, content, admin>>

\* Mutant of Finish: an error path forgets the lock.
FinishKeepsLock(w) ==
    /\ pc[w] = "finishing"
    /\ pc' = [pc EXCEPT ![w] = "done"]
    /\ holder' = IF result[w] = "ok" THEN None ELSE holder
    /\ caller' = [caller EXCEPT ![w] = IF @ = "waiting" THEN "answered" ELSE @]
    /\ UNCHANGED <<server, req, result, commit_oid, content, tables, admin, drifted>>

\* The task drops its WriteSession, and a caller that still waits is answered.
Finish(w) ==
    /\ pc[w] = "finishing"
    /\ pc' = [pc EXCEPT ![w] = "done"]
    /\ holder' = None
    /\ caller' = [caller EXCEPT ![w] = IF @ = "waiting" THEN "answered" ELSE @]
    /\ UNCHANGED <<server, req, result, commit_oid, content, tables, admin, drifted>>

-----------------------------------------------------------------------------
(* What may go wrong.                                                      *)

\* The pages left behind by a call that ends at the step it is at.
LeftBehind(w) == IF pc[w] \in Unprojected THEN {req[w].page} ELSE {}

\* Mutant of StorageError: the row is written outside the transaction, and
\* stays when a later statement fails.
StorageErrorAfterRow(w) ==
    /\ "storage" \in Faults
    /\ pc[w] \in Serialized \ {"finishing"}
    /\ Reject(w, "error")
    /\ drifted' = drifted \cup LeftBehind(w)
    /\ pages' = IF pc[w] = "committed"
                  THEN [pages EXCEPT ![req[w].page] = Written(req[w])] ELSE pages
    /\ UNCHANGED <<server, holder, req, caller, commit_oid, content,
                   page_edits, pages_fts, admin>>

\* A query, the file system, Git or the transaction fails; `?` returns at once.
\* What the call did up to this step stays.
StorageError(w) ==
    /\ "storage" \in Faults
    /\ pc[w] \in Serialized \ {"finishing"}
    /\ Reject(w, "error")
    /\ drifted' = drifted \cup LeftBehind(w)
    /\ UNCHANGED <<server, holder, req, caller, commit_oid, content, tables, admin>>

\* The process dies: files, commits and committed transactions remain.
Crash ==
    /\ "crash" \in Faults
    /\ server \in {"up", "draining"}
    /\ server' = "crashed"
    /\ holder' = None
    /\ pc' = [w \in Writers |-> IF pc[w] = "idle" THEN "idle" ELSE "done"]
    /\ result' = [w \in Writers |->
                    IF pc[w] # "idle" /\ result[w] = "none" THEN "lost" ELSE result[w]]
    /\ caller' = [w \in Writers |-> IF caller[w] = "waiting" THEN "gone" ELSE caller[w]]
    /\ drifted' = drifted \cup UNION {LeftBehind(w) : w \in Writers}
    /\ UNCHANGED <<req, commit_oid, content, tables, admin>>

\* connect_and_migrate and open_or_init find what is there and change nothing.
Restart ==
    /\ server \in {"crashed", "stopped"}
    /\ server' = "up"
    /\ UNCHANGED <<calls, content, tables, admin, drifted>>

-----------------------------------------------------------------------------
(* Graceful shutdown and administration.                                   *)

\* SIGTERM or Ctrl-C: no new connection is accepted, requests in flight go on.
Shutdown ==
    /\ server = "up"
    /\ server' = "draining"
    /\ UNCHANGED <<calls, content, tables, admin, drifted>>

\* Mutants of Stop: the process ends with the last response, without
\* wait_for_writes; it waits for an answer to callers that are gone.
StopWithoutDrain ==
    /\ server = "draining"
    /\ \A w \in Writers : caller[w] # "waiting"
    /\ server' = "stopped"
    /\ UNCHANGED <<calls, content, tables, admin, drifted>>

StopAfterAllAnswers ==
    /\ server = "draining"
    /\ \A w \in Writers : caller[w] \in {"none", "answered"}
    /\ holder = None
    /\ server' = "stopped"
    /\ UNCHANGED <<calls, content, tables, admin, drifted>>

\* axum::serve returns once every open request is answered or abandoned; then
\* wait_for_writes takes the lock, and the process ends.
Stop ==
    /\ server = "draining"
    /\ \A w \in Writers : caller[w] # "waiting"
    /\ holder = None
    /\ server' = "stopped"
    /\ UNCHANGED <<calls, content, tables, admin, drifted>>

SuspendActor(a) ==
    /\ activeActors' = activeActors \ {a}
    /\ UNCHANGED <<server, calls, content, tables, activeLayers, drifted>>

RetireLayer(l) ==
    /\ activeLayers' = activeLayers \ {l}
    /\ UNCHANGED <<server, calls, content, tables, activeActors, drifted>>

-----------------------------------------------------------------------------
\* One step of an accepted call's task.
Pipeline(w) ==
    \/ CheckLayer(w) \/ CheckActor(w) \/ CheckPrecondition(w)
    \/ TruncateFile(w) \/ WriteFile(w) \/ CommitGit(w) \/ ProjectTables(w)
    \/ Finish(w)

\* Everything but the arrival of requests.
System ==
    \/ \E w \in Writers : Accept(w) \/ Disconnect(w) \/ Pipeline(w) \/ StorageError(w)
    \/ Crash \/ Restart \/ Shutdown \/ Stop
    \/ \E a \in Suspendable : SuspendActor(a)
    \/ \E l \in Retirable : RetireLayer(l)

Next == System \/ \E w \in Writers, r \in Requests : Submit(w, r)

Spec == Init /\ [][Next]_vars

\* The runtime polls a task that can run, and a blocking worker returns; no
\* caller, fault or administrator is obliged to act.
Fairness ==
    /\ \A w \in Writers : WF_vars(Accept(w)) /\ WF_vars(Pipeline(w))
    /\ WF_vars(Stop)

FairSpec == Spec /\ Fairness

-----------------------------------------------------------------------------
(* Properties.                                                             *)

\* Every variable keeps to the values its Rust or SQL counterpart can have.
TypeOK ==
    /\ server \in {"up", "draining", "stopped", "crashed"}
    /\ holder \in Writers \cup {None}
    /\ pc \in [Writers -> Steps]
    /\ req \in [Writers -> Requests \cup {None}]
    /\ caller \in [Writers -> {"none", "waiting", "answered", "gone"}]
    /\ result \in [Writers -> Results]
    /\ commit_oid \in [Writers -> Nat]
    /\ disk \in [Pages -> Contents \cup {None, Torn}]
    /\ commits \in Seq(Commit) /\ commits # <<>>
    /\ pages \in [Pages -> Row]
    /\ page_edits \in Seq(Edit)
    /\ pages_fts \in [Pages -> Contents \cup {None}]
    /\ activeActors \subseteq Actors
    /\ activeLayers \subseteq Layers
    /\ drifted \subseteq Pages

InFlight(p) == \E w \in Writers : pc[w] \in Unprojected /\ req[w].page = p

\* A page that no call is in the middle of, and whose last call did not end
\* between its file and its SQLite commit, is the same page in all four
\* stores: the file is the blob at HEAD, the row has its hash, and search has
\* its text (README.md, "Write consistency").
StoresAgree ==
    \A p \in Pages \ drifted : ~InFlight(p) =>
        /\ disk[p] = HeadCommit.tree[p]
        /\ pages_fts[p] = disk[p]
        /\ pages[p].present <=> disk[p] # None
        /\ disk[p] # None => pages[p].content_hash = ContentHash[disk[p]]

\* SQLite projects Git's commits in Git's order, each edit record on the page
\* and under the actor of the commit it cites, even when some commits are
\* never projected (the purpose of WriteSession, src/git/mod.rs).
EditsFollowGit ==
    /\ \A i \in DOMAIN page_edits :
        LET e == page_edits[i]
            c == commits[e.git_commit]
        IN /\ e.git_commit \in DOMAIN commits
           /\ c.page = e.page /\ c.author = e.actor /\ c.write = e.write
    /\ \A i, j \in DOMAIN page_edits :
        i < j => page_edits[i].git_commit < page_edits[j].git_commit

\* Commit i replaces the version its condition names: the text in the parent
\* commit is the revision given, or absent, or present.
ErasesWhatItNames(i) ==
    LET pre == req[commits[i].write].pre
        page == commits[i].page
        erased == commits[i - 1].tree[page]
    IN /\ pre.kind = "Revision" => erased # None /\ ContentHash[erased] = pre.rev
       /\ pre.kind = "Absent" => erased = None
       /\ pre.kind = "Exists" => erased # None \/ page \in Imported

\* A conditional write replaces a page in Git only if that page is as the
\* condition says (README.md, "Conditional writes"), wherever SQLite has recorded
\* the page's previous commit: what the lock promises when no call ended between
\* its commit and its transaction.  Where one did, the row the condition is
\* evaluated on is a version old until the page is written again.
NoUnseenChangeErased ==
    \A i \in 2..Len(commits) :
        (\A j \in 2..(i - 1) :
            commits[j].page = commits[i].page =>
                \/ \E k \in DOMAIN page_edits : page_edits[k].git_commit = j
                \/ \E l \in (j + 1)..(i - 1) : commits[l].page = commits[i].page)
        => ErasesWhatItNames(i)

EarlierEdits(i) == {j \in 1..(i - 1) : page_edits[j].page = page_edits[i].page}

\* The text an edit record stands for.
EditText(i) == commits[page_edits[i].git_commit].tree[page_edits[i].page]

\* In the recorded edits of a page, each conditional edit follows the edit its
\* condition names, whatever errors and crashes leave out of the record.
ConditionsChain ==
    \A i \in DOMAIN page_edits :
        LET e == page_edits[i]
            pre == req[e.write].pre
            last == {j \in EarlierEdits(i) : \A k \in EarlierEdits(i) : k <= j}
        IN /\ pre.kind = "Revision" =>
                \E j \in last : ContentHash[EditText(j)] = pre.rev
           /\ pre.kind = "Absent" => last = {} /\ e.page \notin Imported
           /\ pre.kind = "Exists" => last # {} \/ e.page \in Imported

\* The commits a call has made, and the edits it has recorded.
CommitsOf(w) == {i \in DOMAIN commits : commits[i].write = w}
EditsOf(w) == {i \in DOMAIN page_edits : page_edits[i].write = w}

\* What a caller is told is what happened: a refused or cancelled call has left
\* nothing in any store, a call that returned an error is in no table, and a
\* call that succeeded is there exactly once, in Git and in the tables, for good.
OutcomeIsTruthful ==
    \A w \in Writers :
        /\ result[w] \in {"bad_request", "forbidden", "conflict", "cancelled"} =>
            CommitsOf(w) = {} /\ EditsOf(w) = {}
        /\ result[w] \in {"error", "lost"} => EditsOf(w) = {}
        /\ result[w] = "ok" =>
            \E i \in DOMAIN page_edits :
                /\ EditsOf(w) = {i}
                /\ CommitsOf(w) = {page_edits[i].git_commit}
                /\ EditText(i) = req[w].content

\* A graceful stop leaves no write half done: every call has ended, and each
\* commit it did not project belongs to a call that reported an error.
StopIsClean ==
    server = "stopped" =>
        /\ \A w \in Writers : pc[w] \in {"idle", "done"}
        /\ \A i \in 2..Len(commits) :
            EditsOf(commits[i].write) = {} => result[commits[i].write] \in {"error", "lost"}

\* An actor suspended while its call waits for the lock, or for the checks
\* behind it, changes nothing: the checks run after acceptance, not before.
SuspendedActorIsRefused ==
    \A w \in Writers :
        []( pc[w] \in {"queued", "layer", "actor"} /\ req[w].actor \notin activeActors
            => [](result[w] # "ok") )

\* Every call of pages::write returns: the lock is always given back.
EveryCallEnds == \A w \in Writers : pc[w] = "queued" ~> pc[w] = "done"

\* A write that has passed its checks goes through unless storage fails it,
\* whether or not its caller waits and whether or not the server is told to stop.
AcceptedWriteCompletes ==
    \A w \in Writers :
        pc[w] = "file" ~>
            result[w] = "ok" \/ ("storage" \in Faults /\ result[w] = "error")

\* A graceful shutdown ends.
DrainEnds == server = "draining" ~> server # "draining"

-----------------------------------------------------------------------------
(* The tables as one register per page (AtomicWiki): a call takes effect   *)
(* when its transaction commits, and is refused when its condition is      *)
(* evaluated; under the writer lock the two instants are as good as one.   *)

Outcome(w) == CASE result[w] = "none" -> "pending"
                [] result[w] = "ok" -> "ok"
                [] result[w] = "conflict" -> "refused"
                [] OTHER -> "failed"

Register == INSTANCE AtomicWiki WITH
    register <- pages,
    log <- [i \in DOMAIN page_edits |-> page_edits[i].write],
    call <- req,
    outcome <- [w \in Writers |-> Outcome(w)]

\* Every behaviour of the pipeline is one of atomic, conditional writes.
ImplementsAtomicWiki == Register!Spec
=============================================================================
