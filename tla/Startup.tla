------------------------------- MODULE Startup -------------------------------
(***************************************************************************)
(* How the program starts, and starts again (src/main.rs, run and serve).  *)
(* Every run of the binary brings the schema up to date; a server then     *)
(* opens the repository, or makes one and gives it a first commit, and     *)
(* binds its port last.  Nothing but the port keeps two runs apart, and a  *)
(* run may be killed at any step.                                          *)
(***************************************************************************)
EXTENDS Integers

CONSTANTS
    Servers,      \* runs of `wikikiki serve`
    Tools,        \* runs of its other commands
    Migrations,   \* how many migrations the binary carries
    None          \* no commit

Runs == Servers \cup Tools

ASSUME RunsAreDistinct == Servers \cap Tools = {}
ASSUME MigrationsAreCounted == Migrations \in Nat

VARIABLES
    schema,    \* migrations the database has
    repo,      \* .git: absent, cut short in gix::init, or a repository
    head,      \* the root of HEAD's history: the seed, a page's commit, or none
    pc,        \* [Runs -> step]
    applied,   \* [Runs -> migrations the run knows to be applied]
    alone      \* history: [Runs -> no other run was active since it started]

startVars == <<schema, repo, head, pc, applied, alone>>

Ended == {"idle", "done", "failed"}

StartInit ==
    /\ schema = 0 /\ repo = "absent" /\ head = None
    /\ pc = [r \in Runs |-> "idle"]
    /\ applied = [r \in Runs |-> 0]
    /\ alone = [r \in Runs |-> FALSE]

-----------------------------------------------------------------------------
(* One run.                                                                *)

Goto(r, step) == pc' = [pc EXCEPT ![r] = step]

\* The run of `r` ends with `error: ...` and exit code 1.
Fails(r) == Goto(r, "failed") /\ UNCHANGED <<schema, repo, head, applied, alone>>

Start(r) ==
    /\ pc[r] \in Ended
    /\ Goto(r, "connect")
    /\ alone' = [q \in Runs |-> q = r /\ \A o \in Runs \ {r} : pc[o] \in Ended]
    /\ UNCHANGED <<schema, repo, head, applied>>

\* connect_with creates the file; the migrator reads which migrations it has.
Connect(r) ==
    /\ pc[r] = "connect"
    /\ Goto(r, "migrate")
    /\ applied' = [applied EXCEPT ![r] = schema]
    /\ UNCHANGED <<schema, repo, head, alone>>

\* One migration and its record, in a transaction.
Migrate(r) ==
    /\ pc[r] = "migrate" /\ applied[r] < Migrations
    /\ schema = applied[r]
    /\ schema' = schema + 1
    /\ applied' = [applied EXCEPT ![r] = schema + 1]
    /\ UNCHANGED <<repo, head, pc, alone>>

\* Mutant of MigratedMeanwhile: the error is taken for the end of the work.
MigratedMeanwhileGoesOn(r) ==
    /\ pc[r] = "migrate" /\ applied[r] < schema
    /\ Goto(r, IF r \in Tools THEN "done" ELSE "open")
    /\ UNCHANGED <<schema, repo, head, applied, alone>>

\* The tables are there already, since another run has applied the migration
\* since: SQLite has no lock that a migrator would take for the whole of its run.
MigratedMeanwhile(r) ==
    /\ pc[r] = "migrate" /\ applied[r] < schema
    /\ Fails(r)

\* The other commands use the database alone.
Migrated(r) ==
    /\ pc[r] = "migrate" /\ applied[r] = Migrations
    /\ Goto(r, IF r \in Tools THEN "done" ELSE "open")
    /\ UNCHANGED <<schema, repo, head, applied, alone>>

\* Mutant of OpenRepo: a repository without a commit is refused.
OpenRepoWithHead(r) ==
    /\ pc[r] = "open"
    /\ CASE repo = "absent" -> Goto(r, "create")
         [] repo = "whole" /\ head # None -> Goto(r, "bind")
         [] OTHER -> Goto(r, "failed")
    /\ UNCHANGED <<schema, repo, head, applied, alone>>

\* open_or_init looks for .git, and opens what it finds; gix refuses a
\* directory in which there is no repository yet.
OpenRepo(r) ==
    /\ pc[r] = "open"
    /\ CASE repo = "absent" -> Goto(r, "create")
         [] repo = "whole" -> Goto(r, "bind")
         [] repo = "partial" -> Goto(r, "failed")
    /\ UNCHANGED <<schema, repo, head, applied, alone>>

\* gix::init makes the directory, and fails if it is there by now.
CreateRepo(r) ==
    /\ pc[r] = "create"
    /\ IF repo = "absent"
         THEN repo' = "partial" /\ Goto(r, "init")
         ELSE repo' = repo /\ Goto(r, "failed")
    /\ UNCHANGED <<schema, head, applied, alone>>

InitRepo(r) ==
    /\ pc[r] = "init"
    /\ repo' = "whole"
    /\ Goto(r, "seed")
    /\ UNCHANGED <<schema, head, applied, alone>>

\* Mutant of SeedCommit: HEAD is set whatever it is.
SeedCommitForced(r) ==
    /\ pc[r] = "seed"
    /\ head' = "seed"
    /\ Goto(r, "bind")
    /\ UNCHANGED <<schema, repo, applied, alone>>

\* seed_initial_commit commits without a parent, which Git's reference update
\* accepts only for a branch that does not exist.
SeedCommit(r) ==
    /\ pc[r] = "seed"
    /\ IF head = None
         THEN head' = "seed" /\ Goto(r, "bind")
         ELSE head' = head /\ Goto(r, "failed")
    /\ UNCHANGED <<schema, repo, applied, alone>>

Listening(r) == pc[r] = "listening"

Bind(r) ==
    /\ pc[r] = "bind"
    /\ Goto(r, IF \E o \in Runs : Listening(o) THEN "failed" ELSE "listening")
    /\ UNCHANGED <<schema, repo, head, applied, alone>>

\* A page is written.  write_and_commit takes the empty tree and no parent
\* where HEAD has no commit.
ServeWrite(r) ==
    /\ Listening(r)
    /\ head' = IF head = None THEN "page" ELSE head
    /\ UNCHANGED <<schema, repo, pc, applied, alone>>

\* The run is killed, or shut down.
StopRun(r) ==
    /\ pc[r] \notin Ended
    /\ Goto(r, "idle")
    /\ UNCHANGED <<schema, repo, head, applied, alone>>

Advance(r) ==
    \/ Connect(r) \/ Migrate(r) \/ MigratedMeanwhile(r) \/ Migrated(r)
    \/ OpenRepo(r) \/ CreateRepo(r) \/ InitRepo(r) \/ SeedCommit(r) \/ Bind(r)

StartNext == \E r \in Runs : Start(r) \/ Advance(r) \/ ServeWrite(r) \/ StopRun(r)

StartSpec == StartInit /\ [][StartNext]_startVars

-----------------------------------------------------------------------------
(* Properties.                                                             *)

\* A run that found no other beside it fails for one reason only: an earlier
\* one was killed within gix::init.  Whatever else a killed run leaves behind,
\* tables of some of the migrations or a repository without a commit, the next
\* start accepts (src/git/mod.rs, open_or_init; src/db/mod.rs).
LoneStartSucceeds ==
    [][ \A r \in Runs :
          pc[r] \notin Ended /\ pc'[r] = "failed" => ~alone[r] \/ repo = "partial" ]_startVars

\* The first commit is never replaced, as it would be by a seed that comes after
\* a page: a second server may serve between the first one's init and seed.
RootIsKept == [][head # None => head' = head]_startVars

\* No run uses a database whose migrations are not all applied, although runs
\* apply them beside each other.
SchemaIsComplete ==
    \A r \in Runs :
        pc[r] \in {"done", "open", "create", "init", "seed", "bind", "listening"} =>
            schema = Migrations
=============================================================================
