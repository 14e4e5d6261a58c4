----------------------------- MODULE StartupProofs -----------------------------
(***************************************************************************)
(* Theorems about Startup, for every number of servers, other commands and *)
(* migrations.                                                             *)
(***************************************************************************)
EXTENDS Startup, TLAPS

Steps == Ended \cup
    {"connect", "migrate", "open", "create", "init", "seed", "bind", "listening"}

TypeInv ==
    /\ schema \in Nat
    /\ repo \in {"absent", "partial", "whole"}
    /\ pc \in [Runs -> Steps]
    /\ applied \in [Runs -> Nat]

\* A run knows of no migration that the database does not have, and the database
\* has none that the binary does not carry.
AppliedInv ==
    /\ schema =< Migrations
    /\ \A r \in Runs : pc[r] = "migrate" => applied[r] =< schema

StartInv == TypeInv /\ AppliedInv /\ SchemaIsComplete

\* Before the first start there is no schema and no run.
LEMMA InitHolds == StartInit => StartInv
BY MigrationsAreCounted
   DEF StartInit, StartInv, TypeInv, AppliedInv, SchemaIsComplete, Steps, Ended

-----------------------------------------------------------------------------
(* Steps that leave the schema alone.                                      *)

\* Such a step may move its run anywhere but into its migrations, if the run
\* goes on past them only where the schema is complete.
LEMMA SchemaUntouched ==
    ASSUME StartInv, NEW r \in Runs, NEW step \in Steps \ {"migrate"}, Goto(r, step),
           UNCHANGED <<schema, applied>>,
           repo' \in {"absent", "partial", "whole"},
           step \in {"idle", "failed", "connect"} \/ schema = Migrations
    PROVE  StartInv'
<1>1. pc' = [pc EXCEPT ![r] = step] /\ pc \in [Runs -> Steps]
  BY DEF Goto, StartInv, TypeInv
<1>2. TypeInv'
  BY <1>1 DEF TypeInv, StartInv
<1>3. AppliedInv'
  BY <1>1 DEF AppliedInv, StartInv
<1>4. SchemaIsComplete'
  BY <1>1 DEF SchemaIsComplete, StartInv
<1>. QED  BY <1>2, <1>3, <1>4 DEF StartInv

\* A start, a migration that somebody else was faster with, and the end of a run.
LEMMA BeforeTheSchema ==
    ASSUME StartInv, NEW r \in Runs,
           Start(r) \/ MigratedMeanwhile(r) \/ StopRun(r)
    PROVE  StartInv'
<1>1. repo' \in {"absent", "partial", "whole"} /\ UNCHANGED <<schema, applied>>
  BY DEF StartInv, TypeInv, Start, MigratedMeanwhile, StopRun, Fails
<1>2. CASE Goto(r, "connect")
  BY <1>1, <1>2, SchemaUntouched DEF Steps
<1>3. CASE Goto(r, "failed")
  BY <1>1, <1>3, SchemaUntouched DEF Steps, Ended
<1>4. CASE Goto(r, "idle")
  BY <1>1, <1>4, SchemaUntouched DEF Steps, Ended
<1>. QED  BY <1>2, <1>3, <1>4 DEF Start, MigratedMeanwhile, StopRun, Fails

\* A run past its migrations knows that the schema is complete.
LEMMA BehindTheSchema ==
    ASSUME StartInv, NEW r \in Runs,
           OpenRepo(r) \/ CreateRepo(r) \/ InitRepo(r) \/ SeedCommit(r) \/ Bind(r)
    PROVE  StartInv'
<1>1. pc[r] \in {"open", "create", "init", "seed", "bind"}
  BY DEF OpenRepo, CreateRepo, InitRepo, SeedCommit, Bind
<1>2. schema = Migrations
  BY <1>1 DEF StartInv, SchemaIsComplete
<1>3. repo' \in {"absent", "partial", "whole"} /\ UNCHANGED <<schema, applied>>
  BY DEF StartInv, TypeInv, OpenRepo, CreateRepo, InitRepo, SeedCommit, Bind
<1>4. PICK step \in {"create", "init", "seed", "bind", "listening", "failed"} : Goto(r, step)
  BY DEF StartInv, TypeInv, OpenRepo, CreateRepo, InitRepo, SeedCommit, Bind
<1>. QED  BY <1>2, <1>3, <1>4, SchemaUntouched DEF Steps, Ended

\* A run that goes on past its migrations knows of all of them.
LEMMA MigratedKeeps ==
    ASSUME StartInv, NEW r \in Runs, Migrated(r)
    PROVE  StartInv'
<1>1. schema = Migrations
  BY MigrationsAreCounted DEF StartInv, TypeInv, AppliedInv, Migrated
<1>2. repo' \in {"absent", "partial", "whole"} /\ UNCHANGED <<schema, applied>>
  BY DEF StartInv, TypeInv, Migrated
<1>3. PICK step \in {"done", "open"} : Goto(r, step)
  BY DEF Migrated
<1>. QED  BY <1>1, <1>2, <1>3, SchemaUntouched DEF Steps, Ended

-----------------------------------------------------------------------------
(* Steps of a migrator.                                                    *)

\* A run that looks which migrations there are knows of what is there.
LEMMA ConnectKeeps ==
    ASSUME StartInv, NEW r \in Runs, Connect(r)
    PROVE  StartInv'
<1>1. /\ pc' = [pc EXCEPT ![r] = "migrate"] /\ applied' = [applied EXCEPT ![r] = schema]
      /\ UNCHANGED <<schema, repo>>
  BY DEF Connect, Goto
<1>2. TypeInv'
  BY <1>1 DEF StartInv, TypeInv, Steps
<1>3. AppliedInv'
  BY <1>1 DEF StartInv, TypeInv, AppliedInv
<1>4. SchemaIsComplete'
  BY <1>1 DEF StartInv, TypeInv, SchemaIsComplete
<1>. QED  BY <1>2, <1>3, <1>4 DEF StartInv

\* The others' knowledge stays behind the schema, and none of them was past it:
\* where a migration is missing the schema was not complete.
LEMMA MigrateKeeps ==
    ASSUME StartInv, NEW r \in Runs, Migrate(r)
    PROVE  StartInv'
<1>1. /\ schema = applied[r] /\ schema < Migrations /\ schema' = schema + 1
      /\ applied' = [applied EXCEPT ![r] = schema + 1] /\ UNCHANGED <<pc, repo>>
  BY DEF Migrate
<1>2. TypeInv'
  BY <1>1 DEF StartInv, TypeInv
<1>3. AppliedInv'
  BY <1>1, MigrationsAreCounted DEF StartInv, TypeInv, AppliedInv
<1>4. SchemaIsComplete'
  BY <1>1, MigrationsAreCounted DEF StartInv, TypeInv, SchemaIsComplete
<1>. QED  BY <1>2, <1>3, <1>4 DEF StartInv

-----------------------------------------------------------------------------
\* Every step of every run keeps the invariant.
LEMMA StepKeeps == StartInv /\ [StartNext]_startVars => StartInv'
<1>. SUFFICES ASSUME StartInv, [StartNext]_startVars PROVE StartInv'
  OBVIOUS
<1>1. CASE UNCHANGED startVars
  BY <1>1 DEF StartInv, TypeInv, AppliedInv, SchemaIsComplete, startVars
<1>2. ASSUME NEW r \in Runs, ServeWrite(r) PROVE StartInv'
  BY <1>2 DEF StartInv, TypeInv, AppliedInv, SchemaIsComplete, ServeWrite
<1>3. ASSUME NEW r \in Runs, Start(r) \/ Advance(r) \/ StopRun(r) PROVE StartInv'
  BY <1>3, BeforeTheSchema, BehindTheSchema, MigratedKeeps, ConnectKeeps, MigrateKeeps
     DEF Advance
<1>. QED  BY <1>1, <1>2, <1>3 DEF StartNext

\* No run of the binary goes on with a schema whose migrations are not all
\* applied, however many runs apply them beside each other and are killed
\* (src/db/mod.rs, connect_and_migrate).
THEOREM SchemaIsAlwaysComplete == StartSpec => []SchemaIsComplete
<1>1. StartInv => SchemaIsComplete
  BY DEF StartInv
<1>. QED  BY InitHolds, StepKeeps, <1>1, PTL DEF StartSpec

\* No start and no page replaces the first commit of the repository
\* (src/git/mod.rs, seed_initial_commit).
THEOREM RootIsAlwaysKept == StartSpec => RootIsKept
<1>1. StartNext => (head # None => head' = head)
  BY DEF StartNext, Advance, Start, Connect, Migrate, MigratedMeanwhile, Migrated, OpenRepo,
         CreateRepo, InitRepo, SeedCommit, Bind, ServeWrite, StopRun, Fails
<1>2. [StartNext]_startVars => [head # None => head' = head]_startVars
  BY <1>1
<1>. QED  BY <1>2, PTL DEF StartSpec, RootIsKept

-----------------------------------------------------------------------------
(* A run that is alone.                                                    *)

\* Where there is no whole repository there is no commit, and no run is past it.
RepoInv ==
    /\ repo # "whole" => head = None
    /\ \A r \in Runs : pc[r] \in {"seed", "bind", "listening"} => repo = "whole"

\* A run that found no other and has met none since: what it read is still so.
AloneOK(r) ==
    alone[r] /\ pc[r] \notin Ended =>
        /\ \A o \in Runs \ {r} : pc[o] \in Ended
        /\ pc[r] = "migrate" => applied[r] = schema
        /\ pc[r] = "create" => repo = "absent"
        /\ pc[r] = "init" => repo = "partial"
        /\ pc[r] = "seed" => head = None

AloneInv == alone \in [Runs -> BOOLEAN] /\ \A r \in Runs : AloneOK(r)

LoneInv == StartInv /\ RepoInv /\ AloneInv

\* Where another run takes a step, a run that has not ended is not alone.
LEMMA OthersAreNotAlone ==
    ASSUME LoneInv, NEW r \in Runs, pc[r] \notin Ended, NEW step, Goto(r, step),
           UNCHANGED alone, AloneOK(r)'
    PROVE  AloneInv'
<1>1. pc'[r] = step /\ \A q \in Runs \ {r} : pc'[q] = pc[q]
  BY DEF Goto, LoneInv, StartInv, TypeInv
<1>2. ASSUME NEW q \in Runs \ {r}
      PROVE  AloneOK(q)'
  <2>1. AloneOK(q)
    BY DEF LoneInv, AloneInv
  <2>2. ~alone[q] \/ pc[q] \in Ended
    BY <2>1 DEF AloneOK
  <2>. QED  BY <1>1, <2>2 DEF AloneOK
<1>. QED  BY <1>2 DEF LoneInv, AloneInv

\* A run starts alone or not, and whoever was alone is so no more.
LEMMA StartAlone ==
    ASSUME LoneInv, NEW r \in Runs, Start(r)
    PROVE  RepoInv' /\ AloneInv'
<1>1. /\ pc'[r] = "connect" /\ \A q \in Runs \ {r} : pc'[q] = pc[q]
      /\ alone' = [q \in Runs |-> q = r /\ \A o \in Runs \ {r} : pc[o] \in Ended]
      /\ UNCHANGED <<schema, repo, head, applied>>
  BY DEF Start, Goto, LoneInv, StartInv, TypeInv
<1>2. RepoInv'
  BY <1>1 DEF LoneInv, RepoInv
<1>3. alone' \in [Runs -> BOOLEAN]
  BY <1>1
<1>4. ASSUME NEW q \in Runs
      PROVE  AloneOK(q)'
  BY <1>1 DEF AloneOK, Ended
<1>. QED  BY <1>2, <1>3, <1>4 DEF AloneInv

\* A run that goes on alone finds what it has just read.
LEMMA AdvanceAlone ==
    ASSUME LoneInv, NEW r \in Runs, Advance(r) \/ StopRun(r)
    PROVE  /\ RepoInv' /\ AloneInv'
           /\ \A q \in Runs : pc[q] \notin Ended /\ pc'[q] = "failed" =>
                                ~alone[q] \/ repo = "partial"
<1>. USE DEF LoneInv, StartInv, TypeInv
<1>1. AloneOK(r) /\ RepoInv
  BY DEF AloneInv
<1>2. pc[r] \notin Ended
  BY DEF Advance, StopRun, Connect, Migrate, MigratedMeanwhile, Migrated, OpenRepo, CreateRepo,
         InitRepo, SeedCommit, Bind, Ended
<1>3. UNCHANGED alone
  BY DEF Advance, StopRun, Connect, Migrate, MigratedMeanwhile, Migrated, OpenRepo, CreateRepo,
         InitRepo, SeedCommit, Bind, Fails
<1>4. PICK step : Goto(r, step)
  <2>1. pc = [pc EXCEPT ![r] = pc[r]]
    OBVIOUS
  <2>. QED  BY <2>1 DEF Advance, StopRun, Connect, Migrate, MigratedMeanwhile, Migrated,
                OpenRepo, CreateRepo, InitRepo, SeedCommit, Bind, Fails, Goto
<1>5. pc'[r] = step /\ \A q \in Runs \ {r} : pc'[q] = pc[q]
  BY <1>4 DEF Goto
<1>6. /\ RepoInv' /\ AloneOK(r)'
      /\ pc'[r] = "failed" => ~alone[r] \/ repo = "partial"
  <2>1. CASE Connect(r)
    BY <1>1, <1>3, <1>5, <2>1 DEF Connect, Goto, RepoInv, AloneOK, Ended
  <2>2. CASE Migrate(r)
    BY <1>1, <1>3, <1>5, <2>2 DEF Migrate, RepoInv, AloneOK, Ended
  <2>3. CASE MigratedMeanwhile(r)
    <3>1. ~alone[r]
      BY <1>1, <1>2, <2>3 DEF MigratedMeanwhile, AloneOK
    <3>. QED  BY <1>1, <1>3, <1>5, <2>3, <3>1
              DEF MigratedMeanwhile, Fails, Goto, RepoInv, AloneOK, Ended
  <2>4. CASE Migrated(r)
    BY <1>1, <1>3, <1>5, <2>4 DEF Migrated, Goto, RepoInv, AloneOK, Ended
  <2>5. CASE OpenRepo(r)
    BY <1>1, <1>3, <1>5, <2>5 DEF OpenRepo, Goto, RepoInv, AloneOK, Ended
  <2>6. CASE CreateRepo(r)
    BY <1>1, <1>3, <1>5, <2>6 DEF CreateRepo, Goto, RepoInv, AloneOK, Ended
  <2>7. CASE InitRepo(r)
    BY <1>1, <1>3, <1>5, <2>7 DEF InitRepo, Goto, RepoInv, AloneOK, Ended
  <2>8. CASE SeedCommit(r)
    BY <1>1, <1>3, <1>5, <2>8 DEF SeedCommit, Goto, RepoInv, AloneOK, Ended
  <2>9. CASE Bind(r)
    BY <1>1, <1>3, <1>5, <2>9 DEF Bind, Goto, Listening, RepoInv, AloneOK, Ended
  <2>10. CASE StopRun(r)
    BY <1>1, <1>3, <1>5, <2>10 DEF StopRun, Goto, RepoInv, AloneOK, Ended
  <2>. QED  BY <2>1, <2>2, <2>3, <2>4, <2>5, <2>6, <2>7, <2>8, <2>9, <2>10 DEF Advance
<1>7. AloneInv'
  BY <1>2, <1>3, <1>4, <1>6, OthersAreNotAlone
<1>. QED  BY <1>5, <1>6, <1>7 DEF Ended

\* Every step keeps it too that a lone run's knowledge of schema and repository is
\* not overtaken, so that nothing but a partial repository fails it.
LEMMA LoneStep ==
    ASSUME LoneInv, [StartNext]_startVars
    PROVE  /\ LoneInv'
           /\ \A q \in Runs : pc[q] \notin Ended /\ pc'[q] = "failed" =>
                                ~alone[q] \/ repo = "partial"
<1>1. StartInv'
  BY StepKeeps DEF LoneInv
<1>2. CASE UNCHANGED startVars
  BY <1>1, <1>2 DEF LoneInv, RepoInv, AloneInv, AloneOK, startVars, Ended
<1>3. ASSUME NEW r \in Runs, Start(r)
      PROVE  /\ LoneInv'
             /\ \A q \in Runs : pc[q] \notin Ended => pc'[q] # "failed"
  <2>1. \A q \in Runs : pc'[q] = IF q = r THEN "connect" ELSE pc[q]
    BY <1>3 DEF Start, Goto, LoneInv, StartInv, TypeInv
  <2>. QED  BY <1>1, <1>3, <2>1, StartAlone DEF LoneInv, Ended
<1>4. ASSUME NEW r \in Runs, ServeWrite(r)
      PROVE  /\ LoneInv'
             /\ \A q \in Runs : pc[q] \notin Ended => pc'[q] # "failed"
  <2>1. /\ pc[r] = "listening" /\ UNCHANGED <<schema, repo, pc, applied, alone>>
    BY <1>4 DEF ServeWrite, Listening
  <2>2. RepoInv'
    BY <2>1 DEF LoneInv, RepoInv
  <2>3. ASSUME NEW q \in Runs
        PROVE  AloneOK(q)'
    <3>1. AloneOK(q)
      BY DEF LoneInv, AloneInv
    <3>. QED  BY <2>1, <3>1 DEF AloneOK, Ended
  <2>. QED  BY <1>1, <2>1, <2>2, <2>3 DEF LoneInv, AloneInv, Ended
<1>5. ASSUME NEW r \in Runs, Advance(r) \/ StopRun(r)
      PROVE  /\ LoneInv'
             /\ \A q \in Runs : pc[q] \notin Ended /\ pc'[q] = "failed" =>
                                  ~alone[q] \/ repo = "partial"
  BY <1>1, <1>5, AdvanceAlone DEF LoneInv
<1>. QED  BY <1>2, <1>3, <1>4, <1>5 DEF StartNext

\* A run that is alone fails only over a repository that gix::init was killed
\* in: whatever else killed runs left behind, it starts (src/git/mod.rs,
\* open_or_init; src/db/mod.rs).
THEOREM LoneStartAlwaysSucceeds == StartSpec => LoneStartSucceeds
<1>1. StartInit => LoneInv
  BY InitHolds DEF StartInit, LoneInv, RepoInv, AloneInv, AloneOK, Ended
<1>2. LoneInv /\ [StartNext]_startVars => LoneInv'
  BY LoneStep
<1>3. LoneInv /\ [StartNext]_startVars =>
        [ \A r \in Runs :
            pc[r] \notin Ended /\ pc'[r] = "failed" => ~alone[r] \/ repo = "partial" ]_startVars
  BY LoneStep
<1>. QED  BY <1>1, <1>2, <1>3, PTL DEF StartSpec, LoneStartSucceeds
=============================================================================
