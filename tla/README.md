# A TLA+ model of Wikikiki

Wikikiki keeps Markdown pages in a Git working tree and their metadata, edit
records and search index in SQLite. One call, `pages::write`, changes all of
them. This project models that pipeline and what surrounds it, checks the
models with TLC, and proves the central invariants with TLAPS.

All paths below are relative to the repository root; the Rust crate is in `src/`.

## 1. The system

| Component | Source | State it keeps | Operations |
|---|---|---|---|
| Page write service | `src/pages/mod.rs` | rows of `pages`, `page_edits`, `pages_fts` | `write`, `write_serialized` |
| Git store and writer lock | `src/git/mod.rs` | working tree, HEAD's history, the async mutex `write_lock` | `open_or_init`, `write_session`, `write_and_commit`, `wait_for_writes`, `file_history` |
| Page reading and conditional editing | `src/pages/mod.rs`, `src/web/mod.rs`, `src/web/templates.rs` | nothing on the server; the revision in a form field or an ETag | `read`, `view_page`, `edit_page`, `save_page`, `api_get_page`, `api_put_page` |
| Page history | `src/pages/mod.rs`, `src/git/mod.rs` | none (reads Git) | `history`, `file_history` |
| Liveness throttle | `src/throttle.rs`, `src/web/mod.rs` | a map from actor to second of last grant, behind a mutex; `actors.last_seen_at` | `claim`, `touch_actor_last_seen` |
| Graceful shutdown | `src/main.rs` | the process | `shutdown_signal`, the drain of `axum::serve`, `wait_for_writes` |
| Program start | `src/main.rs`, `src/db/mod.rs`, `src/git/mod.rs` | the schema, the repository, the port | `run`, `connect_and_migrate`, `open_or_init`, the bind of `serve` |
| Database and migrations | `src/db`, `migrations` | the SQLite file | the migrations, queries |
| Credentials | `src/auth/token.rs`, `src/auth/hash.rs` | rows of `credentials` | `issue`, `verify` (upgrades legacy digests), `revoke` |
| Browser sessions | `src/auth/session.rs`, `src/web/mod.rs` | rows of `sessions`; a cookie in each browser | `create`, `lookup`, `revoke`, `verify_password_login`, `login_submit`, `logout` |
| Actors and bootstrap | `src/actor/mod.rs` | rows of `actors`, `credentials` | `bootstrap_admin`, `issue_actor_token` |
| Audit logs | `src/auth/mod.rs` | `access_log`, `admin_audit` | `log_access`, `log_admin` |
| Search | `src/pages/mod.rs` | `pages_fts` | `search`, `fts_match_query` |
| Configuration | `src/config/mod.rs`, `src/main.rs` | none after start | loading, `parse_duration`, `format_duration`, `parse_lifetime`, `cookie_secure` |
| HTML templates | `src/web/templates.rs` | none | `edit_page`, `render_snippet`, `body_after_title`, `commit_author_chip`, `rel_time`, layout |
| Sync script | `scripts/wikikiki-sync.sh`, `.service` | events in a pipe, the file in hand | `slug_for`, `sync_file`, the initial pass, the watch loop |
| Errors and router | `src/error.rs`, `src/lib.rs` | none | mapping of errors to status codes |

How they interact. An HTTP handler authenticates its request, throttles the
liveness write, and calls `pages::write`. That call waits for the writer lock of
the repository and, in the same poll in which it gets it, spawns
`write_serialized` as a task of its own, which owns the lock from then on. The
task queries the layer, the actor and the row of the page; a blocking worker
truncates and writes the file and makes the commit; a `BEGIN IMMEDIATE`
transaction then writes row, edit record and index. The handler awaits the task
only to learn its result. Readers take no lock. A graceful shutdown waits for
the open requests and then for the lock.

Around this pipeline, every run of the binary migrates the database, and a server
opens or makes the repository before it binds its port. A browser holds the
cookie that names a row of `sessions`; login and logout change the two by
different messages. The sync script is one more client of the API: it PUTs
without a condition, once for each change of a file.

What is hard about it, and what makes it correct:

- *Three stores without a common transaction.* File, Git and SQLite change one
  after another, and a call may fail or die between any two. They must agree on
  every page no call was cut short on, and SQLite must never order commits
  otherwise than Git.
- *Conditional writes.* The condition is evaluated on a row; the text it
  protects is in Git. What is promised is compare-and-swap.
- *Detached tasks.* A caller may go away at any time: before acceptance nothing
  may remain of its call, after acceptance all of it must happen, even during a
  shutdown.
- *Stale authority.* An actor may be suspended while its call is queued.
- *Lock-free readers.* A reader sees a row and a file of two different moments.
- *Editors.* Revisions pass through ETags and form fields and come back, and the row
  that a refused form is to carry may fail to be read.
- *Clocks.* The throttle compares seconds that were read before its mutex, on a clock
  that may be adjusted; the UPDATE it lets through is stamped later and then waits.
- *Statements without a transaction.* `bootstrap_admin` and `issue_actor_token`
  change two tables and the audit log one statement at a time, may be killed or
  overtaken between any two, and run while the server resolves requests from the
  same tables. A replaced password must be shut out, a legacy token must survive
  its upgrade, and what is revoked or suspended must stay out.
- *Starts.* Two runs of the binary may start beside each other, and each may be
  killed between any two of its steps. No lock is held over a whole start.
- *Answers out of order.* A browser may get the answer to a logout after that to
  a later login, or an answer made under another configuration, or none.
- *A mirror without retries.* The sync script must see each change of a file and
  hand on the file as it is by then, though files are half written, vanish, and
  end the script or only its loop, event lines are cut at blanks, and a text may be
  taken for a file's name.
- *Conversions with separators.* Durations, entity tags, author lines and
  snippets are put together and taken apart again, by grammars of their own.

`PROJECT.json` lists the hazards one by one with the line where each bites and
the properties that cover it.

## 2. The modules

| Module | What it is |
|---|---|
| `WikiData` | requests, rows and conditions, shared by the modules below |
| `AtomicWiki` | the promise of `pages::write`: one register per page, changed in one step in which the condition holds, or not at all |
| `PageWrite` | the pipeline, with callers, lock, faults, restart, shutdown and administration |
| `EditSession` | `PageWrite` with agents and browsers that read, edit and save |
| `PageHistory` | `file_history` over a history of trees |
| `Throttle` | `Throttle::claim` and the UPDATE behind it |
| `Access` | actors, credentials and sessions, between the command line, the server and an administrator |
| `Startup` | the start of servers and other commands: migrations, `gix::init`, the seed commit, the port |
| `SyncScript` | the mirror script, the editors of its files, and its supervisor |
| `Browser` | logins, logouts and cookies of a browser with several exchanges under way |
| `Conversions` | durations, lifetimes and conditional headers as operators, over one input at a time |
| `Rendering` | author lines, snippets, page bodies and ages, in the same form |
| `PageWriteProofs`, `PageHistoryProofs`, `AccessProofs`, `BrowserProofs`, `StartupProofs`, `SyncScriptProofs`, `ThrottleProofs`, `RenderingProofs` | theorems about the modules they are named after, and their proofs; `PageWriteProofs` also has those about `EditSession`, `RenderingProofs` those about `Conversions` |
| `MCPageWrite`, `MCEditSession`, `MCPageHistory`, `MCThrottle`, `MCAccess`, `MCStartup`, `MCSyncScript`, `MCBrowser`, `MCConversions` | instances for TLC |

`EditSession` extends `PageWrite`, which extends `WikiData` and instantiates
`AtomicWiki`. `Rendering` extends `Conversions`, which instantiates `WikiData` for
the rows and conditions that headers end up in. `Throttle` and `Access` stand
alone: they share no state with the pipeline but `actors.is_active`, which
`PageWrite` has as `activeActors`. `Startup` ends where `PageWrite` begins, with a
database, a repository and one server. `SyncScript` and `Browser` see the server
from outside: a PUT or a request succeeds or fails as a whole, which `PageWrite`
and `Access` justify step by step.

Some definitions are introduced by a comment "Mutant of X". They are X with a
plausible mistake in it, stand directly before X, and are used by no
specification. Putting one in X's place must make TLC find the property that
`PROJECT.json` names beside it violated; this is how we know that a property
which holds says something.

### PageWrite

| Variable | In the program |
|---|---|
| `server` | the process: up, draining after a signal, stopped, crashed |
| `holder` | the owner of `Repo::write_lock` |
| `pc`, `req`, `result`, `commit_oid` | a call's position in `write_serialized`, its `WriteRequest`, what it returned, the commit it made |
| `caller` | the future that awaits the call: waiting, answered, or dropped |
| `disk` | the page files; `Torn` is a file that has been truncated and not yet filled |
| `commits` | HEAD's history, each commit with its tree, author and call |
| `pages`, `page_edits`, `pages_fts` | the tables |
| `activeActors`, `activeLayers` | the columns `is_active` |
| `drifted` | history variable: pages whose last call ended between its file and its transaction, and pages another tool wrote |

Each action reads or writes one piece of shared state, which is where other
tasks can come in between: `CheckLayer`, `CheckActor` and `CheckPrecondition`
are the three queries, `TruncateFile` and `WriteFile` the two halves of
`std::fs::write`, `CommitGit` the commit, and `ProjectTables` the transaction,
which SQLite makes atomic. `Accept` joins the end of the wait for the lock with
the spawn of the task because no await lies between them. `StorageError` is the
`?` behind any of these steps; `Crash` keeps what is on disk. A restart
recovers nothing because the program recovers nothing: `connect_and_migrate`
and `open_or_init` find the database and HEAD and leave them as they are.

`Submit` is a call of `pages::write` by a handler that is running. That may be during a
drain, for a request that was there before the signal. The model lets any call come
then, which contains these.

A commit carries its whole tree, so that the model shows if a commit brings in
another page's bytes. Hashes are injective (`HashIsInjective`), which is what
SHA-256 is used for. `Writers` are calls and not clients: each is made at most
once, and a client that retries is two writers.

### EditSession

A session is one editor with one page open. `ReadMeta` and `ReadFile` are the
two halves of `pages::read`. `AgentCondition` and `FormCondition` are what comes
back with a save: the ETag of the API, the hidden field of the form.
`Refused` is the 412: an agent reads again, a browser gets a form with its own
text and the row as it is by then. The query for that row may fail, whether or not
calls do; it is then taken for no row (`blind`), and the form has an empty revision.
`edits` is history: how many edits were recorded when the editor was last shown the
page. `FormIsVoid` is a form without a revision for a page that has a row: that of a
row without a hash, and that of a row which could not be read. It asks for a page that
is absent and is refused whatever happens, so the properties about refusals except it.

### PageHistory

A path is a sequence of segments and a segment a sequence of dotted parts, since
what matters about `relative_file_path` is what becomes of dots. Trees are
functions from paths to texts. The pages `a` and `a.md/b` block each other: the file
of one stands where the directory of the other would be. `WritePage` fails there
before it commits, as `create_dir_all` and `std::fs::write` do, while a commit by
another tool replaces what is in its way. `PagesAreSeparate` is therefore about the
writes of pages.

### Throttle

`Sample` reads the clock and `Claim` is the critical section. The UPDATE has two
steps: `Stamp` binds the second it will write, and `Touch` is its effect, in any order
of those that wait; `TouchLost` is its failure, or the end of its request. `Adjust`
moves the wall clock either way. `stale` (history) are the requests that were under way
at that time, and `excused` the keys whose last write was lost or a stale request's.

### Access

| Variable | In the program |
|---|---|
| `clock` | the wall clock; `SetClock` moves it either way |
| `actors`, `system`, `credentials`, `sessions` | the tables; `system` is the row of the actor in whose name tokens are issued |
| `cpc`, `order`, `known` | a run of the command line: the statement it is at, what it was asked to do, whether it found its actor |
| `request` | how far the server has resolved a request |
| `before` | history variable: which runs ended before which began |

Each SQL statement is an action. A run that issues a token begins with its issuer,
which `MissIssuer` does not find and `InsertIssuer` inserts, in vain if another run
has done so since. Every run goes through `LookUpActor`, then
`InsertActor` or `UpdateActor`, `RevokePasswords` if it is a bootstrap,
`InsertCredential` and `Audit`; `Fail` ends it after any of them but the last, with an error
of the statement or by a kill. A request goes through `PresentToken` and, for a
token stored under Argon2 by an old version, `Upgrade` or `UpgradeFails`; or
through `FindSession` and `FindActor`; or through `LogIn` and `OpenSession`. A
token that does not open is followed by the cookie, if there is one, as in
`resolve_actor`.

Secrets are values and not strings: a password is a model value, and a token is
named after the run that drew it. A hash is its scheme and what it was made
from. Two fields are history: `given` is the secret a credential's holder was
given, and `late` is what had been withdrawn by the time the request was made.
The initial states are a new installation, and one with an administrator, a
password, an open session and a legacy token.

Left out are runs with an actor type or an issuer that does not exist, which end
before they change anything, and `last_used_at`, which is written under the policy
that `Throttle` models.

### Startup

| Variable | In the program |
|---|---|
| `schema` | how many migrations the database has |
| `repo` | `.git`: absent, cut short within `gix::init`, or a repository |
| `head` | the first commit of HEAD's history |
| `pc`, `applied` | a run's step, and the migrations it knows of |
| `alone` | history variable: no other run has been active since this one started |

`Connect` reads which migrations there are, `Migrate` applies one with its record
in a transaction, and `MigratedMeanwhile` is the end of the run that comes second.
`OpenRepo`, `CreateRepo`, `InitRepo` and `SeedCommit` are `open_or_init`, with
`gix::init` in two halves. `Bind` keeps a second server out, but comes last;
`ServeWrite` is a page's commit, the first one if there is no seed. `StopRun` is a
shutdown or a kill, at any step.

### SyncScript

| Variable | In the script |
|---|---|
| `disk` | the files; `Partial` is one that is being written |
| `script` | off, in its initial pass, watching, or `orphaned`: watching with a dead loop |
| `todo`, `queue` | the rest of the initial pass, the events in the pipe |
| `current` | the file in `sync_file`, and what `cat` read from it |
| `wiki` | the pages |
| `source`, `missed` | history variables: the file each page was last written from, files whose last change was lost |
| `changes` | steps of the environment so far (bound `MaxChanges`) |

`Event` is `inotifywait`, with the events it is asked for; `OpenFile` and
`DeleteFile` make none. `Check`, `ReadFile` or `ReadFails`, and `Put` or `PutFails`
are the three steps of `sync_file`. `ReadFails` shows what `set -e` does: it ends the
script in the initial pass, but behind a pipe only the loop, and `pipefail` ends the
script at the next event. `Body` is `$(cat ...)`, which drops newlines at the end, and
`PageOf` the lower-casing of `slug_for`; a file with a blank in its name has no page, as
`curl` rejects the URL. `NextEvent` takes the file that the event line names up to its
first blank (`ReadAs`): the file itself, another one, or none. `Sent` is what
`--data-binary` makes of the body: the contents of a file if the body is an `@` and that
file's name (`Named`), and a failure if there is no such file.

### Browser

| Variable | In the program |
|---|---|
| `clock`, `config`, `restarts` | the time, the configuration the server runs with, how often it was started again |
| `sessions` | the table |
| `jar` | the browser's cookies named `wk_session` |
| `exchange` | how far a request and its answer have come |
| `logged` | the sessions whose login went to `access_log` |
| `signedIn`, `signedOut` | history variables: the login answered last, the schemes by which a logout was answered since |

`Send` fixes the cookie an exchange is made with, `Authenticate` is the middleware,
`OpenSession`, `AnswerLogin` and `LogOut` are the handlers up to their answers, and
`Deliver` is the answer's arrival, in any order. `Drop` is a closed tab or a broken
connection, which ends a handler where it is. `Takes` and `Stored` are external:
they are what browsers do with cookies.

### Conversions and Rendering

The variable holds one input, and nothing changes it: a state is an input, and an
invariant says what the conversions do to it. Text is a sequence of characters, of
which only those are told apart that a conversion looks for. Integers have `Width`
bits and wrap. A snippet's input is a text and the places of its matches, as SQLite has
them before it puts sentinels around each. What a conversion leaves out of a text is
said with `At`, the elements at a set of places in their order, and not by recursion:
the definitions are checked by TLC and reasoned about in proofs as they stand.

No input is assumed to be well-formed. A header line is visible ASCII or not (`Skipped`
is a field whose first line is not), a handle is any text, and what is shown of it is
said of what `trim` leaves (`Kept`).

## 3. The runs

| Run | Configuration | What it shows |
|---|---|---|
| `write_faults` | 3 calls, 2 pages (one written by another tool), 6 kinds of request, storage errors and crashes | `StoresAgree`, `EditsFollowGit`, `NoUnseenChangeErased`, `ConditionsChain`, `OutcomeIsTruthful`, and that the tables are atomic conditional registers (`ImplementsAtomicWiki`) |
| `write_drain` | 2 calls, 1 page, 8 kinds of request, storage errors, an actor suspended, a layer retired, shutdown; fair | every call ends, an accepted write completes, a drain ends and ends clean, a suspended actor's waiting call is refused |
| `edit_distinct` | an agent, a browser and a background writer, 3 calls; every write has a new text, and the row of a returned form may fail to be read | a save that goes through replaces what its editor read; no editor is refused without a change, not even one that saves again after a conflict, unless its form has no revision |
| `edit_rewrite` | an agent and a background writer that may repeat texts | violated: `SavesOverWhatItRead` |
| `history_root` | 4 pages, 5 commits, content root at the repository's root | history lists the newest changes of the page, and no page's write touches another page |
| `history_prefix` | the same with the content root in a directory | violated: `HistoryIsThePagesChanges` |
| `throttle_claims` | 3 requests, 2 actors, a clock of 5 seconds that is adjusted either way, interval 2, UPDATEs that wait up to 1 second | a claim is denied only in the interval of a grant; `last_seen_at` is no further behind than interval and wait allow |
| `access_resolve` | 2 runs of the command line for one handle, 3 kinds of order, 2 requests, runs killed anywhere, tokens revoked, actors suspended, the clock moved | a replaced password is shut and a new one opens, a token survives its upgrade, what is revoked or suspended is shut |
| `startup` | 2 servers, 1 other command, 2 migrations, runs killed anywhere | no run uses half a schema, the first commit stays, a start on its own fails only where an earlier one was killed within `gix::init` |
| `sync` | 2 files of one page and one with a blank in its name, 2 texts, one of them an `@` text, 5 steps of editors and kills, PUTs that fail; fair | each page says what its file says, but for changes lost in the four known ways; the script comes to rest |
| `conversions` | about 43,000 inputs | durations and lifetimes mean what was written, a condition holds only as its headers ask, a commit shows its author, snippets and bodies keep their text, ages are close |
| `browser` | 3 exchanges, 3 configurations, a restart, a clock of 4 seconds, sessions of 2 | a login takes hold, a logout sticks, no session is used that `access_log` was not told of |

### Bounds, and why they are enough

*Calls.* A lost update takes two calls. Three let a call fail between its commit
and its transaction, a second one build on what it left, and a third one repair
or disturb that. Calls are interchangeable, so the runs over safety use symmetry;
`write_drain` checks liveness and uses none.

*Pages.* One page is where conflicts happen; the second makes calls meet at the
lock and in the commit's tree and not on the page.

*Texts.* Two in `PageWrite`, so that a text can be replaced and come back.
Three in `EditSession`, where a read, an intervening write and a save each
need one.

*Requests.* `MCPageWrite` enumerates each kind of condition, met and unmet, and
a request that fails the identity check. Layers fail by being retired.

*Commits.* Five commits make histories longer than the limits 1, 2 and 3 and
shorter than 50.

*Clock.* Five seconds at an interval of two let a claim be granted, denied and
granted again, and the clock be adjusted, back or forward, before or after each step of
a request. A wait of one second lets UPDATEs overtake each other across a tick.

*Runs of the command line and requests.* Two runs overlap in every order of
their statements, or one follows the other. Two requests let an upgrade meet
another upgrade, and a logout or a login meet a look-up. One handle is enough,
as every statement is restricted to the rows of one actor. A clock of two
seconds has a moment before and one after an expiry, and passwords of the same
and of different seconds.

*Starts.* Each run of `Startup` may start again without a bound, so the counts bound
only what is active at once: two servers that race, and a command that migrates
beside them. Two migrations let a run see some of them and lose the race for either.

*Files and changes.* `Notes.md` and `notes.md` are one page. The third file,
`notes.md old.md`, has none, and its events are read as those of `notes.md`. One text
loses a newline, the other names `notes.md`. Five steps let a file be truncated and
filled while another one changes or the script is killed. The queue has no bound of its
own: at most five events are made.

*Exchanges.* A login, a logout and one more request or login are under way at once,
and a restart between any two steps. One browser is enough, as a session is named
by its browser's cookie only. A session of two seconds in a clock of four expires
while answers are on their way.

*Inputs.* Integers have 8 bits, with units that divide each other as the real ones
do; all 256 durations are read back, and lifetimes are those around each power of two
at which a product wraps. Header lines have up to four characters out of quote, comma,
star, blank and a letter, or are up to two well-formed ones, each visible ASCII or not.
Handles have up to three characters and may be empty or end in blanks, snippets are texts of up to four characters (two letters and both
sentinels) with every set of disjoint matches, bodies up to four lines. Each covers
every combination of what a conversion looks for, and a neighbour on either side. The
ages are those around each threshold of `rel_time`, with its real numbers.

`Throttle`, `PageHistory`, `SyncScript` and `Browser` stop when their bounds are
reached (and the sync script waits where nothing changes any more), and their runs do
not check deadlock. The other runs do: the server can always stop and be started
again. An input of `Conversions` only stutters.

### Fairness

`write_drain` assumes weak fairness of `Accept`, of each call's `Pipeline` and
of `Stop`. The runtime polls a task that is ready, and a blocking worker or a
SQLite statement returns, with an error if not with a result (the pool and the
busy timeout are bounded). Tokio's mutex is first come, first served; the model
lets any queued call go next, which contains that order, and since each call is
made once weak fairness is enough for it. Nothing is assumed of callers, faults,
administrators and signals: none of them is obliged to act.

`sync` assumes weak fairness of the script as a whole. `Restart=on-failure` and its
delay in `wikikiki-sync.service` start it again, `cat` and `curl` come to an end (the
latter with an error if not with an answer), and the pipe delivers its events. A PUT
may fail every time, and editors are not obliged to close a file.

## 4. Findings

- **Page history under a content root below the repository's root**
  (`history_prefix`). `write_serialized` commits `prefix/page.md`, and `history`
  asks for `page.md`. Such a configuration is supported by `Repo::relative_to`
  and hinted at by `wikikiki.example.toml`; in it every history lacks the page's
  writes.
- **A read that races with a write of a known text** (`edit_rewrite`). A reader
  gets row, then file. If the file is caught in the middle of a write whose text
  has a revision the page already had, that revision is current again when the
  editor saves. `edit_distinct` shows that nothing of the kind happens while
  texts are new: then a mixed read always fails its condition.

### Observations

What the modelling brought to light without contradicting a promise of the
repository in so many words, or without being worth a run. Each is visible in the
module named.

- After an error between commit and transaction a row is one version old, and a
  condition on the old revision passes and replaces the committed text unseen
  (`PageWrite`). The README says that such a page needs reconciliation.
  `NoUnseenChangeErased` says that it cannot happen where the previous commit was
  recorded.
- A form without a revision asks for a page that does not exist, and is refused for
  ever (`EditSession`, `FormIsVoid`). One is that of a row without a content hash. The
  other comes back with a conflict when `save_page` cannot read the row again: it takes
  the error for no row (`.ok().flatten()`), where its comment says that the form is "now
  carrying the current revision: saving again is an informed overwrite".
- The throttle grants twice when two requests straddle a tick of the clock and reach
  the mutex in the other order (`Throttle`): one UPDATE too many, where the
  comment says "exactly one write".
- `log_admin` hands its error on, where its comment promises the fail-soft policy of
  `log_access`. `issue-token` then ends before it prints the token, whose row is live
  and whose plaintext nobody has (`Access`, `Fail` at `audit`).
- A server killed within `gix::init` leaves a `.git` that no later start accepts, and
  two first starts beside each other may both stop on what the other one has made
  (`Startup`; the excepted cases of `LoneStartSucceeds`).
- In plain HTTP a browser neither replaces nor clears a `Secure` cookie of an earlier
  configuration: a logout then only revokes the session, and a new login does not
  take hold until the old cookie expires (`Browser`; the excepted cases of
  `LoginTakesHold` and `LogoutSticks`).
- A field whose first line is not visible ASCII counts for nothing, and its second line
  is not looked at. A write whose only condition is in such a field is unconditional
  (`Conversions`, `Skipped`).
- `parse_sig` takes a handle apart that has a `<` and a `>` behind it, and commits
  under another name. A `>` before a `<` ends the task by a panic, and a single bracket
  is refused by Git, both after the file has been written (`Rendering`, `HoldsMail`).
- `parse_sig` trims the name as well, and neither `bootstrap` nor `issue-token` looks at
  a handle: one that ends in a blank is shown without it in the history, where its badge
  may be another actor's, and one of nothing but blanks leaves its type with a colon
  behind it. The comment on `commit_author_chip` promises "the same typed badge as
  everywhere else" (`Rendering`, `AuthorIsNamed`).
- A query's word with a `-` is a phrase to FTS5, and its match may hold any control
  character that separates the two words in a text. A closing sentinel there ends the
  mark early, so that a stray sentinel may cost a highlight, where the comment on
  `render_snippet` says that it can at worst add one (`Rendering`, `Hit`).
- `short_rev` cuts at byte 12, which panics inside a character of a hand-made form: a
  500 instead of a 412. In `PageWrite` this is a `StorageError` at the
  precondition, which gives the lock back.
- The sync script loses a change between its initial pass and its watch, and one whose
  PUT fails. An event line is cut at its first blank, so that a change of a file with a
  blank in its name, or of any file where `WORKSPACE` has one, is dropped without a
  message, or makes the script send another file (`SyncScript`, `NextEvent`). The body
  goes to `curl` as an argument: a text that begins with `@` is taken for the name of a
  file, whose contents are sent (`Sent`), and one above the kernel's limit of an argument
  cannot be sent (`PutFails`). Newlines at the end are lost (`Body`).

## 5. What is proved

Every safety property that a passing run of section 3 checks is also a
theorem, for every value of the constants: any number of calls, editors, browsers,
runs, requests, pages and texts, any choice of faults, and histories without a
bound. The theorems are in eight modules, one for each component; editors share
that of the pipeline which they call.
`PROJECT.json` lists them with the property each states.

The assumptions are the named ones of the modules: `None`, `Torn` and `Partial` are
no data values, hashes are injective (`HashIsInjective`), clocks and intervals are
natural numbers, requests have the fields of a `WriteRequest`, paths are not empty,
units and thresholds of time divide each other, inputs of a conversion have the
types the code gives them.
An UPDATE of the throttle does not wait for longer than `Wait` (the guard of `Tick`): the
pool gives up after its acquire timeout and SQLite after its busy timeout.
TLC evaluates them in every run. Four theorems have hypotheses of their own; they
are named below, each with what happens without it.

Each proof follows the same plan. The property is seldom inductive, so an
inductive invariant is stated in named parts. One lemma per action, or per group
of actions that touch the same state, shows that each part survives, and the
theorem joins `Init`, `Next` and the consequence with temporal logic. Before it was
proved, each invariant was checked by TLC on the instances of section 3.

### `PageWriteProofs`: the pipeline and its editors, in four parts

*The lock and the stores* (`TypeCorrect`, `WritesAreSerialized`,
`EditsAlwaysFollowGit`, `StoresAlwaysAgree`). That the transaction appends the right
edit record depends on the call's commit still being HEAD, which depends on no
other call having been between its own file and transaction; that the row's hash
is the file's depends on the file still holding the call's text. `SafetyInv`
therefore adds to the properties

- `LockInv`: the calls in `write_serialized` are exactly the holder of the lock;
- `SignedInv`: past its check, a call signs as the actor it records;
- `FileInv`: past its write, the page's file has the call's text;
- `CommittedInv`: past its commit, that commit is HEAD, has the call's page,
  text, author and id, and is newer than all commits cited by an edit.

Steps that touch no store share `StoresUntouched`. Those that do use `Alone`, which
turns `LockInv` into "every other call is elsewhere", and `CommitExtends` or
`EditExtends` for what an append leaves in place.

*Results* (`OutcomeIsAlwaysTruthful`, `StopIsAlwaysClean`). What a caller was told must
agree with a history that other calls go on to extend. `OutcomeInv` ties each call to
the commits and edits that carry its id: none before its step (`TraceInv`), every
commit made by a call that asked for that page and text (`AuthorInv`), a result
exactly when it has ended (`ResultInv`), nothing under way in a process that has
stopped (`QuietInv`).

*Conditions* (`ConditionsAlwaysChain`, `NoUnseenChangeIsErased`, `TablesAreAtomic`,
`SuspendedActorIsAlwaysRefused`). A condition is evaluated on a row, and counts when a
commit replaces a text. `ChainInv` says how the two hang together: a page's blob at
HEAD is that of its newest commit (`HeadInv`), its row that of its newest edit
(`RowInv`), and a condition that has been checked goes on to hold until the
transaction, because nobody else gets to the row (`ConditionInv`). From these follow
the two properties of the history and the refinement: initial states map to
initial states of `AtomicWiki`, the transaction maps to its one step, in which the
condition holds, and each other step to a stutter.

*Calls that end* (`AcceptedCallsEnd`, `AcceptedWritesComplete`). Of the liveness
properties, these speak of a single call behind the lock, and need no more than that
its task is run: `TaskRuns(w)` says that a step of `Pipeline(w)` is taken infinitely
often, or that the call is infinitely often at no step of the pipeline. It is
the weak fairness of section 3 with the condition under which `Pipeline(w)` can be
taken, `pc[w] \in Serialized`, written out for `ENABLED`, of which the provers know
nothing; that the two are the same was checked by TLC on the instance of
`write_drain`. `Later` orders the steps of a call: nothing that
other calls, faults or a shutdown do takes it back or keeps it where it is
(`TaskGoesForward`), its own task moves it (`TaskMoves`), so it leaves each step for a
later one (`TaskLeaves`), up to the end. `AcceptedWritesComplete` has the hypothesis that
the process does not crash, as `write_drain` has.

*Editors*. `EditorsCallPageWrite` shows that a system with editors is one with callers, so that
`SafetyInv`, `OutcomeInv` and `ChainInv` hold below it, and the tables go on to be
atomic registers (`SessionsAreAtomic`). `EditorInv` adds what an editor
knows: its call asks for its page under the condition its row makes (`Sent`), and
the row it was shown is still the page's, or an edit has been recorded since
(`Shown`). From it follow, under any faults, `NobodyIsRefusedWithoutChange` and
`SavingAgainAlwaysOverwrites`. Both except a form without a revision (`FormIsVoid`), of
a row that has no hash or that could not be read after a conflict: it is refused
whatever happens (section 4, observations). The error of that query needs no fault kind
and is allowed in every run and theorem.

`SavesReplaceWhatWasRead` is the harder direction, since a read takes no lock and may
combine a row and a file of two moments. `CarefulInv` describes what a read may have
got: if its row is current again when the save is checked, its text is the one at
HEAD. That is so under three hypotheses, without any of which TLC finds the property
violated on the instance of `edit_distinct`: texts are not written
twice (`Rewrites = FALSE`; else the run `edit_rewrite` finds the property violated),
no call ends between its file and its transaction (`Faults = {}`; else a reader gets
a text that no row speaks of), and no other tool writes pages (`Imported = {}`; else
a row without a hash goes with any text).

### `PageHistoryProofs`: files and history

`FilesAreDistinct` is what the comment on `relative_file_path` claims, for all paths:
page and file are one to one, dots or not, under any prefix. With the guard of
`WritePage` it gives `WritesLeaveOtherPages`. For the history, `HistoryInv` says at every
commit of the past that a page's file has the text of the last write so far
(`SaysTheLastWrite`), and that all other commits leave it alone (`OthersLeaveIt`), so
that a commit touches the file exactly if it is a write that changed the page
(`TouchedIsChanged`). `HistoryAtTheRoot` has the hypotheses `Prefix = <<>>`, without
which the run `history_prefix` finds the property violated, and `OthersApart`: what
other tools commit is no page's file and in no page's way. `RepoPathFindsTheChanges`
needs only the second; it shows that the path without its prefix is all that is
wrong with `history`.

### `RenderingProofs`: conversions

One input at a time, these theorems are about operators, and hold for integers of
any width, units and thresholds as the assumptions have them, and texts of any
length. `DurationsAlwaysRoundTrip`, `LifetimesAlwaysAgree` and `AgesAreAlwaysClose` rest
on division with remainder: the unit `format_duration` takes divides the seconds
(`FormattedUnit`), a signed integer is never above the number it stands for unless
that is below all of its values (`SignedBounds`), and whole units grow with the
seconds (`DivisionGrows`). `AgesAscend` names what the last needs, which the constants
of `rel_time` meet: half a minute is no more than the skew that passes for now.

`ConditionsAreHonoured` and `AuthorsAreNamed` are about places in a text. A text with
no blank at its ends is trimmed already (`TrimKeeps`), so an entity tag is parsed back
as itself (`EtagIsParsed`), and a tag that is accepted is `etag_for` its revision
(`EtagIsTag`). What counts of a field is its first line, unless that is skipped, and
then nothing of the field does (`HeaderTexts`). `AuthorShape` says what stands where in a rendered author, and `Brackets`
where its angle brackets may be. If the handle's first bracket closes, the mail
would end before it begins (`ClosedFirst`); if it opens and none closes, the mail has
a bracket (`OpenedOnly`): no commit either way. Else the name is type, colon and
handle, without the blanks at the handle's end (`KeptEnds`, `NameOfPlain`), and its
first colon is the one between them, or, if no handle is left, has nothing behind it
(`ChipOfPlain`). No handle is excluded but one that holds a mail (`HoldsMail`).

`BodiesAlwaysKeepText` and `SnippetsAlwaysKeepText` say what is left of a text of any
length when some of it is taken out. `Rank(places, p)` counts the places up to `p`; it
grows with them and is the inverse of `Nth` (`RankCounts`, `NthIsPlace`), which the
library's theorems on cardinality give without an induction of ours. From it follows `NthOfImage`: a map that keeps the order of places takes the n-th to the
n-th. A body's lines of text are those of the page moved up by the heading's place
(`BodyBelow`, `WordsBelow`). A snippet's characters go through two such maps, into the
spliced text (`SplicedText`) and out of the rendered one (`ShownText`), which compose to
one that keeps their order; a character behind the first sentinel of its match is
marked (`HitIsMarked`), and, if the text has no sentinels, no other is (`MarkedIsHit`).

### The other components

*`AccessProofs`* (`AccessTypeCorrect`, `ReplacedPasswordStaysShut`, `LonePasswordOpens`,
`LiveTokensOpen`, `SuspendedStaysShut`, `RevokedStaysShut`). `CredentialInv` relates each row
to the run that wrote it and to that run's position: a password is that of a
bootstrap past its insertion (`PasswordInv`), a bootstrap past its UPDATE has revoked
those of the runs before it (`ReplacedInv`), and that of a bootstrap which none
overlaps or follows is live (`LoneInv`). `LateInv` follows a request from statement to
statement: what had been withdrawn when it was made still is, or a bootstrap has
given it back.

*`BrowserProofs`* (`LoginIsAlwaysLoggedFirst`, `LogoutAlwaysSticks`, `LoginAlwaysTakesHold`).
Since answers may arrive in any order, the invariant speaks of every answer under
way. `FreshInv`: nobody but its exchange knows a session until the answer to its
login arrives. `JarInv` and `SignedInInv`: a browser has one cookie at most, and that
of the login answered last is it. `SignedOutInv`: after a logout it has none that it
would send.

*`StartupProofs`* (`SchemaIsAlwaysComplete`, `RootIsAlwaysKept`,
`LoneStartAlwaysSucceeds`). `AppliedInv`: the database has no migration that the binary
does not carry, and a run knows of none that the database does not have; without
it a run could believe that it is through. `RootIsKept` needs no invariant, since
each step that sets HEAD looks at it in the same step, as Git's update of a
reference does. For a run that is alone, `AloneInv` says that what it read is still
so, and `RepoInv` that there is no commit where there is no whole repository.

*`SyncScriptProofs`* (`ChangesAreMirroredOrMissed`). `SettledInv` extends the property to
the initial pass, for the files behind it. `InHandInv`: the text in hand is the
file's, or the file has changed since and that change is queued, still ahead in
the pass, or noted as missed. Nothing is assumed of names and texts: which file an
event line is read as, and which file a text names, are any functions.

*`ThrottleProofs`* (`LastSeenIsAlwaysRecent`, `DenialsFollowGrants`). `GrantInv`: the map
holds grants only. `ClockInv`: a request that began since the clock was last adjusted
has read no second still to come, nor has its UPDATE waited too long. `TouchInv`: a
grant whose UPDATE is through has left a `last_seen_at` behind by no more than that wait,
whatever the order of the UPDATEs. That an UPDATE can end the exception of its key
depends on the map holding no second still to come (`AheadInv`). What is claimed is
claimed of requests that began since the clock was last adjusted, and not of a key
while its last write is one that was lost or that an adjustment overtook. One such
event excuses its key up to the next ordinary write of it, which the property then
covers again; only if the map still has a second ahead of the clock by then, from a
claim that the adjustment overtook, does it take a later one.

### Only model-checked

Four properties are of liveness. `AcceptedWriteCompletes`, and `EveryCallEnds` from the
lock on, are proved from `TaskRuns` as said above. The rest stays with TLC:

- `EveryCallEnds` up to the lock, and `DrainEnds`: a call waits for those that are
  served before it, which takes induction over them, and the fairness of `Accept` and
  `Stop` needs `ENABLED`.
- `ComesToRest`: the work left to the script has to be counted through restarts, failed
  PUTs and vanished files, which again is induction.

## 6. What is not modelled

- Order of the lock's queue beyond "one at a time" (see fairness).
- SQLite's connection pool, busy timeouts and locking: a statement succeeds
  atomically or is a `StorageError`. Only for the throttle's UPDATE is the time it waits
  modelled, with a bound that stands for both timeouts. An error that reports a failure after the
  transaction in fact committed is left out.
- The content of requests beyond what the checks look at: path validation, sizes,
  Markdown.
- `Repo::write_and_commit` called without the page service, and `file_at_commit`:
  nothing in the program calls them. Writers outside the process other than
  through the initial state (`Imported`).
- Loss of data below the file system: what `std::fs::write`, the commit and the
  transaction have written survives a crash of the process.
- What `curl` does beyond `@` texts that name a file of the workspace: names with glob
  characters, files elsewhere, a text that is `@-`, and the empty body that some versions
  send where a named file is missing.
- A task that panics, as an outcome of its own. It releases the lock like an error.
- The contents of the audit logs, and the hashing of addresses: nothing reads them.
  That an entry may fail to be written is `Audit` and `Fail` of `Access`, and that
  a login comes before its entry is `LogAccess` of `Browser`.
- What each migration creates. `Startup` counts migrations.
- Loading of the configuration and its environment overrides: a table of names.
- How a token is split into look-up key and secret; `Access` names tokens after the
  runs that drew them.
- Ranking and matching of the full-text search, which are SQLite's, with
  `fts_match_query`, which quotes each word.
- The table from errors to status codes, the routes, the guards `require_read` and
  `require_writer`, and the layout of pages: no state, and nothing that several steps
  could get wrong.

## 7. Plan

All planned modules are there, every invariant and action property of a passing run is
a theorem, and section 5 says which of the liveness properties are. What is left is
upkeep: a change of the code changes the definitions that `PROJECT.json` maps to its
lines, then the runs, then the lemma of the action it touched.
