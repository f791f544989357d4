# Jongji: formal models

TLA+ models of Jongji, a self-hosted task manager: a FastAPI server over
PostgreSQL (`src/backend/src/jongji`), a React frontend (`src/frontend/src`), an
MCP endpoint and a command line client. The models follow the code at this
commit; `PROJECT.json` maps every definition to the lines it stands for.

- [1. The system](#1-the-system)
- [2. The modules](#2-the-modules)
- [3. What TLC checks](#3-what-tlc-checks)
- [4. What is proved](#4-what-is-proved)
- [5. Where the code and its documents disagree](#5-where-the-code-and-its-documents-disagree)
- [6. What is not modelled](#6-what-is-not-modelled)
- [7. Plan](#7-plan)

## 1. The system

One asyncio process (or several, behind a proxy) serves requests. A handler is a
coroutine: other requests run at every `await`. Each request has an
`AsyncSession` of its own and with it a PostgreSQL transaction, READ COMMITTED,
which `get_db` rolls back unless the handler commits (`database.py:22-32`). So
shared state is of three kinds: rows of the database, objects in the memory of
the process (event bus, dashboard cache), and files. On the other side of the
network a browser tab has the state of its request client.

| Component | State | Operations | What is hard | What makes it correct |
|---|---|---|---|---|
| Task numbering (`task_service.create_task`, `clone_task`) | `projects.task_counter`, `tasks.number`, row lock of the project | create, clone, commit, rollback | requests overlap; an ORM object read before the lock is stale after it | numbers 1..counter without gaps, every request answered |
| Task relations (`api/tasks.py`, `transition_service`) | `task_relations` | add (limit, cycle walk), remove, delete of a task | the walk takes many queries and locks nothing | no cycle, no more than 10 blockers, the walk stops and refuses nothing else |
| Workflow (`update_task_status`) | `tasks.status`, `task_history` | move a task | the status validated is not the status overwritten | transitions of the table, a start only with finished blockers |
| Task fields and tags (`update_task`, `tag_service`) | `tasks`, `task_tags`, history | update, sync tags | overlapping updates compare with what they loaded | history true, tags those of the text, what is answered is stored |
| Task lists, search | the same rows, read | page by cursor, search by up to three statements | rows come and go between pages and statements | no gap, nothing twice |
| Comments, mentions, watchers | `task_comments`, `task_watchers` | create, change, delete | read the watchers, insert the missing | whom a comment mentions watches |
| Labels, templates | rows | create, change, delete, attach, clone, make a task | check then insert; copy then write | unique names, changes kept |
| Attachments | row and file | upload, download, delete | two stores without a common transaction; crashes; a path that is prefixed twice | a row has its file, a file without a row is explained |
| Users, administrators, setup | `users`, `system_settings`, advisory lock | register, wizard, roles, deactivate, settings | counts that become stale | one founder, an administrator remains, the wizard leaves a completed setup alone |
| Authentication, sessions, keys | `users`, `refresh_tokens`, API keys | login, refresh, logout, revoke, act | flushed but not committed; bcrypt between read and use | revoked stays revoked, failures lock |
| OAuth settings | three rows | save, delete, read, `PUT /admin/settings` | row by row, and past the service | one configuration, whole |
| Teams, invites | members, roles, `team_invites`, slugs | invite, join, leave, roles, archive | read, compare, write | uses within `max_uses`, leaders act |
| Projects and access | members, roles | create, add, remove, archive | an access decision is several reads | who acts may act, archived with the team |
| Event bus (`event_bus.py`, `api/events.py`) | buffer per project, queue per subscriber | arrive, subscribe, replay, deliver, disconnect, restart | replay and live events meet; queues and buffer are bounded | in order, at most once, nothing lost unnoticed |
| Alert digest (`services/alert`) | `alert_logs`, advisory lock | dispatch, round of sends, commit | several instances; messages cannot be rolled back | duplicates only after a fault, outcomes true and written once |
| Dashboard, cache (`utils/cache.py`) | `TTLCache` | count, store, expire, evict | several counts; a late store | a rate of one state, never back in time |
| Frontend client (`api/client.ts`) | `isRefreshing`, `failedQueue` | request, refresh on 401, retry | many requests fail together; the refreshed token reaches none | one refresh at a time, every caller answered |
| MCP tools, CLI, audit, export, RSS | none of their own | call the services, read, append | as the services | as the services |

They interact through rows: the workflow reads what relations wrote; relations
and tasks disappear together in `archive_task`; membership of a team decides who
works in its projects; the digest reads what `dispatch` wrote. The event bus gets
its events by NOTIFY. In this commit neither `dispatch` nor `publish` has a
caller outside the tests and the frontend opens no event stream, so these two
components are modelled at their interfaces.

The hazards of all components are listed in `PROJECT.json`, each at its line,
with the properties that would catch it.

## 2. The modules

| Module | Models | Composition |
|---|---|---|
| `TaskSequence` | what numbering promises: the tasks of a project come one by one as 1, 2, 3, ... | |
| `TaskNumbering` | create and clone requests up to their commits | implements `TaskSequence`; run by `MC_Locks` |
| `TaskRelations` | adding, removing and archiving | |
| `TaskStatus` | moving tasks while relations change | `INSTANCE TaskRelations`; its actions are steps here; run by `MC_Tasks` |
| `EventStream` | what a stream promises: each client sees events in order, each at most once | |
| `EventBus` | buffer, replay, queues | implements `EventStream` |
| `AlertDigest` | instances, advisory lock, sends, commit, faults | `EXTENDS DigestConstants`; run by `MC_Locks` |
| `DigestConstants` | the constants of `AlertDigest` and what is assumed of them | |
| `Accounts` | accounts, setup wizard, administrators | run by `MC_Accounts` |
| `Sessions` | sign-in, refresh tokens, API keys of one account | run by `MC_Accounts` |
| `OAuthSettings` | three rows of one configuration | run by `MC_Accounts` |
| `ClientRefresh` | the calls of a browser tab and their one refresh | run by `MC_Accounts` |
| `Teams` | members, leaders, an invite | run by `MC_Teams` |
| `Projects` | projects, their members, archiving | run by `MC_Teams` |
| `Slugs` | the search for a free slug | run by `MC_Teams` |
| `TaskFields` | fields, tags and history of one task | run by `MC_TaskData` |
| `Comments` | comments on a task and its watchers | run by `MC_TaskData` |
| `Labels` | labels, on a task and carried to its clone | run by `MC_TaskData` |
| `Attachments` | rows and files, errors and crashes | run by `MC_TaskData` |
| `Templates` | one template and the tasks made from it | run by `MC_TaskData` |
| `TaskPages` | a walk over a list by cursor | run by `MC_TaskData` |
| `Search` | one search, statement by statement | run by `MC_TaskData` |
| `Dashboard` | counting requests and the cache | run by `MC_TaskData` |

Every `MC_` module instantiates modules for TLC, every `Proofs` module proves
theorems about one. Names of actions and variables follow the code; the header of
each module says how its state corresponds to the program.

`MC_Accounts`, `MC_Teams` and `MC_TaskData` each hold several modules that write
no common row. Instead of their product the initial state chooses a `part`, and
only that part moves: what TLC explores is the sum of the parts' states, and a
property of a part is checked on all behaviours of that part. `MC_Locks` puts
`TaskNumbering` and `AlertDigest` beside one another in the same way, which wait for
locks of the database, and `MC_Tasks` adds `TaskStatus` to the parts of `MC_TaskData`. Where two parts
read what a third writes (the members of a team in `Teams` and `Projects`), each
has the writes it can meet as actions of its own.

**Transactions.** One SQL statement is one step, because READ COMMITTED gives
every statement a snapshot of its own. What a transaction has not committed is
visible to itself only. Consecutive statements are joined only where a row lock
or a private row makes the difference invisible, and the module says so.

**Sessions of SQLAlchemy.** An ORM object keeps what was read until the session
lets go of it; a second SELECT of the same row does not refresh it. The identity
map is weak: what a helper loaded and returned to nobody is freed, so the next
SELECT reads the row anew. A flush writes only the columns whose value differs
from the one loaded. All three decide outcomes in `TaskNumbering`, `TaskFields`,
`Templates` and `OAuthSettings` and are modelled there.

**TaskNumbering.** `LockProject` is the `SELECT ... FOR UPDATE`. `seen[r]` is
the `task_counter` of the `Project` object in the session. A create fills it
under the lock; a clone has filled it before, through the `joinedload` of
`get_task`, and the locking SELECT does not refresh an object the session holds.
`FlushTask` and `FlushConflict` are the two outcomes of the flush under UNIQUE
(project_id, number); `Abort` is any exception, or a lost client, before the
commit.

**TaskRelations.** `visited` and `stack` are the locals of `detect_cycle`, and
`Visit` is one turn of its loop with its query. Rows deleted and not committed
are `doomed`: still read, and locked. `missed` and `raced` are history: a row is
raced when another insertion was committed between the first check and the
insertion of its own request. `MC_TaskRelations` adds `cut`, the requests under
whose walk relations were removed.

**TaskStatus.** `from` and `to` of a mover are the status it read and the one it
was asked for. `stale` and `unsettled` are history: the status of the task was
written, or a blocker was added or reopened, after the mover's read.

**EventBus.** Events have random identifiers that are compared for equality
only; the model numbers them by arrival. An arrival is one step, as no `await`
separates the buffer from the queues. Events of the buffer expire from its old
end, the clock being monotone. What a generator that was given up had in its
queue is dropped with it. `base` and `lost` are history.

**AlertDigest.** The lock and the transaction of a round belong to a connection.
`LoseConnection` frees the one and rolls back the other at the server while the
instance goes on sending until its next statement, which fails (`GiveUp`).
`Crash` is the death of the process as well as `stop_scheduler` in the middle of
a round. The unlocking statement may get a new connection from the pool; it then
releases nothing. A channel returns False on any exception, so a message that
arrived but was not acknowledged in time counts as failed (`SendTimesOut`).
`delivered` and `spoilt` are history.

**Accounts.** The two setup handlers that create and complete wait for
`pg_advisory_xact_lock(42)`; everything else reads and writes without a lock.
The role change reads, counts and writes in three statements; `deactivate_user`
believes the `is_admin` that was read before. `stale` marks a request whose
count or reading another commit has made wrong. Of `system_settings` the model has
`setup_completed` with its value and the rest; `update_system_settings` takes any
keys, so an administrator may write the one as well as the other, and undo the
completion.

**Sessions.** A wrong password raises after the flush of the count, so the
action leaves the row as it was: that is the lock-out finding. An access token
is checked against nothing stored, so a call with one depends on the account
only; a call with an API key lists the keys, compares with bcrypt, and acts.

**ClientRefresh.** One JavaScript handler runs at a time. The first 401 starts a
refresh, the next ones wait in `failedQueue`; the waiters are sent again without
the mark `_retry`. No request carries an access token: the interceptor attaches
the CSRF token, and what the refresh answers is dropped. `asks` is whether the server
wants one (it does unless `AUTH_DISABLED` finds an active administrator), so a call
that has refreshed is refused again and fails, and those that waited refresh, or
wait, once more. `rejected` holds the calls whose last answer was an error;
`unserved`, history, those with a reason: no session, or a lost refresh.

**OAuthSettings.** Save, delete and read go row by row; a write is flushed by the
next SELECT of its transaction and locks the row until the commit. `PUT
/admin/settings` is a fourth request that writes any of the three rows by
itself, with any text (`Text`): one SELECT, then the flush with the commit.

**Teams, Projects.** A handler asks for its caller's role, reads its row, writes
and commits: three steps. An invite's `use_count` is read, compared and written
back plus one.

**TaskFields.** The copy a request loads is what it checks, compares with and
records; a text is the set of its tags. **Comments.** The comment is flushed, the
watchers are read, the missing inserted, all one transaction. **Attachments.**
Every step may fail and nothing done to the storage is undone; a crash fails
every request. The storage is the local one below `./uploads`, the only one that
`get_storage` returns, and its paths are as the code makes them: `save` returns the
path with that directory in front, the row keeps it, and deletion and download put
the directory in front once more, so they look for `uploads/uploads/...`.
**Search.** Ranks are a choice, filters are part of what matches.
**Dashboard.** Time is not measured; an entry expires at some moment.

## 3. What TLC checks

| Run | Instance | States | Shows |
|---|---|---|---|
| `locks` | 3 requests, 1 project, 4 tasks; 2 instances, 2 tasks, 2 alerts, 2 attempts, 2 faults | 191 k | numbers dense, creates never conflict, refinement of `TaskSequence`, requests finish; duplicates explained, sent means delivered, decided once, every log decided |
| `task_relations` | 2 requests, 3 tasks, limit 1, depth 3 | 770 k | a cycle or too many blockers need a raced row; the walk ends and refuses for a reason |
| `task_relations_cycle` | 2 requests, 2 tasks | | violation: a cycle |
| `task_status_closed` | 2 movers, 1 task | | violation: a closed task is reopened |
| `event_bus` | 2 clients, buffer 2, queue 1, 4 events | 218 k | nothing lost but at replay or a full queue, refinement of `EventStream`, hand-over |
| `event_bus_resume` | 1 client | | violation: an event during a replay is missed |
| `accounts` | 2 users, 2 requests, 2 tokens, 1 key; 2 OAuth configurations; 3 browser calls | 416 k | one founder, an administrator remains unless raced, revoked requests do not act, configurations whole unless overtaken or written by `PUT`, calls share a refresh and none is rejected for the others, requests and calls end |
| `login_lockout` | 1 client, limit 3 | | violation: wrong passwords lock nothing |
| `client_refresh_session` | 1 browser call | | violation: with a session and an answered refresh a call fails |
| `teams` | 3 users and an invite for 1; 2 users and a project; 3 bases | 1.4 M | uses counted, projects changed by who may, archived with the team, slugs first free |
| `tasks` | 2 requests on one task and what belongs to it; 5 tasks by pages of 2; a search over 2 tasks; 2 projects in a cache for 1; 2 movers of 2 tasks beside a request | 3.0 M | see below |
| `attachments_deleted` | 1 request, 1 file | | violation: a deletion leaves the file |

`tasks` checks, part by part: an illegal move (`LegalUnlessStale`) or a blocked start
(`StartsUnblockedUnlessChanged`) needs an interfering write; the tags
are those of the texts (`TagsMatchUnlessPatched`), and an answered update came from an editor, is stored
and told by the history (`UpdateToldUnlessOvertaken`); whom a comment mentions
watches (`MentionedWatch`), and what a check let through the database refuses only
if it was overtaken (`RefusedOnlyIfOvertaken`, of comments and labels); rows have
files, and files rows but during or after a failed upload and after a deletion
(`RowsAndFilesAgree`); template updates
keep what they do not set and tasks are made of the current template
(`UpdateIsKept`); a walk by pages has no gap and shows nothing twice
(`WalkIsWhole`); the statements of a search complement one another
(`PageIsWhole`); the dashboard does not mix states or go back in time without a
cause (`ToldUnlessMixedOrLate`). Where such a property is a conjunction, its parts have names in
their module.

Type correctness of the modules that share a run is checked there (`PartsTypeOK`)
and proved; for the other modules it is `TypeCorrect` of section 4. In the same way
`CompletedAfterFounder`, `SettingsFrozenUnlessStale`, `JoinsHonoured`,
`LeadersActUnlessRemoved` and `LostOnlyIfOvertaken` by itself are proved for all
instances instead of being checked on one; TLC agreed with them first.

**Bounds.** Requests, movers and instances interact in pairs: a race needs two,
and numbering has a third so that one can wait while two others pass the
lock. Limits of the code (10 blockers, depth 20, buffer 100, queue 200, 3
attempts, 10 failures, `max_uses`, page sizes, `max_size` of the cache) are
constants and small, so that each is reached, passed and reached again; three
tasks with a depth of three give chains and cycles as long as the depth, where the limit of visited
tasks bites. Five tasks by pages of two give a full, a further and a last page
while tasks come and go. The search has two tasks, so that one can match by two
statements while the other one changes. Bounds the code does not have:
`MaxTasks`, `MaxEvents`, `MaxAlerts`, `MaxFaults`, `MAX_FIELDS` (fields one update sets),
`MAX_WRONG`, `MAX_SLUGS`,
`MAX_TASKS` and `MAX_SHOWN` (a walk whose cursor is ignored starts over),
`MAX_OFFSET`, `MAX_AGE` (changes of a project). Each lets the interesting case
happen at least once: four tasks give each request a second turn; four events
fill a buffer of two and evict from it; two faults break a round and the round
that repeats it; four slugs let a base meet another one with its suffix. Three
calls of a browser are one that refreshes, one that waits for it and refreshes
next, and one that comes between. Of the two OAuth configurations one is saved a
second time as a rotation: its encrypted secret differs from the stored one each
time, the other rows do not; the texts `PUT` sends are those of the other one. Projects share nothing in numbering
and events, so one is enough. `tasks` uses symmetry over its requests, which
nothing tells apart and which are the movers of `TaskStatus` too; its properties
are of safety.

**"Unless".** Most of what the code guarantees without locks has the form "unless
another commit came between a check and its write". The exception is recorded in
a history variable (`raced`, `stale`, `overtaken`, `late`, `mixed`, ...) that is
set only by such a commit and cleared with the request, so where a request ran
alone the property is the plain one. The exceptions are reachable; for the cycle
and the closed task a run shows it.

**Fairness.**
`locks`, numbering: weak on the steps of a started request, since the event loop
runs ready coroutines and PostgreSQL answers; strong on `LockProject`, since
PostgreSQL queues the waiters of a row lock.
`task_relations`: weak on the loop of `detect_cycle` only.
`event_bus`: weak on the generator of a connected client, which reads its
stream; nothing is assumed of arrivals, disconnections and restarts.
`locks`, digest: weak on the job, which fires every five minutes, on the steps of
its round, and on the restart of a dead process (`docker-compose.yml` restarts
the backend after a failure, up to three times, and `MaxFaults` is below that).
`EveryLogIsDecided` therefore speaks of finitely many faults.
`accounts`: weak on the steps of a request and strong on the two that wait for
the advisory lock, as above; weak on what the browser and the network do for a
call, each request being answered or failing at last. `CallsEnd` speaks of
behaviours in which no new call is sent from some moment on: then every call that
waits is the one that refreshes some day, and ends. While new calls keep coming, one
that waited may find another refresh under way each time it is sent again, and
nothing in the client bounds that.
The other runs check no liveness.

Deadlock is checked in every run but `teams`, where a team without a leader and
with a closed invite stands still, and so do the slugs at their bound.

Each property has a mutant in `PROJECT.json`: a plausible defect in one mapped
definition (a lock not awaited, a filter lost, a limit off by one, an unlock
forgotten) under which TLC finds the property violated.

## 4. What is proved

TLAPS proves, for all values of the constants and not only for the instances
above, from the named assumptions of each module alone:

- `TaskNumberingProofs`: `TypeCorrect`, `NumbersAreDense`,
  `CreatesDoNotConflict`, `ImplementsSequence`. The strengthening says that the
  row lock belongs to exactly the request that is under way with it, that a
  create with the lock knows the counter of the row, and that what a clone knows
  is never ahead of it; a clone's stale number then either is the next one or is
  taken, and the latter cannot be flushed.
- `TaskRelationsProofs`: `TypeCorrect`, `NoCycleUnlessRaced`,
  `WithinLimitUnlessRaced`, `RefusalsAreJustified`, `WalksUseThemselvesUp`. The rows without the raced ones are `Separated`: for
  every row there is a set of tasks that no row leaves, with the blocker in it
  and the blocked task outside. A walk that missed no insertion (`WalkClosed`)
  ends with such a set for the row it wants to add, namely what it visited;
  that deletions go on under the walk does no harm. No induction over paths is
  needed, reachability being membership in every set closed under the relation. By
  the same definition what a walk has visited or stacked stays reachable as long as
  nothing is removed (`WalkReachable`), so a refusal names a cycle or more tasks
  than the depth. Each turn of the loop visits one more task, at most
  `MAX_CHAIN_DEPTH` of them, or shortens the stack, whatever is added meanwhile:
  of `SearchEnds` only the fairness is left to TLC.
- `TaskStatusProofs`: `TypeCorrect`, `MovesAreLegal`, `StartsAreUnblocked`. What
  a mover read still holds, unless it is marked stale or unsettled; `stale` and
  `unsettled` are set by every step that could disturb it, those of
  `TaskRelations` included.
- `EventBusProofs`: `TypeCorrect`, `NothingElseIsLost`, `ImplementsStream`. A
  client's received events, the rest of its replay and its queue are together
  increasing, and are all it is owed but what is lost.
- `AlertDigestProofs`: `TypeCorrect`, `DuplicatesAreExplained`,
  `SentMeansDelivered`, `LogsAreDecidedOnce`. Only the holder of the lock has a
  live session in a round (`LockHeld`), so what a round has read stays pending
  until it commits (`OwnsItsLogs`, `OwnsItsUpdates`), so a message is either one
  the database can no longer be told of or the one that makes its log "sent"
  (`EveryMessageCounts`). None of the named parts is inductive without the
  others: `DecidedOnce` alone is broken by a round that commits without the lock.
- `AccountsProofs`, of four modules:
  - *Accounts*: `TypeCorrect`, `WizardCreatesOne`, `CompletionFollows`,
    `AdminRemains`, `SettingsFrozen`. What the wizard checked under the advisory
    lock still holds at its write (`LockHeld`, `CheckedUnderLock`): only who holds
    the lock creates a founder, and no account ever disappears. An account that
    came before the founder came from elsewhere (`Origins`). A request that is
    about to take an administrator away, and is not stale, leaves another one
    (`AnotherRemains`).
  - *Sessions*: `SessionsTypeCorrect`, `ActsWhileAllowed`. From the list of keys to
    the comparison and from there to the act the key is there unless the request
    was overtaken (`ComparesAKey`).
  - *ClientRefresh*: `ClientTypeCorrect`, `CallsShareARefresh`. The queue holds
    exactly the calls that wait (`WaitingQueued`), and `isRefreshing` is true while
    exactly one call refreshes, without which the queue is empty
    (`RefreshUnderWay`); a call is marked before it can be refused for good
    (`RejectedForCause`).
  - *OAuthSettings*: `OAuthTypeCorrect`, `SettingsStayWhole`. The argument goes row
    by row: a request that nobody overtook began with one whole configuration
    (`FoundWhole`), what it has read is what is stored (`SeenIsStored`), and every
    row before its position is as it wants it (`WrittenOrAsWanted`). Its last
    commit then leaves its own configuration whole. A `PUT /admin/settings` overtakes
    the others by its commit and is itself the exception of the theorem.
- `TeamsProofs`, of three modules:
  - *Teams*: `TypeCorrect`, `UsesAreCounted`, `JoinsAreHonoured`, `LeadersAct`. A
    join has read a count below the limit (`ReadBelowMax`) that is still the
    invite's unless it was overtaken (`ReadFresh`).
  - *Projects*: `ProjectsTypeCorrect`, `ProjectsGoWithTeam`,
    `ManagersChangeProjects`. The archived projects and the archived team become
    visible together, archivings exclude each other, and a project that one does not
    update came after it began (`CascadeAlone`); whoever passed a check
    still belongs to the team, or is marked (`CallersInTeam`).
  - *Slugs*: `SlugsTypeCorrect`, `SlugsAreFirstFree`, `SearchesEnd`. Every suffix
    the loop has passed is taken (`PassedAreTaken`), slugs are never given back, and
    the slugs of one base differ; so the loop has passed no more suffixes than
    there are slugs, which is why it ends.
- `TaskDataProofs`, of eight modules:
  - *Comments*: `CommentsTypeCorrect`, `MentionedUsersWatch`,
    `LossesAreOvertakings`. A comment about to commit carries the watchers it
    misses (`MentionsCarried`), and watchers are never removed.
  - *Attachments*: `AttachmentsTypeCorrect`, `FilesAndRowsAgree`. A row comes after
    its file (`FileBeforeRow`), and no deletion reaches a stored file, the path it
    tries being none that `save` returns (`PathsApart`). Errors and crashes are one
    lemma, `BrokenAInv`, for any set of requests that fail together. The theorem
    does not say that a deleted attachment loses its file: it does not (section 5).
  - *TaskFields*: `FieldsTypeCorrect`, `TagsMatch`, `UpdatesAreTold`. The copy of a
    request is the row unless it was overtaken (`CopyFresh`), who passed the check
    was an editor by the copy (`CheckedCallers`), and tags committed behind its
    DELETE mark it (`FreshOvertakes`).
  - *Labels*: `LabelsTypeCorrect`, `LabelsRefusedIfOvertaken`, with the foreign keys
    of `task_labels` as part of the invariant (`UsedAreThere`).
  - *Templates*: `TemplatesTypeCorrect`, `UpdatesAreKept`. Again the copy is fresh
    unless overtaken (`TemplateFresh`), and a row that was flushed is locked, so
    that it cannot be deleted before the commit (`HeldIsThere`).
  - *TaskPages*: `PagesTypeCorrect`, `WalksAreWhole`, for any number of tasks and
    any size of page. The lemmas about the rank of a task, the number of newer ones
    (`RanksFall`, `RanksAreTaken`), give that `Descending` is a sorted enumeration
    (`DescendingSorts`); a page then is its first rows (`PageShows`). All that was
    shown is at or above the cursor (`ShownIsNewer`), which is what keeps pages
    apart while tasks come in anywhere.
  - *Search*: `SearchTypeCorrect`, `PagesAreWhole`. A page that still has room took
    all its statements could find, of what was not touched (`RoomMeansAll`).
  - *Dashboard*: `DashboardTypeCorrect`, `DashboardTells`. What a request has counted
    is of the present state or marked mixed (`TotalsTell`, `ResultsRate`); what was
    told is not forgotten (`FloorsTold`), and an entry that is not late is the
    newest told (`AgesTold`).

`MC_Accounts`, `MC_Teams` and `MC_TaskData` put these modules side by side.
`PartsAreThemselves` says that under their specification each of the modules runs
by its own, moving or standing still; so what is proved of a module's specification
holds there, and `PartsTypeCorrect` and `RefusalsAreOvertakings` are concluded that
way. `DigestIsItself` and `SidesAreThemselves` say the same of `MC_Locks` and
`MC_Tasks`, in whose terms the theorems about the digest and the workflow are stated.

The assumptions are the modules' own, which TLC evaluates in the runs: values that
stand for nothing are no values (`NoUser` is no user, `Nothing` no key), the sets an
initial state chooses from are not empty, bounds are natural numbers, a page holds
at least one row, and what is counted is finite: the tasks that block each other,
tasks and comments of a search, requests that make slugs. Nothing else limits the
number of users, tasks or requests.

The invariants they conclude were checked by TLC on instances such as those above
before they were proved.

With this every safety property that a passing run checks, of states or of steps,
is a theorem, and so are the two refinements. Model-checked only are the liveness
properties (`RequestsFinish`, `SearchEnds`, `HandedOver`, `EveryLogIsDecided`,
`RequestsEnd`, `CallsEnd`), which need fairness and ENABLED, out of the prover's
reach. The runs that end in a violation need no theorem: a counterexample is one.

## 5. Where the code and its documents disagree

Each of these is shown by a run with a counterexample; `PROJECT.json` quotes the
lines.

- Overlapping adds close a cycle of blockers (`api/tasks.py:455`).
- A task that is CLOSED is reopened by a request that read DONE
  (`api/tasks.py:380`).
- An event that arrives while a client is replayed its backlog is never sent to
  that client (`event_bus.py:238`).
- Wrong passwords never lock an account: count and lock are flushed and rolled
  back (`api/auth.py:102`).
- No call of the frontend carries an access token (`client.ts:17-23`), and a
  refreshed one is dropped (`client.ts:52-57`): with a valid session every call
  that needs a user is refused, refreshed and refused again, unless
  `AUTH_DISABLED` lets it in.
- The deletion of an attachment is answered and leaves its file
  (`services/storage.py:96`): the path has the upload directory in front twice. For
  the same reason a download answers 404 for every stored file
  (`api/attachments.py:272`). The tests of both use an absolute directory, which
  is not prefixed.

Seen while modelling, as behaviour of the models or while reading, without a run
of their own:

- Overlapping clones of one project fail with an IntegrityError nobody catches
  (`task_service.py:491`; the docstring at 483-484 speaks of the row lock). No
  number is lost or repeated.
- `MAX_CHAIN_DEPTH` limits the tasks visited, not the depth
  (`transition_service.py:91`, against line 76): a wide graph is refused as deep.
- The advisory lock does not keep the digest to one instance once a connection
  is lost (`scheduler.py:33`, against line 24).
- Joins that overlap let in more users than `max_uses` (`invite_service.py:192`);
  two administrators who deactivate or demote each other both succeed
  (`user_service.py:75`, `:293`); a project created while its team is archived
  stays (`team_service.py:159`).
- `save_oauth_config`, `delete_oauth_config` and `get_oauth_config` work row by
  row: overlapping, they leave or read the client id of one configuration with
  the secret of another (`google_oauth.py:52`, `:151`).
- `PUT /admin/settings` writes any row of `system_settings`
  (`user_service.py:258`): single rows of the OAuth configuration among them, the
  secret unencrypted, which `get_oauth_config` fails to decrypt and then answers
  that there is no configuration (`google_oauth.py:56`, `:68`), and
  `setup_completed`, which opens the wizard's settings again.
- Calls that are refused together refresh one after the other, once each, though
  the queue is there to share one refresh: those that waited are sent again without
  the mark.
- The MCP tool `update_task` accepts a `status` and drops it
  (`mcp/tools/tasks.py:87` documents it).
- The tags of a template are not copied, though the docstring says so
  (`template_service.py:144`); a clone has no `task_tags` until it is edited.
- Temporary uploads have a "24h TTL" (`api/attachments.py:170`) and nothing
  removes them; nothing attaches them to a task, either. The S3 storage cannot be
  chosen: `config.py` has no `STORAGE_BACKEND` (`services/storage.py:206`).
- Renaming a label to a name that is taken answers 500, creating one 409.
- The offset of a search is applied to each of its statements: later pages skip
  matches by similarity and comments, and may repeat what a first page showed;
  `total` is the length of the page; a tag search has no order; comments ignore
  the tag filter; an error answers an empty page with status 200.
- The cache holds more than `max_size` entries when none has expired; the
  dashboard calls itself real-time and is up to 30 seconds old.
- A wrong password at the login form goes through the 401 interceptor: the client
  tries a refresh and loads `/login` anew instead of showing the error.
- The header of `digest.py` announces delays of 1, 4 and 16 seconds, and three
  attempts have two delays, 1 and 4. Quiet hours are compared with the UTC time.

## 6. What is not modelled

The components with the status `not_modelled` in `PROJECT.json`, with the reason
there: audit log, export, RSS and health (single queries, an append), the command
line client (one HTTP call per command), schema and application frame, and the
pages of the frontend. Within the modelled components: fields that go the same
way as modelled ones (priority, dates, names, descriptions, colours), listings,
administrators where they pass every check, the text of messages and errors, audit
rows (written in the same transaction as the change), keepalives, CSRF, the
recipients `dispatch` chooses, ranks and highlights of a search. External and
modelled by how the code uses them: PostgreSQL's row locks, READ COMMITTED
statements, unique constraints, sessions and advisory locks; SQLAlchemy's identity
map and flush; the browser's `EventSource` and `axios`; the storage behind
`storage.py`; the services behind the channels; Google.

## 7. Plan

Done, in the order of importance to the system: numbering, relations, workflow,
events, digest, accounts and sessions, teams and projects, task data, the browser's
client; each first checked, then proved as far as section 4 says.

What is left:

1. An abstract workflow that `TaskStatus` implements, and an abstract invite that
   `Teams` implements as long as joins do not overlap.
2. What the liveness properties rest on, as far as it is safety: a variant for the
   rounds of the digest and for the calls of a browser tab, as there is one for
   `detect_cycle` and for the search of a slug.
3. `dispatch` with its recipients, once production calls it.
