# A verification of the Enterprise Workflow API

TLA+ models of the Enterprise Task & Workflow Management API (FastAPI,
SQLAlchemy on PostgreSQL, Redis, Celery), their model-checking runs, and proofs.
Paths are relative to the repository; `PROJECT.json` maps every definition to its
lines.

## The system

A request is served by a thread of the web process (`def` handlers) with a
database session of its own (`app/database.py`). Handlers share nothing in memory but
the connection pool and the Redis client; they meet in PostgreSQL, under READ COMMITTED, and in Redis. Celery workers run
scheduled jobs against the same database. What makes the system hard is therefore
always the same: a handler reads, decides, and writes later, in one or more commits
and Redis commands, and other handlers, jobs and crashes come in between.

| component | state | operations | what must be right |
|---|---|---|---|
| refresh-token sessions: `services/auth.py`, `workers/tasks.py` | `refresh_tokens`, `users.hashed_password`, Redis `pwreset:*` | login, refresh, logout, reset request and confirmation, weekly clean-up | an exchanged, logged-out or swept token is never usable again; only spent rows are deleted, and all of them in the end |
| access tokens: `core/security.py`, `core/redis_client.py`, `api/deps.py` | JWTs at the clients, Redis `bl:jti:*` | issue, verify, logout | a logged-out token is refused as long as it could be used |
| accounts, workspaces, members: `services/auth.py`, `routes/workspaces.py` | `users`, `workspaces`, `workspace_members`, Redis `emverify:*` | register, verify, create workspace, invite | unique e-mails and slugs; every account and workspace is administered; administrators grant any role, managers any but administrator, nobody else any; no role is replaced |
| projects: `routes/projects.py`, `services/project_rules.py` | `projects`, `audit_logs` | create, update, soft delete | transition rules; deletion final and audited |
| tasks, comments: `routes/tasks.py`, `services/task_rules.py` | `tasks`, `comments`, `audit_logs` | create, update, soft delete, comment | assignees are members; completion time follows the status; deletion final and audited |
| attachments: `routes/tasks.py`, `core/storage.py` | `attachments`, files or S3 objects | upload | a row has its file; a file without a row is left only by a crash |
| reports: `routes/reports.py` | Redis `dash:prod:*` | productivity report, audit-log listing | nothing that is out of date stays in the cache |
| background jobs: `workers/` | `notifications`, queue | reminders, e-mail, clean-up | an overdue task is notified; an e-mail has its notification |
| connection pool, threads: `database.py`, `api/deps.py` | 15 connections, request threads, one event loop | wait for a thread, a connection, the loop | every request ends and gives back what it holds |
| profile, health, configuration, schemas, migration, seed script, deployment | | | see `PROJECT.json` for why they are left out |

The hazards of each, at their lines, are the list `hazards` in `PROJECT.json`; the
properties below were chosen from it.

## Modules

| module | models | EXTENDed or INSTANCEd by |
|---|---|---|
| `TokenLifecycle` | abstract: what the refresh-token table promises | `Sessions` |
| `Sessions` | refresh tokens, password reset, clean-up | `MCSessions`, `SessionsProofs` |
| `AccessTokens` | access tokens, clock, denylist | `MCAccessTokens`, `AccessTokensProofs` |
| `Accounts` | registration, verification, workspaces, invitations | `MCAccounts`, `AccountsProofs` |
| `SoftDelete` | abstract: what soft deletion promises | `Projects`, `Tasks` |
| `Projects` | the life of a project | `MCProjects`, `ProjectsProofs` |
| `Tasks` | tasks, comments and attachments, in projects that go and workspaces that grow | `MCTasks`, `TasksProofs` |
| `Reports` | the productivity report and its cache | `Readers` |
| `Reminders` | the daily reminder of overdue tasks | `Readers` |
| `Readers` | composes both over tasks that requests and the clock change | `MCReaders`, `ReadersProofs` |
| `RequestPool` | worker threads, event loop and connections of the web process | `MCRequestPool`, `RequestPoolProofs` |

### How the code becomes actions

* **Request slots.** `req` holds what each request in flight has read and not yet
  acted upon; `Request` bounds how many there are, not how many there ever have been.
  An action is the work between two points where another transaction can be seen: a
  SELECT, a Redis command, a commit. `Abort` at any point is a dead process, a lost
  connection, or a Redis that does not answer; what was committed or sent to Redis
  stays. A request that is answered with an error before it writes changes nothing
  and is no step.
* **The session does not autoflush** (`database.py:23`), so a handler's UPDATEs are
  all sent by its commit, or by an explicit `flush` (registration, creations), and an
  UPDATE finds its row by primary key and carries only the columns that changed.
  `Projects` and `Tasks` are about what this does to overlapping requests (`WriteChanges`);
  their mutants `CommitUpdateWholeRow` and `WriteWholeRow` show that the soft-delete
  guarantees rest on it. A flush that finds fewer rows than were loaded raises
  `StaleDataError` (`Stale`, `RollBackReset` in `Sessions`).
* **Several reads as one.** Where a handler's reads concern facts that only ever
  change one way (a project is deleted, a member joins, a slug is taken) and nothing
  is written between them, they are one step: delaying or advancing the read of such
  a fact gives a behaviour the model has as well.
* **Unique keys.** An INSERT that was flushed is invisible and makes others with the
  same key wait (`Blockers` in `Accounts`), who fail when it commits.
* **Data.** Passwords are version numbers. Names, descriptions, positions, priorities
  and due dates carry no rule and are left out. Of `completed_at`, its presence is
  kept; of the four task statuses that are not DONE, two, which is enough to change from
  one to another. `users.is_active` and `users.deleted_at` are never set by the code, so
  their checks always pass. Callers in `Projects` and `Tasks` have a role that allows
  the request: roles never change once given, which is the first half of `GrantsAreBounded` in `Accounts`.
* **Time.** `AccessTokens` counts whole seconds, as the JWT does, and ticks within
  them, as Redis does; one clock serves both. In `Sessions` a row's expiry is an event.
  A refresh token's JWT expires with its row, up to the cut-off fraction of a second,
  which is not distinguished.

* **Uploads.** `add_attachment` is three steps of `Tasks`: the checks with the awaited
  file (`BeginUpload`), the stored file (`StoreFile`), the row (`CommitUpload`). A refused
  extension or size is `Abort` before anything is stored.
* **Overdue tasks.** `Readers` keeps of a task whether it is overdue as the report and the
  reminder test it (`reports.py:67-73`, `workers/tasks.py:52-57`), whether it is assigned, and its
  workspace. `Change` is what requests and the passing of time do to that; the two
  components leave it alone. `Reports` keeps one of the report's numbers, the tasks that are
  overdue. What was sent or notified about a task is forgotten when the task stops being overdue, so
  that being notified means: since it became overdue.
* **The web process.** In `RequestPool` a request is one of three kinds (without
  authentication, with `get_current_user`, or an upload) and passes the stages FastAPI
  gives it: dependencies in a worker thread, the handler in a thread or, for the upload, on
  the event loop, the response encoded in a thread, the session closed in a thread of its own
  limiter. A session takes a connection with its first statement, gives it back when it commits, and takes
  one again for the `refresh` after it. What the framework does is modelled from how `src/` uses it and is marked
  external in the map.

### Properties

`Sessions`. `RotationExclusive`: a refresh token and one issued in exchange for it are
never usable at once. Several replacements may exist, when two requests share a token;
the code does not prevent that and the module does not claim it. `ResetSweep`: what a
completed reset has selected stays spent, also when two confirmations use one key, which the code lets
them. `ImplementsLifecycle`: the table implements
`TokenLifecycle` under the identity on `state` and `parent`. `RevokedRowsPurged`:
revoked and expired leads to purged.

`AccessTokens`. `LogoutHoldsUntilExp`, and the action property `DenialNotCutShort` for
tokens whose logout was never answered. Both except keys that Redis lost: the production
composition gives Redis no volume (`docker-compose.prod.yml:26-30`), and what a restart loses is outside what they promise.

`Projects`. `TerminalLeftOnlyByStaleWrite` says exactly how far the rule "completed and
archived are terminal" holds: the request that commits had loaded another status, and what it writes is what the
project becomes. `DeletedComesToRest`: from its deletion on no request gets hold of a project, and whatever
still changes in it is the last step of a request that held it before, so each of the overlapping requests
touches it at most once more. `ImplementsSoftDelete`: the refinement of
`SoftDelete`, with `life` and `recorded` computed from status, `deleted_at` and audit log.

`Tasks`. `AssigneeIsMember`; `InconsistencyNeedsOverlap`: how status and completion time
may come apart; `DeletedComesToRest` for a project with its set of tasks, their rows, comments and attachments, an
awaited upload included (a task may be created in, a comment or file added to, a deleted project, but only by who had
passed the checks before); `ImplementsSoftDelete` for tasks. `AttachmentHasFile`: a row refers to a
stored file, and to one that no other row or request has; `OrphansAreOfAborts`: a file
without row or request comes only from a request that died after storing it, and stays so
(nothing collects such files).

`Accounts`. `EmailsUnique`; `NobodyStranded`: every account administers a workspace and every
workspace has an administrator; `GrantsAreBounded`: a membership appears only by the commit of the
request that founds its workspace (`Founds`) or of an invitation (`Grants`), whose own sender is then, at the commit,
administrator of that workspace, or manager of it and granting something less than administrator; and none is replaced. The role
that counts is the one of the request's user, checked by `BeginInvite` (`workspaces.py:76-80`) and used a step
later; that somebody else in the workspace could have granted it is not enough; `KeysSpent`: verification
keys work once and only for committed users; `NoWaitCycle`: no circle of transactions
that wait for each other's keys.

`RequestPool`. `StallIsTimed`: threads, loop and connections can all be waited for in a circle
(requests keep their connection while they wait for a thread; an upload holds the loop while
it waits for a connection; then even requests that are through cannot get back to close
their sessions), but each such state has a request in the pool's timed wait. `EveryRequestEnds`: so every
request ends, with its session closed; with `TimeOutNever` it does not.

`Readers`. `CacheConverges`: reports that were counted before a change may be stored after it, and
replace newer ones, but once the tasks rest the cache comes to agree with them for good.
`OverdueIsNotified`: a task that is assigned and stays overdue gets its notification, though rows without
assignee and e-mails that the broker refuses come in between. `MailIsBacked`: an e-mail without a notification
is left only by a run that dies between the two; that crash the code does not guard against, and the property does not
forbid it.

## Runs

| run | instance | shows |
|---|---|---|
| `Sessions_safety` | 1 user, 3 tokens, 1 reset key, 2 requests, symmetric | the safety properties and the refinement |
| `Sessions_cleanup` | 1 user, 2 tokens, 1 key, 2 requests, `FairSpec` | `RevokedRowsPurged`, without symmetry |
| `AccessTokens` | 2 tokens, 2 logouts, lifetime 2 s, 2 ticks, clock to 4 s, symmetric | both denylist properties |
| `Projects` | 2 projects, 3 requests, symmetric | the project properties and the refinement |
| `Tasks` | 1 task, 1 project, 1 comment, 2 files, 2 users, 2 requests, symmetric | the task properties and the refinement |
| `Accounts` | 3 users, 3 e-mails, 3 requests, 4 slugs, symmetric, from `Failures` (2 free ids, 2 slugs) or `Populated` (3 users, 1 free slug) | the account properties |
| `RequestPool` | 3 requests, 2 threads, 1 connection, `FairSpec` | that no request is stuck, without symmetry |
| `Readers` | 2 tasks in 2 workspaces, 2 report requests, `FairSpec` | the cache and reminder properties, without symmetry |
| `Sessions_ResetRevokesAll` | as `Sessions_safety` | violated: see findings |
| `AccessTokens_LogoutIsFinal` | as `AccessTokens` | violated |
| `Projects_TerminalIsFinal` | 1 project, 2 requests | violated |
| `Tasks_CompletionMatchesStatus` | as `Tasks` | violated |

**Bounds.** Every race found or excluded here is between two requests on one row, and the
slots are used again without limit, so a third party can act before, between and after.
`Accounts` and `Projects` have three slots: a wait circle and a chain of three stale writers
need them. Three tokens make an exchange of an exchanged token, with a third issued by a login or by
the other request; the clean-up run needs only an exchange. The clock of `AccessTokens` runs
two lifetimes, so that a token is issued, logged out at any of its ticks, expires, and a
second one outlives it. A manager is always
somebody invited, so a manager's own invitation takes three users, and from `Init` three registrations with all that can
go wrong in them are too many states. `Accounts` therefore starts from two states that `Spec` reaches: `Failures`, where
two ids are left to register with (`Init` after a registration that failed), and `Populated`, where three users are
registered and have invited one another to their first workspaces, and only the last slug is left: its workspace is founded, and its
administrator invites a manager, who invites the third, in all interleavings of three requests. The mutants of `GrantsAreBounded` are an
invitation without the check of line 77 (`BeginInviteByMember`), one without that of line 79 (`BeginInviteAnyRole`), and
one that replaces a membership (`CommitInviteUpsert`). While registrations compete, `SlugBound` leaves the first slug, its successor, and both used
up. Two files are one for each of two overlapping uploads, and the next upload after an orphan.
`RequestPool` has fewer connections than threads and fewer threads than requests, as the
deployment has (15 connections for 40 threads): the circle of a thread's holder that waits for a
connection whose holder waits for a thread, and the one through the loop, need two requests; the
third is the bystander. `Readers` has a task for each of the loop's turns, with and without
assignee, and two requests for one stale report to overtake another. There are no other bounds: password versions are bounded by the reset keys, which are used at
most once per slot. The theorems below make most of these bounds irrelevant.

**Deadlock.** `Sessions`, `RequestPool` and `Readers` are checked for deadlock; in the other modules everything has an
end (all rows deleted, the clock at its bound, the ids drawn), where TLC would report one.

**Fairness.** `Sessions`: only `WF(Cleanup)`: Celery beat starts the job every week
(`celery_app.py:27-30`), and a run that fails is followed by another. It is never
disabled again once a row is due, since revoked, expired rows change no more. Nothing is assumed
of requests: any of them may stop for ever, and its slot with it.

`RequestPool`: strong fairness of what the event loop does for a request, since asyncio and anyio
serve whoever waits in order, so that a request that is time and again possible has its turn; weak
fairness of a connection's check-out, its timeout (`pool_timeout` is not set in `database.py:16-19` and is 30 s) and the closing of
a session; strong fairness of a handler's end, because handlers loop over nothing but rows they have
loaded. Which of check-out and timeout ends a wait is left open. Nothing makes a request arrive.

`Readers`: a key that is set and not set again expires (`set_cache` with 60 s), and a request for a report
ends, be it by failing. Of the reminder only that its run commits again and again: beat starts it
each day (`celery_app.py:23-26`), and each run may die but not all of them for ever. `CacheConverges`
has as its premise that the tasks rest; it needs no more of the clock.

## Findings

Each is a property taken from a text of the repository that TLC refutes; the passing
property next to it says what does hold.

* `ResetRevokesAll` (`services/auth.py:203`): a login or refresh authorised before a
  password reset commits its row after the sweep's SELECT, and lives on. What holds:
  `ResetSweep`.
* `LogoutIsFinal` (`README.md:7`): the key is gone in the second of the token's `exp`, in
  which the token is still accepted. What holds: `LogoutHoldsUntilExp`.
* `TerminalIsFinal` (`services/project_rules.py:10`): an update that loaded an active
  project takes it out of "completed". What holds: `TerminalLeftOnlyByStaleWrite`.
* `CompletionMatchesStatus` (`models/task.py:51`): overlapping updates leave a DONE task with
  no completion time, or the reverse. What holds: `InconsistencyNeedsOverlap`.

Differences met on the way that need no run: `refresh_token.py:27` has all tokens in a chain
share a `family_id`, but every issue draws a new one (`auth.py:55`) and nothing reads it;
`project.py:38` suggests ON_HOLD to COMPLETED, which the table refuses, and the table's
"re-open" entry (`project_rules.py:18`) is never reached; `last_status_changed_at` has an
`onupdate` and so changes with any update; unrevoked rows are never cleaned up. The report and
the reminder take in the tasks of deleted projects (`reports.py:51-60`, `workers/tasks.py:49-57`), while the
report's number of projects leaves those out and every task route answers 404 for them.
`update_task` cannot take an assignee away or a due date back: `None` is an absent field. `is_overdue` (`task_rules.py:15`)
counts a cancelled task as overdue, the report and the reminder do not; nothing calls it. A change that is committed may be answered
with a 500 when the `refresh` after it finds no connection (`TimeOut` from `again` in `RequestPool`), and a
client that repeats it creates twice: `EveryRequestEnds` does not speak of that. A verification that dies between the deletion of its key and
the commit of the flag (`Abort` after `DeleteKey` in `Accounts`) leaves an account that can no longer be verified; no text promises
otherwise. The models declare their enumerations as `Enum(WorkspaceRole, ...)` and so on (`workspace_member.py:32`,
`project.py:31`, `task.py:34`, `task.py:39`) without `values_callable`, for which SQLAlchemy stores the names of the members (`ADMIN`),
while the migration creates the database's types with their values (`admin`;
`20260424_0001_initial.py:47`, `:64`, `:88-89`); the tests build their tables from the models (`conftest.py:30`) and do not meet
it. The modules are about the values a handler sees, whichever way they are stored.

## Proofs

For every value of the constants, from the modules' assumptions alone (`None` is no user,
token, key, project, status, file or number; the clock's constants are numbers; threads and connections are at
least one; requests in `RequestPool` and tasks in `Readers` are finitely many); the liveness theorems have the
hypotheses about `ENABLED` named below besides.

| module | theorems | inductive invariant |
|---|---|---|
| `SessionsProofs` | `TypeCorrect`, `RotationExclusiveHolds`, `ResetSweepHolds`, `LifecycleImplemented`, `RevokedRowsPurgedHolds` | both invariants are inductive only with `IssueHoldsSpent`: a request about to issue in exchange for a token finds it spent. The lemma `SpentIsForever` (no step makes a spent row usable) carries it, whatever other requests do, and so it does that a row the clean-up is to delete stays one (`DueStays`). |
| `AccessTokensProofs` | `TypeCorrect`, `LogoutHolds`, `DenialHolds` | a ttl once computed reaches the expiry from any later instant (`TtlReaches`), so does any key (`KeyReaches`); a logged-out token has a key unless it was lost (`LoggedOutHasKey`). |
| `ProjectsProofs` | `TypeCorrect`, `TerminalHolds`, `RestHolds`, `SoftDeleteImplemented` | what a slot means to write is allowed from what it read (`WritesValid`), and deletions are those audited (`DeletionsAudited`). |
| `TasksProofs` | `TypeCorrect`, `AssigneeHolds`, `AttachmentHolds`, `InconsistencyHolds`, `RestHolds`, `OrphansHold`, `SoftDeleteImplemented` | assignees in slots are members (`SlotAssignee`), updates mean to leave a consistent row and deletions only to delete (`Intentions`), `DeletionsAudited`; `AttachmentHasFile` is inductive as it stands because it speaks of the requests between file and row too. |
| `AccountsProofs` | `TypeCorrect`, `EmailsHold`, `StrandedHolds`, `KeysHold`, `NoWaitHolds`, `GrantsHold` | what a flushed INSERT holds back from others: of two requests with one e-mail or slug, one has not inserted it (`PairOK`), and what one request means to commit is still free (`SlotOK`). For `GrantsHold` also: whoever is inviting still has the role it was checked for (`SlotOK`), and a workspace has no members before it is committed (`MembersOfTaken`). |
| `RequestPoolProofs` | `TypeCorrect`, `StallHolds`, `EveryRequestEndsHolds` | `TypeOK` says at which stages a request holds a thread, a connection or the loop; that is what the second theorem needs: a full pool or an exhausted limiter has a holder, and each holder either moves or is in the pool's wait. The third: below. |
| `ReadersProofs` | `TypeCorrect`, `MailHolds`, `NotifiedHolds`, `SlotConverges`, `KeyConverges` | none: each component's step leaves the other's state alone. |

The action properties and refinements follow from the invariant step by step, one case for each
action; each is a theorem of the specification that the runs check.

**Liveness.** Five of these theorems are of `FairSpec`; each is an argument over steps from named lemmas, put
together by the temporal prover.

* `NotifiedHolds` (`OverdueIsNotified`): the run under way may have passed a task before it became overdue or
  assigned, so one commit is not enough. After a commit `TakenUp` holds of every task (no run is under way), and as long
  as the task stays overdue no step takes that back (`TakenUpStays`): the next commit writes its notification
  (`CommitNotifies`).
* `RevokedRowsPurgedHolds` (`RevokedRowsPurged`): `DueStays` and `CleanupPurges`.
* `EveryRequestEndsHolds` (`EveryRequestEnds`), for any numbers of requests, threads and connections. The loop is free time
  and again (`LoopIsFreed`): its holder is in its handler, whose end frees it, or waits for the pool, whose timeout
  does. Hence loop and a thread are free together time and again (`ThreadsAreFreed`): some holder of a thread gets to an outcome
  in the same ways, and the loop, taking it up, leaves a thread free. Hence whoever waits for either is served
  (`LoopMoves`), as whoever waits for the pool is (`PoolMoves`), and a request in its handler, however often
  it commits or reads a file, leaves it. `Successors` is the graph of the phases along which this goes.
* `SlotConverges` and `KeyConverges`, the two halves of `CacheConverges`: once the tasks rest, each request is rid for ever of
  a stale report, and when all of them are, each key for ever agrees with the tasks.

The prover cannot compute `ENABLED`. Where fairness is `WF` or `SF`, that the action is possible whenever its guard holds is
therefore a hypothesis of the theorem, written out and named: `CleanupCanRun`, `StepsCanRun`, `CanStore`,
`CanExpire`. Each can be read off the action, whose guard it repeats and none of whose assignments can fail; TLC,
which computes `ENABLED`, finds no reachable state against it when it is given as an invariant of the run's instance. `NotifiedHolds` needs none,
since the fairness it rests on says that the job's commits happen, not that they are possible.

Only model-checked: `CacheConverges` as a whole. From its halves it needs that if each of finitely many requests (and then keys) is
fresh from some time on, all of them are from some time on, an induction over their number with a temporal formula,
which the prover cannot do. Every other property that the passing runs check is proved. No induction over data is
needed.

## Not modelled, and why

* The user profile, health checks, configuration, schemas and exceptions have no rule that steps of
  several requests could break; the migration runs once and alone; the seed script and the
  deployment are not part of the running program. What the migration's constraints and the
  production composition imply is in `Accounts` and `AccessTokens`.
* The report's other numbers are counted by SELECTs of their own, which may see different
  commits: they can disagree among each other in one report, and nothing says they should not.
* The SMTP side of `send_email_task`, and Celery's queue beyond that a message is on it: no
  code of the repository hears of a message again.
* Reads without consequence: listings, `GET /tasks/{id}`, the audit log.
* Timestamps other than the presence of `completed_at`, expiry and due dates.
* `downgrade` of the migration, and manual changes to the database.
