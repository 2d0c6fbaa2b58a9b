# Verification of the reference registry in TLA+

TLA+ modules, TLC configurations and TLAPS proofs about the context-ref-registry:
its backend (`src/backend/app`) and its web frontend (`src/frontend/src`). Paths
below are relative to `src/backend/app` unless they begin with another directory of
the repository; the frontend's files are named without their directories.

## 1. The system

The registry is a FastAPI application over PostgreSQL 16, run by `uvicorn
--workers 2`. A request gets one `AsyncSession` from `get_session`
(`db/session.py`), works in one transaction at READ COMMITTED, and commits after
the response has gone out (FastAPI runs the code after `yield` of a dependency at
that point). Coroutines of one worker and both workers interleave at every
`await`; what they share is the database. So the state that matters is the
tables, the locks PostgreSQL keeps for each transaction, and the ORM objects each
session has loaded, and a step is one SQL statement.

The frontend is a Next.js application. A page is rendered by server components that
read the backend with the access token in the browser's cookie; its client components
keep state of their own beside those props and call server actions, each of which is
one request to the backend. Next.js sends the actions of a tab one at a time. What a
component does after an `await` uses the values of the render that made the call,
when the page, the dialog, the cookie and the rows may have changed. So for the
frontend a step is a click, the sending of an action, a step of its request in the
backend, the code after the answer, or the arrival of a page.

| Component | State | Operations | Interacts with |
|---|---|---|---|
| Short identifiers | `entity.project_id, type, short_seq`, advisory locks | `next_short_seq`, `create`, `_upsert_entity` | every writer of entities |
| Entity writes and history | `entity`, `entity_history`, the session's objects | `EntityService.create/update`, `HistoryRepository` | ingest writes the same tables |
| Batch creation | as above, the list of results | `batch_create` and its route | `create`, `get_session` |
| Batch ingest | `entity`, `source_ref`, `entity_alias`, `entity_context`, `entity_tag`, `entity_metadata`, `entity_relation` | `batch_ingest` and its `_upsert_*` | all of the above |
| Tags, aliases, contexts, relations | a table each | add, replace, deactivate, list | entity |
| References | none | `parse_ref`, `resolve_ref`, `validate_references` | short ids, tags, aliases |
| Context bundle, search, export, mockups | none | breadth-first search, token budget, queries | relations, contexts |
| Accounts | `user_account`, `api_key` | login, password change and reset, keys, `bootstrap_admin` | every authenticated route |
| Projects and membership | `project`, `project_member` | create, add/remove/change members, `AccessPolicy` | every write |
| Administration | `entity_audit_log` and the tables above | service call, then the audit row | accounts, projects |
| MCP server | none | read-only tools | repositories |
| Account and administration pages | the cookie; per tab the page, its props, its components' state, the server actions called | login, password, sidebar, API key panels, tables of users, projects and members, their dialogs | accounts, projects, administration, through server actions and page loads |
| Entity pages | the address; per tab as above, with chips, dismissed cards and filters | review, list with filters and pager, new entity, details, edit form, bundle form | entities, tags, aliases, contexts, bundles |
| Frontend gateway, pull-request script, backup | none or files | proxy, one-shot scripts | the HTTP API, the database |

What makes each correct, and what is hard about it:

- Short identifiers: numbers of a project and type are unique, without gaps and
  permanent, although any number of sessions choose `MAX + 1` at once, fail after
  having chosen, or change what the MAX ranges over. (They are not permanent, see
  section 4; what holds is density where no short id has been changed.)
- History: revisions are 1, 2, 3, ... and account for the entity's states, although
  the number is read without a lock and the snapshot comes from an object that
  may be older than the row.
- Batches: what is reported agrees with what is stored, although one transaction
  serves all items and one of them may fail; requests end although locks are taken
  in whatever order the client's items come.
- Ingest: an upsert done twice, or twice at once, leaves one row.
- Accounts: no key outlives the password change that deletes it; there is an
  administrator.
- Membership and policy: a write that is authorised is still allowed when made.
- Administration: the audit log tells of every change made through the administration's
  routes, and only of what was committed, although the change and its audit row are two
  transactions and others write between the reads and the writes of a request. (The
  creation of a user or project through `POST /auth/users` or `POST /projects` is not
  audited.)
- Account and administration pages: what a table shows as done is done, a button
  does what its label said although the row on the screen is old, a raw key that is
  shown once is not pushed away by another one, a dialog is closed by an answer only when
  a change is stored, redirects end.
- Entity pages: a card is gone only when the decision was accepted, the details end
  up equal to what is stored, a page of the list is not empty for nothing, the dialog
  for a new entity closes only for a complete submission, buttons come back.
- References, bundles: each algorithm agrees with its definition, and the resolvers
  agree with each other.

`PROJECT.json` lists the components with their status, the hazards with their
lines and the properties that cover them, and for every definition that
translates code the lines it translates.

## 2. The modules

### ShortIds, ShortIdBook: numbering

`ShortIds` is `EntityRepository.next_short_seq` with its two callers, `create` and
`IngestService._upsert_entity`, for any number of concurrent requests.

| Variable | Code |
|---|---|
| `row[e]` | the committed row of `e`: `project_id`, `type`, `short_seq` (NULL is `NoProject`, 0) |
| `pend[t][e]` | the version session `t` has flushed; it holds `e`'s row lock and, by `uq_entity_short_seq`, its key |
| `locks[k]` | the transaction that holds advisory lock `k = hashtext("project:type")` |
| `pc`, `job`, `next`, `done` | the statement that comes next, the item, the number chosen for it, the items so far |
| `rewritten` | history: the projects and types (a *series*) of short ids that a commit has changed, as they were and as they are now |

`Create` and `Update` take up an item; `AcquireLock`, `Autoflush`, `ReadMax` and
`Write` are its statements in the order they are sent; `Commit`,
`ConstraintError` (a unique violation), `Rollback` (any other failure, a dying
worker included) and `DeadlockVictim` end the transaction. Some points that are
easy to get wrong:

- The lock and the MAX are two statements, so under READ COMMITTED the MAX sees
  whatever was committed before the lock was granted (`View(t)` at `ReadMax`).
- An update that needs a number assigns `project_id` before it calls
  `next_short_seq`, so the SELECT MAX autoflushes the row (`Autoflush`), after the
  advisory lock is taken and before the MAX is read.
- An UPDATE sets only the columns that differ from what the session loaded, on top
  of the latest row version, and is not sent at all when none does (`NewRow`,
  `Emits`).
- `NeedsNumber` is the code's test: the item names a project and the row has no
  number. So an item that names another project moves the entity and keeps the
  number. The constant `Rescope` says whether requests do that; giving a project to an
  entity that has none is always possible.
- The test looks at the object loaded before the lock was waited for. Two ingests that
  both loaded the entity without a project both number it, and the second changes the
  number that the first has committed.
- The database is external: who waits for whom (`Rivals`, `WaitsFor`), what the
  constraint refuses (`Rejected`) and whom the deadlock detector aborts are
  modelled from how PostgreSQL serves these statements.

`ShortIdBook` is the promise without locks or transactions: a book in which each
project and type has 1, 2, 3, ..., entered in batches. As entries do change, it says
what remains: a changed entry spoils the series it leaves and the one it comes to
(`spoiled`), every other series is as promised, and no entity drops out of the book.
`ShortIds!Book` instantiates it with `issued[e]` the short id derived from `row[e]`
(`Entity.short_id`) and `spoiled` as `rewritten`; `ImplementsBook` is its specification.

Bounds and omissions: a request handles an entity once (`done`); an ingest batch
that names an id twice is covered by `Revisions` only. The type of an existing
entity cannot change (`TYPE_CHANGE_FORBIDDEN` is a `Rollback`).

### Revisions: what an entity's history records

`Revisions` is `EntityService.create` (`Post`), `EntityService.update` (`Patch`) and
one item of `batch_ingest` (`Ingest`), each with the statements it sends: the flush
of the entity, a refresh, `next_revision_no`, the INSERT of the revision. `loaded`
is the session's identity map: `Patch` compares it before and after, ingest takes
its snapshot from it; a later item of the same request finds the same object again. An entity
state is a function from columns to values, and `EffectiveState` is the code's
`_effective_state`. `asked` is a history variable, the columns a request has set.
`replace_tags` is only there for the refresh that follows it. The change types
`deprecate` and `status_change` are `"update"`. `MaxRevisions` bounds what requests
take up, so the model stops and its configurations do not check deadlock.

### BatchCreate: the answer and the database

`BatchCreate` is the loop of `EntityService.batch_create` with the route around it.
`ItemOk` flushes an item, `Duplicate`, `OtherError` and `DeadlockVictim` go through
the `except` branch (`ItemFails`), which rolls back the session, and so everything
flushed before, and goes on; `Answer` sends the results, `Commit` follows it, and `Lose` is a
worker or connection that dies at any point. The rows are reduced to their ids
(numbers and revisions are the business of the other modules). Each request is sent
once, so the model stops when all are over.

### AccountService: accounts, projects, members, keys and the audit log

`AccountService` is the backend behind the account and administration pages:
`AuthService`, `ProjectService` and the routes of `api/auth.py` and `api/admin_*.py`.
One request per tab, in the statements that matter when several interleave:

| Variable or action | Code |
|---|---|
| `row[i]` | the committed row of user, project, membership or key `i`; `NoRow` before, `Deleted` after |
| `req[t]` | the request of tab `t`: the operation, its caller, what it asks for, the row it has loaded (`seen`), the columns its session holds after the commit (`after`) |
| `audit`, `had` | `entity_audit_log` (target and after-snapshot); history: every row there has been |
| `posting`, `unlogged` | the rows that a `POST /auth/users` or `POST /projects` from outside the pages is creating; history: the rows these have created, for which there is no audit row |
| `Load`, `Refuse` | `get_current_user` or `get_current_admin`, the lookups and checks, the error answers |
| `Insert`, `Update` | the service's INSERT or UPDATE with its commit; `Written` sets only the columns that differ from what was loaded, on the row as it is now |
| `Sweep`, `CommitPassword` | `change_password`, `reset_password`: UPDATE and DELETE of the keys, then the commit. The keys are those the DELETE saw |
| `Audit` | the audit row in the route's second transaction |
| `PostCheck`, `PostInsert` | the two creating routes without audit: check, then INSERT and commit, or a unique violation |
| `Lose` | a worker or connection that dies: what is not committed is gone, the caller gets an error |

A membership row is not refreshed after the commit (`Snapshot`), users and projects
are. Passwords are not values here: a password is right or wrong, and what counts is
`must_change_password` and the deletion of the keys.

### Tabs, AccountPages, AdminPages, Console

`Tabs` is a browser tab under Next.js, `AccountPages` and `AdminPages` are the pages and
`Console` composes them with `AccountService`.

| Variable | Code |
|---|---|
| `cookie[b]` | the `access_token` cookie, shared by the tabs of browser `b` |
| `page[t]`, `going[t]` | the page on the screen and the one being loaded (`router.push`, `router.refresh`, links, redirects) |
| `ui[t]` | props (`rows`, `admin`) and component state: the open dialog, the error shown, the raw key shown |
| `calls[t]` | server actions called and not settled, with the closure they run in: the page is still there (`here`), the dialog is (`modal`) |
| `gaveUp[t]` | history: a dialog was cancelled while its call was out |
| `tour`, `clicks` | the situation the run starts from, and the bound on server actions |

| Action | Code |
|---|---|
| `SubmitX`, `ToggleX`, ... | the handler up to its first `await`, with the condition under which the button is enabled |
| `Send` | Next.js sends the first action of the queue, with the cookie of that moment |
| `XDone` | the code after the `await`: state, `router.push`/`refresh`, the cookie; or `catch`; or, where there is no `catch`, the error page (`Broken`) |
| `Arrive` | the layout's and the page's redirects, then the props: a new page, or a refresh that keeps the components' state |
| `Cancel`, `Follow` | a dialog's Cancel; a link or a reload, which drops the actions not yet sent |

Some points that decide the properties: the key panels take their rows from the first
render only (`useState(initialKeys)`), so `Refreshed` leaves them alone; `onClose` of a
cancelled dialog still runs and closes the dialog of its kind that is open by then
(`CloseDialog`); a role or a switch is computed from the row on the screen.

### EntityRoutes, EntityTabs, EntityPages

The same for the entity pages. `EntityRoutes` is what they need of the backend:
`create`, `update`, tags, aliases, contexts and bundles, with the policy checks, the
unique constraint on tags, the wait for an uncommitted statement about the same row
(`Blocked`), and the commit *after* the answer (`unsaved`, `Commit`, `Die`): a page that
refreshes at once may read the state before its own change. `Revisions` and `ShortIds`
look into these transactions; here only their effect counts.

`EntityTabs` differs from `Tabs` in that a page is read in several requests
(`FetchRows`, `FetchParts`), that the address carries the filters and the offset
(`loc[t]`), and that the code after an `await` may call further actions (the tags of a
new entity). `stale[t]` is a history variable: the entity was changed from elsewhere, or
by a commit later than the refresh that follows the answer, or something was lost.
`taken` is what the backend has accepted. TagBar's chips are a list that an answer
appends to or filters; only how often each tag is in it counts (`ui[t].chips[x]`).

A navigation (`Follow`, `Filter`, `SetPage`, and the `router.push` of `EditDone`) drops the
calls that are not sent yet. The promise of a dropped call never settles, so its component
waits as long as it is on the screen (`ui[t].hung`, `Hanging`), and if it belongs to a
submission of a new entity, the `Promise.all` of that submission never resolves and what
its first call brings cannot close the dialog any more (`First`, `Sent`). In `EditDone` the
call after the answered one may have been sent by then or not, hence its two outcomes
(`k`).

`EntityPages` has the components: `ReviewList`
(`Decide`, `Decided`), `EntityList` (`Filter`, `SetPage`), `NewEntityModal` (`SubmitNew`,
`NewDone`, `CancelNew`), `EntityDetail` (`Approve`, `Deprecate`, `EnterTag`, `CrossTag`,
`AddPart`, `Deactivate`), `EntityEditForm` and `BundlePage`.

## 3. The runs

| Run | Configuration | Shows |
|---|---|---|
| `short_ids` | `ShortIds.cfg` | `TypeOK`, `DenseShortIds`, `NeverCollides`, `UniqueShortIds`, `NumberedIffScoped`, `ImplementsBook` |
| `short_ids_live` | `ShortIdsLive.cfg` | `RequestsEnd` |
| `short_ids_moved` | `ShortIdsMoved.cfg` | `ShortIdsPermanent` is violated by a move |
| `short_ids_twice` | `ShortIdsTwice.cfg` | `ShortIdsPermanent` is violated without any move |
| `revisions` | `Revisions.cfg` | `TypeOK`, `ContiguousRevisions`, `CreatedOnce`, `CommitsRecorded`, `OnlyAskedColumns` |
| `revisions_before` | `RevisionsBefore.cfg` | `BeforeImages` is violated |
| `revisions_stale` | `RevisionsStale.cfg` | `LatestIsState` is violated |
| `batch_create` | `BatchCreate.cfg` | `TypeOK`, `KeepsItemsAfterLastFailure`, `BatchesEnd` |
| `batch_create_ok` | `BatchCreateOk.cfg` | `OkItemsExist` is violated |
| `console` | `Console.cfg` | `TypeOK`, `ShownRevokedIsDead`, `AuditTellsCommitted`, `AuditMissesNothing`, `RoleChangeNeverRevives`, `TogglesFollowTheLabel`, `RevealKept`, `DialogClosesOnSuccess`, `NavigationSettles` |
| `console_keys` | `ConsoleKeys.cfg` | `KeysDieWithPassword` is violated |
| `entity_pages` | `EntityPages.cfg` | `TypeOK`, `DismissedWasDecided`, `DetailAgrees`, `NoEmptyPage`, `ClosedMeansTagged`, `PendingEnds` |

Bounds. Two sessions: every conflict here (a lock, a row, a key, a revision number)
is between two holders, and the cycle of a deadlock needs two. Two entities make a
number be chosen after and beside another one, and a move needs one to be moved and one
whose number it meets; two projects give two advisory locks, which a deadlock across
locks needs, and a series that stays unchanged beside one that does not. `ShortIdsTwice`
sets `Rescope` to false, so that only first scopings are left. The liveness run has one
project and so one advisory lock: with two entities, a cycle still goes through the lock and a
row (one session holds the row the other's autoflush needs and waits for the lock).
Hash keys are distinct in these runs; a collision only merges locks, and the proofs
are for any hash function. Two columns, one that ingest sets and one that only
PATCH sets, and two values suffice to tell a stale column from a fresh one; four
revisions allow a create and three racing writers. Three items of two ids allow a
success before, between and after failures, and a duplicate inside a batch.
Symmetry is used with safety properties only.

The two runs of the frontend start from every situation of a list (`Tours` in
`MCConsole` and `MCEntityPages`): who uses which tab, the pages a tab visits
(`tour.pages`), the tables, how many server actions are called in all (`tour.clicks`)
and how many requests may be lost (`tour.faults`). There are two tabs, of one person or
of two, because every hazard here is between two actors: two tabs of a browser that
share a cookie, an owner and an administrator, two administrators at the same table.

- `console`: two server actions from a page, three where one must come before the
  others (logging in, a key that is revoked while another is created), at most one
  lost request; in two situations one action from each page beside a script that creates
  a user or a project (`tour.posts`). `tour.searched` keeps the tables to the rows a search finds. Cookies
  belong to three browsers; the tabs are interchangeable, and so are the two browsers
  of administrators (symmetry).
- `entity_pages`: at most two server actions (a submission of a new entity adds one
  per tag), one loss. A page of the list has one row instead of 20, so that two
  entities make two pages; of the four selections of the list the status is touched,
  with two of its values; the review page's limit of 50 is not reached. A person who
  has followed a link waits for the page. There is one text (what a name says plays no
  part on these pages, only that an update carries one). Nobody's role or membership changes (that is
  `console`).

What the properties of the pages exempt, because the code does otherwise and nothing in
the repository promises more:

- `RevealKept`: a raw key is not replaced by another one, unless a dialog was cancelled over
  its call. An error page or a redirect may take the key away.
- `DialogClosesOnSuccess`: closing by an answer. A refresh closes the dialog of a row that
  is gone, a redirect any dialog.
- `AuditMissesNothing`: lost requests, and the state in which an unaudited `POST` created a row.
- `ClosedMeansTagged`: it is about the submission that was answered. After Cancel and a
  second opening the modal that this answer closes may hold an entity that was not
  submitted.
- `DetailAgrees`: changes from elsewhere, and the tab's own commit if it comes later than
  the refresh after the answer (`stale`).
- `NoEmptyPage`: entities that stop matching, by an update or a removed tag.
- `PendingEnds`: the answer to an edit form that was left in the meantime pushes the
  details, and if they are on the screen already, drops their calls that are not sent yet;
  those buttons stay disabled (`ui[t].late`). Every other refusal, loss or drop is covered.

Fairness. `ShortIds!FairSpec`: strong fairness of each session's next statement.
The worker runs a request to its end, and PostgreSQL's lock manager queues waiters
in order, so a waiting statement that is let through again and again is not passed
over for ever. The deadlock detector runs while a cycle lasts (weak fairness).
Nothing is assumed of clients, and nothing makes a request fail.
`BatchCreate!Fairness` asks only weak fairness, each request being sent once.
`EntityPages!Fairness` is weak fairness of each tab's next sending and of the code
after an answer (Next.js's queue and the browser's event loop), of each tab's request
(uvicorn runs it to its end; the only wait is for a commit) and of the commits after
the answers. Nobody has to click, no page has to arrive, nothing has to be lost;
`PendingEnds` holds without them. `Console` states no fairness, as only safety is
asked of it.

## 4. What the violations show

- **`ShortIdsPermanent`.** `docs/02-domain-model.md:237` calls the number permanent
  and immutable once given. It changes in two ways. An ingest of an existing entity that
  names another project changes its short id, without a lock
  (`service/ingest_service.py:160-166`, run `short_ids_moved`). And two ingests that both
  loaded an entity without a project number it one after the other: the second waits
  for the advisory lock, its MAX counts the number the first has just committed for the
  same entity, and 1 becomes 2 (`service/ingest_service.py:163`, run `short_ids_twice`,
  with `Rescope` false). `short_ids` shows what is left: uniqueness (by the constraint
  alone, the flush may fail), `NumberedIffScoped`, and density and freedom from collisions
  in every series in which no short id has been changed.
- **`BeforeImages`.** `_effective_state` says that an update's snapshot is the
  before-image, and `backend/tests/test_history_api.py:54` tests that for PATCH. An
  ingest update stores the after-image and no changed fields.
- **`LatestIsState`.** A PATCH that ends up changing nothing takes no row lock, so it
  can insert its revision, with the state it loaded, after another request has
  committed a change and a revision: the newest revision then stands for an older
  state. `CommitsRecorded` is what does hold: a commit that changes an entity brings
  a newest revision with the committed value of every column it changed.
- **`OkItemsExist`.** A failed item of a batch undoes the items before it, which stay
  `ok` in the answer. `KeepsItemsAfterLastFailure` says exactly what is stored.

- **`KeysDieWithPassword`.** `README.md:180` and the docstring at
  `service/auth_service.py:130` say that a change of the password deletes all API keys.
  A key whose creation was authorised before and commits after the DELETE has taken its
  snapshot stays (`service/auth_service.py:124-139`): creating a key takes no lock that
  conflicts with the change.

## 5. What is proved

### Numbering

All for every set of sessions, every finite set of entities, every set of projects
and types, and every hash function, from `ConstantsAssumption`.

Entities may be scoped, twice too, and moved (`ShortIdsProofs`):

- `TypeCorrect`: `Spec => []TypeOK`.
- `ScopeAndNumber`: `Spec => []NumberedIffScoped`. Not inductive alone, because a
  commit publishes what was flushed and what was flushed depends on the item.
  The invariant `GInv` says of every row, committed or pending, that a number
  implies a project, and of every item on its way what its version will look like.
- `ShortIdsUnique`: `Spec => []UniqueShortIds`. With moves the numbers are not dense, so
  uniqueness rests on the constraint alone and not on the lock. `UInv` says in which form
  it has to: the keys are apart in the committed table, in the view of every session, and
  between the pending rows of any two sessions. A flush checks its own view, and waits
  for whoever else holds the key, so it keeps all three; a commit then publishes rows
  that have been compared with everything it meets, and what it publishes was already
  apart from the pending rows of those still running.

About the series in which no short id has been changed (second half; no hypothesis
about what requests do):

- `ShortIdsDense`: `Spec => []DenseShortIds`.
- `ShortIdsNeverCollide`: `Spec => []NeverCollides`.
- `ShortIdsImplementBook`: `Spec => ImplementsBook`.

The inductive invariant is `IInv == LInv /\ ViewDense /\ NextFits /\ DenseShortIds`.
Density of the committed table does not survive a commit by itself: it must already
hold of the view of the transaction that commits (`ViewDense`), and this again needs
that the number it writes is the next one of its view (`NextFits`), and that
no other transaction commits numbers of the same project and type in between.
The last is what the lock gives, and `LInv` states it: whoever has a pending number for a
row that has none, or is past the lock for one, holds the lock of that key
(`PendLocked`, `StepLocked`); pending rows keep the type and belong to items taken up
(`PendTyped`, `PendDone`); and an item has the shape its statement needs, an update that
numbers included, whose project is flushed before its number (`JobShape`). `ViewDense` and
`NextFits` speak of the series that no commit has changed and that the session itself is
not about to change (`Kept`): a session that is about to change a short id knows it, since
it sees the committed row, so a commit either keeps a series dense or puts it into
`rewritten`. That is `ShortIdBook!Enter`; every other step stutters.
Two keys with one hash share a lock, which the argument allows. `MaxLemmas` has the
facts about `Max` of `FiniteSetsExt` the proofs cite: it exists for a finite
non-empty set of naturals, and what it is for an interval.

### Revision history

`RevisionsProofs`, for any sessions, entities, columns and values, with any bound
on the revisions.

- `RevisionsTypeCorrect`, `RevisionsContiguous`, `RevisionsStartWithCreation`: `TypeOK`,
  `ContiguousRevisions`, `CreatedOnce` always hold.
- `RevisionsRecordCommits`, `RevisionsLoseNoUpdate`: the action properties
  `CommitsRecorded` and `OnlyAskedColumns`.

`next_revision_no` takes no lock, so a number in hand may be taken by the time it is
inserted. The invariant `RInv` shows why this does no harm. Of an entity at most one
session has uncommitted revisions (`OneRecorder`, from the unique constraint: the
next number of two sessions that see the same history is the same) and at most one an
uncommitted row (`OneWriter`, the row lock). What a session can read of an entity's
history is numbered without a gap, its own revisions last (`NumberedLast`), and the
number in hand follows numbers that it has read (`NumberInHand`): an insert that is
let through can only extend the history by one. For the action properties, `RInv`
follows the content: the object in the session agrees with the row it has
written, in every column that differs from the committed one (`ObjectAgrees`); it has
written columns it was asked to set only (`WritesAsked`); and after the insert the newest
of its revisions stands for the row it will commit (`NewestTells`), except for
the columns of an ingest's snapshot that nobody set.

### Batch creation

`BatchCreateProofs`, for any requests, ids and size of a batch.

- `BatchTypeCorrect`: `Spec => []TypeOK`.
- `BatchKeepsItems`: `Spec => []KeepsItemsAfterLastFailure`. The property speaks of requests
  that are over; `BInv` says it at every step: the uncommitted rows of a request are the
  items it has reported ok since its last failure (`PendIsKept`), no one else has or is
  about to have one of their ids (`OneHolder`), and what it has committed is what it had
  kept at its end (`OwnedIsKept`).

### Account and administration pages

For any tabs, browsers, accounts, projects, memberships, keys and situations, any
number of server actions and of losses, from `IdsAssumption` (the tables have ids of
their own) and `ToursAssumption` (the tables a situation starts from are tables, the
values for "no row" and "deleted" are not rows).

- `ConsoleProofs`, theorem `ConsoleTypes`: `Spec => []TypeOK`. `TInv` adds what a call and a request look like
  by their operation - which table their target is of, which columns they ask for -
  and that a request past its checks has found its row, or none, as its statement needs.
- `ConsoleProofs`, over `TInv`:
  - `AuditIsTrue`: `Spec => []AuditTellsCommitted`. Between its two commits a route
    must hold a snapshot that was committed (`Holds`).
  - `AuditIsComplete`: `Spec => []AuditMissesNothing`, the converse, except for rows as
    `POST /auth/users` and `POST /projects` create them, which write no audit row, and for
    requests that are lost. A state enters the table with a request that holds its
    snapshot, and leaves the request only with the audit row; a change of the password
    changes nothing the log tells of. `MInv` also counts the losses.
  - `RemovedStaysRemoved` and `SwitchesFollowLabels`: the action properties
    `RoleChangeNeverRevives` and `TogglesFollowTheLabel`. Both rest on `Written`: only a
    column that was asked for and differs from what was loaded is written, so an UPDATE
    that waited overwrites nothing else, and a switch moves a row only from the side its
    label showed.
  - `RedirectsSettle`: `NavigationSettles`, for any account and cookie.
- `ConsoleScreens`: `KeyNotReplaced` (`RevealKept`) and `ClosedMeansCommitted`
  (`DialogClosesOnSuccess`). The invariant `OrderlyTabs`: as long as no dialog was
  cancelled over a call, a form on the screen that waits is in the open dialog, there
  is one creation of a key at most, and none while a key is shown. `Told`: a positive
  answer belongs to a committed change.
- `ConsoleScreens` also has `RevokedForGood`, `Spec => []ShownRevokedIsDead`. An id of a key is
  given to one creation only (`FreshIds`), so a dead key stays dead; a positive answer
  to a revocation means that the key was found revoked or made so (`Kept`), and a panel
  marks a row only on such an answer or from the rows it was opened with (`Marked`).

`AuditIsComplete` and `RevokedForGood` have the hypothesis `Apart`: the value that stands
for "no request" is no record with a field `at`. It is a hypothesis and no
assumption of the module because TLC cannot evaluate it for a model value.

### Entity pages

`EntityPagesProofs`, for any tabs, people, entities, tags, aliases, contexts, page size
and tours, any number of server actions and of losses, from `RoutesAssumption` (the
entities are listed once each, there are finitely many tags, the values for "no entity" and "no request" are
no entities, rows or requests) and `ToursAssumption` (a page has a row at least; a tour
starts from tables that are tables and addresses of the pages, with offset 0).

- `PagesTypeCorrect`: `Spec => []TypeOK`. `TypeOK` says more than types: a tab has a request
  only as its first call.
- `CardsWereDecided`: `Spec => []DismissedWasDecided`.
- `ClosedTagged`: `Spec => ClosedMeansTagged`, the entity and all tags.
- `ListPagesNotEmpty`: `Spec => []NoEmptyPage`.

All rest on `PInv`. The queue of a tab and its request are tied together by `HeadSent`: the
request is that of the first call, and a positive answer means that the backend has
accepted it. What the queue holds is described by three predicates: a card asks for one of
the two decisions (`CardsDecide`), a call whose component is still on the screen belongs to
the page on the screen (`OnPage`), and of a submission that still waits for its tags every
tag is accepted or in the queue (`TagsComing`), after the entity itself has been accepted
(`EntityFirst`). The last two are what makes `ClosedTagged` true: the dialog closes with the
last call of a submission, and then no tag is left in the queue (`Complete`). They are also
what a navigation must not break when it drops calls (`First`).

`ListPagesNotEmpty` needs more, as an offset is chosen from a screen and used when the
tables may have changed. `FInv`: an entity that a call is to create does not
exist and nobody else creates it, so a commit of a creation only adds a row. `NInv` adds
`PagesFit`, which holds until an update or a removal of a tag is accepted: the offset
of an address, on the screen or on its way, is 0 or less than the number of entities that match its
filters, and a total that was fetched is at most that number. Creations and added tags
only enlarge the result of a list (`Matching`); a filter starts from offset 0;
the pager stays within the total on the screen. A page whose offset is below the count
shows a row because the ranks of the matching entities are 1, 2, 3, ... without a gap
(the lemmas about `Rank`).

`EntityDetailProofs` continues with what the details show:

- `DetailsAgree`: `Spec => []DetailAgrees`.

`DetailAgrees` speaks of a tab that has nothing left to do. `DInv` says what is true until
then of a tab that nothing has happened to behind its back (`~stale`), through all
phases of a change: called, sent, answered, committed, read again, shown. Its parts,
`Agrees(t)`:

- `FetchAgrees`, `ScreenAgrees`: what has been fetched, and what is on the screen,
  is what is stored, unless a positive answer is about to be used (`Coming`): the refresh
  that follows starts the reading again. This is why the order of answer and commit does
  not matter as long as the commit comes before that refresh reads, and why `stale` has
  to say when it does not.
- `ChipsAgree`: the chips are the stored tags, or an answer will change the one that
  differs (`ChipToChange`), or the error page replaces them (`Breaking`), or a commit is to
  come that nobody here awaits and that makes the tab stale (`InFlight`).
- `RefusedIdle`: if what is about to be used is a refusal, a transaction that the same tab
  has open for the same request changes nothing visible (`Changeless`). This happens when
  two tabs remove the same tag: the transaction that waited for the other removes
  nothing, and its tab, asked again before that one commits, is refused.

Two facts about the environment carry the argument: a request waits for an earlier
transaction that writes the same row (`Blocked`), so the transaction that an answer
belongs to is the only one of its kind when it is answered; and calls that the details
have made are about the entity they show and of a kind their component makes
(`CallsOK`), so that an answer that leads to an error page or to no refresh is known by
the component that asked.

### Model-checked only

Every invariant and every safety property the runs check is stated by a theorem. Left to TLC:

- The liveness properties `RequestsEnd`, `BatchesEnd` and `PendingEnds` (fairness is out of
  the prover's reach).
- The violations, which are counterexamples of TLC.

## 6. Plan

Modelled are what every write of an entity goes through (`ShortIds`, `Revisions`,
`BatchCreate`) and what people do with the registry (`Console`, `EntityPages`). In order:

1. `Ingest`: `_upsert_source_ref`, `_upsert_aliases`, `_upsert_tags` and `replace_tags` as
   select-then-insert against inserts that a constraint protects. What can be
   duplicated and what a duplicate then breaks.
2. Pure algorithms against reference definitions over all small inputs:
   `ContextBundle` (search and budget), `References` (`parse_ref`, `resolve_ref` and
   `validate_references`), alias resolution.
3. The policy composed with entity writes: the check at load, the write at flush, an
   ingest that moves the entity in between. `bootstrap_admin` in two workers.

## 7. Not modelled

- Of the accounts: access by API key and its scopes, the expiry of tokens, the start-up.
  Of the projects: the member routes of `api/projects.py`, which a project administrator
  may call and which write no audit row; the pages use those of `api/admin_projects.py`.
  Of the audit log: before-snapshots and queries.
- Of the short ids: migration 012, which numbers the rows of an older database before the
  workers start; the model begins with an empty table.
- Of `Tabs`: a failing `GET /auth/me`, after which `getCurrentUser` takes the visitor for
  nobody (`auth.ts:31-36`) and the layout redirects to the login page, as it does without a
  cookie. A filter of a table, or logging out, while several actions wait to be sent: Next.js
  drops those not yet sent and their buttons stay disabled while the page stays; in
  `Console` they are sent after all, and only a link drops them (its properties are about
  what is done with answers; the pages that promise that buttons come back are modelled
  with the drop, in `EntityTabs`).
- Of `EntityTabs`: once a navigation has overtaken an action that is on its way, Next.js
  sends later actions of the tab at once; here they wait for its answer.
- Of the frontend: the browser's Back button and Next.js's cache of visited pages; the
  panes of the detail page, all of which are taken as open; the view of a bundle's result; the
  dashboard and its chart (read-only); the gateways (stateless proxies). The visibility
  of reads is not modelled: everybody sees every entity.
- `EntityRoutes` leaves the conflicts of revision numbers to `Revisions` and those of
  short ids to `ShortIds`.
- Contexts beyond adding one (append-only rows), relations, export and mockups
  (formatting), text search (one SQL query), the MCP server (read-only), the connection
  pool, the pull-request script, the backup (a shell pipeline), the code review report.
