# Verification of the pages and agenda backend

TLA+ models, TLC runs and TLAPS proofs for the TypeScript backend in `src/`: an
Express API over rqlite (SQLite replicated by Raft), with e-mail, invites,
agendas, databases of pages, forms and realtime rooms. The modules are written
from the code of `src/src/`; `PROJECT.json` names, for each definition, the
lines it stands for.

The code has one idiom that matters for all of it: **a handler reads, awaits,
decides in JavaScript, and writes later**. Nothing locks a row between the read
and the write. What keeps the handlers apart is one of

* a condition repeated in the `WHERE` of the write (claims, decisions, limits);
* a transactional batch in which a statement that changed no row makes the next
  one break a constraint (`checkedOrderWrite`, `executeMutation` in `model.ts`);
* a unique index with `ON CONFLICT` (memberships, pins, dedupe keys);
* a counter compared before use (`token_version`, `rowOrder.revision`);
* nothing at all.

So a step of a model is **one statement or one transactional batch**, a process
keeps between steps exactly what the handler keeps in its locals across its
awaits, and any other step may come in between. Processes are the requests in
progress and the workers of every API process.

## Running

    tlc -workers 2 -config MCAccess.cfg MCAccess         # any MC module and its cfg
    tlapm RecordsProofs.tla                              # any *Proofs module

## Inventory

| Component | State | Operations | What is hard | What makes it correct | Status |
|---|---|---|---|---|---|
| E-mail outbox (`notification-repository`, `notification-worker`, `mail/`) | `notification_deliveries` | enqueue, list due, claim, send, mark sent or failed | several workers, stale locks, lost SMTP answers, crashes | no duplicate without an excuse; a sent row is final; everything enqueued is sent | `NotificationOutbox`, `AtLeastOnceMail` |
| Sessions (`auth-controller`, `jwt-service`) | `users.token_version` | login, refresh, revoke | overlapping logouts | a logout revokes what came before it | `Sessions` |
| Access invites (`access-invite-repository`, `invite-flow`) | invites, acceptances, roles, members of three scopes | create, expire, accept, remove invites, members and roles | acceptance is five awaited steps, and its scope may be linked or lose its place in between | limits, no dangling role, closed invites admit nobody | `AccessInvites` |
| Account onboarding (`account-verification*`, `auth-onboarding-repository`) | accounts, verification links, invites carried by links | register, resend, invite, open, complete | one link for two purposes, repeated clicks | one link in force, whole activations | `AccountOnboarding` |
| Agenda (`schedule-*`, reminders of the worker) | pins, requests, notifications, reminders | pin, unpin, ask, decide, remind | access and dates change between read and write | decided once and with access; reminded once | `SchedulePins` |
| Row order of views (`page-view-row-order`, `page-view-row-move-repository`, `page-hierarchy-repository`) | ranks per view and row, revision, legacy array | import, repair, create, move, compact | processes share no lock; cursors rely on the revision | one order per revision; nothing lost, nothing misplaced | `PageRowOrder` |
| Public forms (`form-service`, `form-repository`) | publications, submissions, responses | publish, revoke, expire, submit | crossed retries, lost answers, revocation during a submission | one response per request id, true answers, closed forms admit no visitor | `PageForms` |
| Column locks (`column-lock-repository`) | users per column in `pages.data` | save, ask before a write | asked before the write, not in it | a write was allowed at some moment since it began | asked by forms and flows: `PageForms`, `PageFlows` |
| Flows (`services/flows`, `flow-repository`) | documents of nodes, results, mail | save, execute by button or form | documents walked long after they were admitted; data read before the transaction | admitted documents end; one way through; one message per node and mailbox | `PageFlows` |
| Relations (`page-relation-*`) | cells and definitions on one side or two | write a cell, configure, change the target, retype, reset, delete | both sides planned from reads; the values are looked for before the transaction | the sides mirror each other within their limits; cells name rows of the target | `PageRelations` |
| Filter keys (`public-key`, `filter-key-*`) | keys, aliases, retired names | create, rename, delete, reconcile, give the data anew | renames, collisions, rows older than keys, a list written whole | a name names one column; links outlive renames | `PublicKeys`, `ColumnKeys` |
| Snapshots and view patches (`page-json`, `page-view-patch-planner`, `-parsers`) | views in `pages.data` | first catalogue, create, delete, order, configure, filter | concurrent plans over one JSON document, which begins as its client sends it | orders are whole; forms keep their flow | `PageViews` |
| Cells, columns and resets (`page-cell-repository`, `page-column-*`) | typed columns and values | create, rename, retype, reset, delete, write | the column changes under a plan | – | in `ColumnKeys`, `PageRelations`, `PageViews`, `Records`, each for one concern; codecs are not modelled |
| Roles, memberships and delegation (`scoped-access-repository`, `role-repository`, `membership-request-repository`) | roles, members and requests to join in an organization, its workspaces and trees of pages | save, delete, assign, add, remove, ask, decide | rights come from the nearest page; sequences of changes | members always have a role; nobody gives more than they have | `ScopedAccess` (invited roles: `AccessInvites`) |
| Organizations, workspaces, hierarchy, favourites, collaborators | rows | create, link, delete, favour | batches of rows that name each other | nothing missing is named; what is written together is found together | `Records`, `ScopedAccess` |
| Database client, schema and migrations | every table | batches of conditional statements | references, partial unique indexes, soft deletion | the same | `Tables`, `Records` |
| Realtime (`services/realtime`) | rooms, sockets, one queue of deliveries per page | join, leave, deliver | access lost while in a room; slow and failed questions | nothing after a revocation; in order; everything reaches who may read | `Realtime` |
| Queries of views (`page-view-query-*`) | none | list pages by cursor | a cursor is older than the list | one order per revision | that reliance, in `PageRowOrder` |
| Documents, mentions, templates, variables | documents, variables | save, substitute | recursive templates | substitution ends | not modelled |
| Formulas and macros | none | evaluate | – | – | not modelled: an embedded evaluator |
| PDF export | counter of exports | export | – | at most two at a time, tested and incremented without an await between | not modelled |
| HTTP edge, cluster | – | – | – | configuration of libraries | not modelled, external |

### How the components meet

* Requests to pin, membership requests, flows and reminders **enqueue** a row of
  the outbox in the transaction that creates their notification; the workers drain
  it later. `SchedulePins` ends where a reminder is enqueued and
  `NotificationOutbox` begins there: its `Enqueue` is any of those producers.
* `AccountOnboarding` **accepts invites** after an activation.
  `AccessInvites` models what an acceptance does to roles and memberships;
  `AccountOnboarding` keeps only that it happened, and when.
* `ScopedAccess` says who may do what and how that changes. `AccessInvites`,
  `SchedulePins`, `PageForms` and `Realtime` see **permissions** as data that
  other people change: `SchedulePins` lets any of the access it reads change at
  any step (`Elsewhere`), `Realtime` has `ChangeRights`.
* `PageFlows` EXTENDS `PageForms`: a submission **executes the flow** of its form
  in its own transaction, under the locks of the form's columns.
* Forms and child creation **append rows** through `PageRowOrder`'s `Create`;
  `Records` has the other rows of those transactions.
* `PageViews` has the configurations that name columns, `ColumnKeys` the names,
  `PageRelations` the cells of one type: three concerns of one table.
* Cursors of the queries carry the revision that `PageRowOrder` advances.

## The modules

### NotificationOutbox, AtLeastOnceMail

The variables `status`, `attempts`, `createdAt`, `nextAttemptAt`, `lockedAt` are
the columns; `pc`, `at`, `batch`, `row` are the locals of `runOnce`: the instant
read when the tick began, the rows listed with the attempts they had *then*, and
the row in hand. `Claim` is the guarded `UPDATE` of `claimDelivery`, `Record` the
guarded write of `markSent` and `markFailed`, `Transmit`, `LoseReply` and
`Refuse` the answers of the server, `MarkSentFails` the `catch` that turns a
failed `markSent` into a failure of the message, `Abandon` a stopped process. The
listing keeps the sort by two timestamp formats under `LIMIT`: within a day, rows
in the format of the database sort before rows in the format of JavaScript.
`copies` and `excused` are history: messages accepted by a server, and
deliveries a fault or an expired lock may have duplicated.

`AtLeastOnceMail` is what a producer is promised: posted, transmitted once unless
suspect, settled only after a copy left, and settled for good.
`NotificationOutbox` implements it with `stage` read off `status` and `suspect`
as `excused`.

### Sessions

`version` is `users.token_version`; `tokens` the `tv` of each refresh token. Each
handler is two steps, the `SELECT` and what follows its awaits: `Login` and
`Refresh` sign the version that was **read**, `Revoke` writes the value read plus
one **without a condition**. `dead` are the tokens that existed before a logout
that has returned; `lost` says a logout wrote over an increment it had not read.

### AccessInvites

`acceptById` is a chain: read the invite and the user, read which scopes lie
above, make the role of the invite in its scope, make the roles of the scopes read
as above, commit. Each is an action (`StartAcceptance`, `ReadScopes`, `EnsureRole`,
`EnsureContext`, `Commit`), with `task` as its locals; `Commit` repeats the
conditions of the transaction: invite open and not full, user not yet among the
acceptances, memberships inserted only where there is none, in the scope and in
`task.above`. `RemoveRole` refuses a role that members or pending invites hold,
`RemoveMember` is a soft deletion, `Remove` closes an invite. A role is named by
the invite whose system key makes it unique.

`within` is what `scopeContext` would find: a workspace lies within the
organization of its `organization_id`, a page within the workspace whose live
membership has its root above the page. It changes in three ways: `linkWorkspace`
(`LinkToOrganization`), the end of the membership whose root a page lies under
(`RemoveMember`, by `Keeper`), and the deletion of the page (`TakePageAway`).
`task.moved` is history: another scope lies above by now than when the acceptance
read them.

### AccountOnboarding

`verification` holds the rows of `account_verifications`; a link is *active*,
*superseded* or *consumed*, may be cold for a resend (`warm` = inside the 60 s) or
`expired`. `Start` reads the account and the cooldown, `Commit` supersedes the
earlier links and inserts the new one, `SendVerification` sends it.
`OpenLink` is what `complete` reads before it hashes the password, `Activate` the
transaction with its conditions, `AcceptCarried` the acceptance that follows. Two
pairs of reads with no write between them are one step: the account and the
cooldown in `Start`, and the two reads of `register`. Each invite is to a
resource of its own.

### SchedulePins

A handler reads permissions, columns and requests (`StartPin`, `StartRequest`,
`StartDecide` …) and writes in a transaction; a worker reads the pins, then what
their owners may see, then enqueues one reminder at a time, `INSERT OR IGNORE` by
a dedupe key made of pin, column date and person. `Elsewhere` is the rest of the
program: readers of a page, members of the workspace, placement of the page and
values of its date columns. One clock serves database and workers.

### PageRowOrder

`rank` is `page_view_row_order` for one view, `revision` and `ready` are
`rowOrder` in the page's JSON, `legacy` is `orderedRows`. `ensureUnlocked` is
the chain `ReadView`, `ReadBatch`/`WriteBatch` (an import in batches),
`MarkReady` or `ImportAgain`, then `ReadMissing`, `ReadTail`, `Repair`;
`Create` is the transaction of `createChild` and of a form's submission,
`ReadRow`, `ReadGap`, `Move` those of a move, `ReadRanks`, `Compact` the
compaction that refuses it. `Current` is the compare-and-swap of
`incrementOrderRevisionStatement`; **`WriteBatch` has none**, as in the code.

`withPageRowOrderLock` orders the operations of one process, so a process does
one at a time; processes (the server, and `scripts/backfill-database-views.ts`)
share only the database. Fractional keys are integers: multiples of `Gap` come
from appending, the rest from inserting, and a used-up gap stands for a key
longer than 128 characters. The reads of anchor, neighbour and adjacent row of
one move are a single step: the compare-and-swap refuses what changes between
them. The groups of a board are arbitrary sets of rows. Access, column locks and
the transfer of a select value are reasons for an operation to stop (`Abandon`).

### PageForms, PageFlows

`publication` is the row of a form, `ledger` the unique `client_request_id` of
`page_form_submissions`, `responses` the pages created. A `call` reads the
publication, the ledger, the locks and the rights of its flow, each in a step of
its own, and commits with the guards of the transaction: publication live, its
capability the one that was presented, the author the one read, the key free. A
commit that fails or whose answer is lost reads the ledger again (`raced`).

`PageFlows` adds the documents. `Drafts` are the graphs and lists of an instance;
`Parses` and `Valid` are the parser and the validation against the columns, and
`CheckDraft` and `SaveDefinition` admit what they accept. The parser's count of
nodes ends its reading of a list (`Reading`, a step met at a time, a condition
before its branches), however deep conditions lie in conditions. An execution
(`Press`, `Submit`) reads the catalogue and the values of its row, walks node
after node (`Switch`, `WriteValue` with the lock of the column, `EnqueueEmail`)
and commits all at once. `could` is history: the columns each execution was
allowed at some moment since it began. A *lost* execution is one the walk throws
for, at a node that is not there or that it has been at.

### PageRelations

`property` has the definitions, `cell` the pages each cell names. `PlanCell` and
`PlanDefinition` plan from what was read; `CommitPlan` compares all of it in the
transaction, and its triggers the limit of one page (`WithinLimits`).
`AssertRelationCanChange` is the read between `ReadDefinition` and
`PlanDefinition` that lets a relation change its target only while it has no
value; the transaction does not ask again. A relation shown at its target keeps
its target. `Overwrite` (retyping, resetting, deleting, and configuring a column
that is or becomes something else than a relation, which may forget its target or
give it another) compares nothing.

Three variables are history: `outdated`, an overwrite met a definition it had not
read; `overtaken`, the requests since whose check for values a cell of their
column was written; `stray`, the columns whose target changed although they had
values, by an overtaken request or by an overwrite.

### PublicKeys, ColumnKeys

`PublicKeys` has the allocation and resolution of names as operators; a label is
a name with a number, so that "Status (2)" and the key `status_2` can collide.
`ColumnKeys` is a life of a page's columns: creation, renaming, deletion and
repair each read all the names and write a plan that compares none. A deletion
writes the list of retired names (`tombstones`) **whole**: what it read of the
list with the names it read of its column (`Retire`). The view whose title takes
part may be deleted (`DeleteTitle`), and a page without a view may be given its
data anew, list of retired names and all (`PutSnapshot`).

`overlapped` says a plan was written over names that had changed, or data given
anew, until a repair reads the page afterwards; it is true at first, for pages
older than their keys. `retired` has every name a deleted column ever answered
to, and `dropped` says that the list of them was written over one that had
changed, or replaced: that is for good, as no repair restores a retired name.

### PageViews

The catalogue of views of one page: kinds, places, configurations and filters,
by the columns they name (`shown`). A page begins with any of `Snapshots`, and
`PutViews`/`WriteViews` put one where there is no view (`POST /pages`, `PUT
/pages/:id` with `data`): such a catalogue is the client's, and neither the flow
of its forms, nor its orders, nor its filters are looked at. `Snapshots` is any set
of catalogues, with views without an order (`Unordered`), forms without a flow
and filters by columns that are not there. Later plans are patches of paths whose
guards are those of the planner; `aging` says a plan was written over a page that
had changed since, `aged` that a request's reading is older than such a change.
`formless` and `crowded` are history: the views a first catalogue brought without
their flow, or in one place with another, and that no patch or ordering has put
right. `FormsRun` asks that there be no others.

### ScopedAccess

`given` are the roles of every scope with what they allow, `membership` who has
which, `asked` the requests to join. `PageRights` is the SQL guard of `can`: the
owner, the workspace, or the nearest page above where the person collaborates,
less what only that page itself gives. Each change is one guarded statement;
`last` says who made it, where and of whom.

### Tables, Records

`Tables` is the schema: for each table its references and its unique indexes with
their conditions. `Records` has the rows, the four kinds of statement (insert,
insert where, update, delete with its cascades), a batch that is whole or
nothing, with the abort of `executeMutation` and `checkedOrderWrite`, and one
action per transaction of the program, from a registration to the reset of a
column. A row has a number its transaction may give (`Room`), a cell one made of
its page and its column; a batch is a function of how many of its statements were
carried out (`Continue`). The database a run begins with, `Founded`, is what the
transactions that register two accounts and create a database, one column and one
row leave. Since rows are marked deleted and seldom removed, a transaction may refer
to any row there ever was.

### Realtime

The room of one page: `asking` are sockets whose permission was read and who have
not entered yet, `task` the promises of the queue `authorized-page-delivery.ts`
keeps per page. A delivery takes the sockets there are when its turn comes, and
asks for each the read of the page, and of the row if the event shows one; the
question and what follows the answer are two steps, and rights, room and
connections change between them. `steady` and `without` are history: since which
event a socket is in the room with all rights, and which rights have been missing
ever since an event was published. What the publisher reads before it hands over
an event is left out: an event may come at any time.

### MC modules

A run's module gives constants their instances. `MCPageContents`, `MCAccess` and
`MCDeliveries` hold several components that share no state: their `focus` is
chosen in the first state and names the one that moves, so that each component
is checked exactly as if it were alone. A component may have several focuses, one
for each kind of crossing. `MCSessions` and `MCColumnKeys` are for the two
violations of components that the shared modules check. `MCAccountOnboarding` chooses in the same
way between two requests at once for one address and one at a time for two, as
`InTurnSpec` handles them.

## Runs

| Run | Instance | Question |
|---|---|---|
| `outbox_races` | 2 rows (one malformed), batches of 2, 2 sending processes and one without SMTP, 1 fault, horizon 2 | Does a message leave twice only with an excuse, is a sent row final, and is the mailbox implemented? |
| `eventual_delivery` | mail: 2 rows, of which one can never be sent and sorts first, batches of 1, 2 processes, 1 fault; room: 2 sockets of 2 persons, 2 events, 2 requests to enter, one person's rights changing twice | Is every well-formed row eventually sent? Does every event reach, in order, the sockets that stay and may read, and nobody else? |
| `sessions_lost_update` | 2 requests | Does it revoke when logouts overlap? **No** |
| `access` | sessions: 3 requests, 2 tokens, 2 logouts; invites: a workspace that is linked to an organization and a page kept in it by a third account, 2 accounts, 1 invite, 2 acceptances (1 while the scopes move); rights: 3 people, pages nested three deep, 3 changes; records: 2 accounts, a database with a column and a row, 2 or 3 transactions | Does a logout revoke, unless an increment was lost? Limits, roles, closed invites, readmission, scopes above; who may do what after any changes; which rows name which |
| `schedule_requests` | 2 people, 2 requests, 2 handlers, 2 columns; readers and placement change | Pending once, decided once, with access, notification in step |
| `schedule_reminders` | 2 workers, one page pinned, unpinned and pinned again; readers, members and dates change; clock 0..2 with days of 1 | Is anybody reminded twice of one start? |
| `onboarding` | 3 messages and 2 requests in progress for one address, or 2 messages, one at a time, for two; 2 invites, faults anywhere | One link in force, whole activation, password stays, new links keep inviting |
| `onboarding_two_invites` | 1 address, 3 links, 2 invites, no faults | Does the click accept the invites? **Not the first of two** |
| `row_order` | 3 rows, 2 processes, batches of 1, gaps of 2, a board, moves before, after, to the start and the end | Cursors, imports, appended rows, moves, nothing lost |
| `row_order_stale_import` | the same, nothing created or moved before the import | Does a revision name one order? **Not while a stale import writes** |
| `page_contents` | forms: 2 users and a visitor, 2 submissions with one key, 2 publications, 1 lock saved; flows: all graphs of four nodes and three lists; relations: two rows to one, 2 properties, 2 people who see different rows, 2 requests, the target changing in two of the focuses; names: 2 columns older than their keys and one more, 3 requests, the data given anew among them; views: 3 first catalogues, 2 views, 2 columns, 4 requests | Responses, executions, mirrored links, names and catalogues, each while requests cross |
| `names_recycled` | 2 columns older than their keys and one more, 2 requests, no renames | Does no column ever answer to a name of a deleted one? **It may, after two deletions that crossed** |

**Bounds.** Two processes are enough for a race between what one read and what
the other wrote; where a third matters (a logout between two, a worker that finds
no SMTP) there are three. Two rows per batch let a claim come long after its
listing; two versions of a date, a re-pin and a clock that outruns the window of
a reminder (`MaxTime` = 2 days of 1) reach every dedupe case; three links reach
an old one, its successor and one in between. Three rows and gaps of 2 reach an
insertion between two rows and, one insertion later, a gap that is used up. Two
submissions with one key are the crossed retry; a second publication replaces the
author under one of them. Three nested pages have one that is nearest without
being the page itself. Two requests about one relation are the read of no values
and the cell written after it; four requests about views put a catalogue, patch
one of its forms, and let two more cross. Two changes of rights take one away and give it back while
an answer is on its way; two events show whether the second waits for the first.

`Horizon`, `MaxFaults`, `MaxTokens`, `MaxVersion`, `MaxTime`, `MaxPins`,
`MaxRevision`, `Changes`, `Moves`, `Removable`, `MaxKeys`, `MaxLocks`, `MaxSaves`,
`MaxChanges`, `MaxColumns`, `MaxEdits`, `MaxActs`, `MaxBatches`, `MaxEvents`,
`MaxJoins` and `Restless` are the bounds in guards; the theorems hold for all
their values. `MaxRevision` bounds when operations *start*; those in progress go
past it. Symmetry is used among processes, accounts and links, which nothing
orders, and never where liveness is checked. Deadlock is not checked in `access`,
`page_contents`, `names_recycled`, `onboarding` and `eventual_delivery`, where a component whose
bounded requests are used up has nothing left to do; the outbox is checked for it
in `outbox_races`.

**Fairness.** `eventual_delivery` assumes it: the clock advances and each worker
that can go on does (`WF` of `Proceed(w)`): `setInterval` in
`notification-worker.ts` starts a tick every interval, each await settles, with
an answer or a timeout, and faults are finitely many. A delivery goes on (`WF` of
`Attend(n)`): a question to the database is answered or fails, and the promise
queue runs what is next. Nothing forces a fault, an enqueue, a publication, a
request to enter or a change of rights.

## What the runs found

1. **`sessions_lost_update`.** `revoke` writes `token_version` = (value read) + 1
   unconditionally (`auth-controller.ts:130`). A logout that read version 0 and is
   delayed past another login and logout writes 1 over 2; the token that carries 1,
   revoked in between, is accepted again. `jwt-service.ts:9` says the counter kills
   every refresh token issued so far. `UPDATE … SET token_version = token_version + 1`
   would do.
2. **`onboarding_two_invites`.** A second invite to an address without an account
   supersedes the link that carried the first (`account-verification-repository.ts:82`).
   The click then accepts only the second; the first stays pending and its own link
   was never sent. `docs/PERMISSOES.md:139-140` promises that the click accepts the access.
3. **`row_order_stale_import`.** The batches of an import are plain upserts
   (`page-view-row-order.ts:83`). When two processes import one view while a legacy
   tab patches its array, the import of the older array can go on after the other
   marked the view ready, and overwrite ranks under an unchanged revision: cursors
   already given stay valid and list another order. `docs/INTEGRACAO.md:531-533` binds
   cursors to the revision of the order, and the comment at line 98 says a stale import is never
   marked ready. `CursorsHold` and `ImportKeepsLegacyOrder` show this is the only way.
4. **`names_recycled`.** `deleteColumn` reads the page, and some awaits later writes
   the list of retired names whole (`page-column-controller.ts:394`), comparing
   nothing. Of two deletions that cross, the later one drops the names the other
   retired; no repair restores them, and a column created afterwards takes the key
   that links to the deleted one still carry. The comment at
   `page-column-controller.ts:369` promises that the URL of a deleted column is never
   reused, `filter-key-registry.ts:56` that existing tombstones are never removed,
   `docs/INTEGRACAO.md:220-221` that no old link is recycled. `NamesNameOne` shows
   that, in a page in order, it takes such a crossing, or data given anew.

## Where code and documents differ, or order is not kept

Met while modelling; no run is about them.

* `docs/INTEGRACAO.md:125-126` says that public answers cannot fill locked
  fields by the authorization of the publication's author. The fields a visitor
  answers cannot (`form-service.ts:339`); the flow that runs with the answer sets
  locked columns by exactly that authorization (`form-service.ts:397-407`).
* `docs/RELACOES.md:38` says that each transaction compares the definitions and
  snapshots it read. Retyping, resetting and deleting a column compare nothing
  (`page-column-controller.ts:346`): `RelationsInv` states the pairs and their
  mirrors for as long as none of these was written over a newer definition.
* The message of `page-relation-repository.ts:159` says that the database of a relation
  cannot change while it has values. That is asked before the transaction
  (`page-column-controller.ts:293`), which compares the definition but not the
  values: a cell written in between goes on naming rows of the older target
  (`stray`). A column that is no relation may be given another target, with
  its values there, without being asked.
* `docs/PERMISSOES.md:109-110` says that an acceptance makes the memberships that
  are missing in the organization. The scopes above are read before the
  transaction (`access-invite-repository.ts:158`): who is accepted
  into a workspace that is linked in between does not enter its organization.
  `AcceptanceReachesAllScopes` says that no scope is missed while none moves.
* The endpoints of views admit no form without a flow column and no view without
  an order. The first catalogue of a page is stored as it comes
  (`page-view-initial-snapshot.ts:6-38`, `page-resource-router.ts:62-86`), and so may
  have both; `ViewsInv` lets in those it brought, and no others.
* `docs/PERMISSOES.md:11-12` says that each resource is born with a `Default` role.
  The personal root page of a new member of a workspace is inserted without one
  (`role-repository.ts:125`, `access-invite-repository.ts:209`); `RowsAreWhole`
  asks for it of organizations, workspaces and rows of a database.
* `docs/adr/0001-realtime-v1.md` has clients discard events older than what they
  have. The clock of an event is read after awaits that follow the commit, and
  events of a page are stamped before one more await, so two writes of one cell
  may be told in the other order than they committed.
* A socket evicted by a delivery (`authorized-page-delivery.ts:40-44`) leaves the
  room without the `page-presence` that `page-room-channel.ts` sends when one leaves.

## Proofs

Every theorem holds for any constants that satisfy the named assumptions of the
modules it is about, which TLC also evaluates. Components that share constants
are proved about in one module; `PROJECT.json` lists the theorems.

| Module, component | Theorems | Argument |
|---|---|---|
| `DeliveriesProofs`, `NotificationOutbox` | `OutboxSafe`, `TypeCorrect`, `NoUnexcusedDuplicate`, `SentForever`, `ImplementsMailbox` | `OnlyExcusedDuplicates` is not inductive: one must know that two workers hold one row only after an expired lock (`ClaimsExclude`), that a busy worker still owns its row in the table (`OwnerMatchesRow`), and that a copy not yet recorded is in some worker's hands (`CopiesAccounted`). The refinement maps each step to a step of `AtLeastOnceMail` or a stutter under that invariant. |
| `DeliveriesProofs`, `Realtime` | `RealtimeSafe`, `RevokedHearNothing` | The queue of a page has at most one delivery under way; those before it are over and those after it have not begun. So what a socket received lies before the delivery under way, in order, and who lacks a right ever since a delivery was published is not among those it asked and let through. |
| `AccessProofs`, `Sessions` | `VersionsInOrder`, `LogoutRevokes`, `NoRefreshAfter` | Until an increment is lost, token ≤ version read by its holder ≤ stored version, and dead tokens are strictly below it (`InOrder`). |
| `AccessProofs`, `AccessInvites` | `InvitesSafe`, `RolesNeverDangle`, `LimitsKept`, `ClosedStaysClosed`, `AcceptanceComplete`, `NobodyReadmitted` | No role dangles because of `RolesKept`: a pending invite protects its role from removal and an acceptance about to commit holds roles that nothing can remove. It also keeps what an acceptance read as the scopes above equal to what they are until one of them moves, which is what `AcceptanceComplete` rests on. The limits need finiteness of the accounts, to count. |
| `AccessProofs`, `ScopedAccess` | `MembersAlwaysHaveRoles`, `AccessIsSound`, `NobodyEscalates` | Roles are only taken from the living in a statement that finds no member with them, and each way of becoming a member picks a living role in that statement. What the rules say of the nearest page with roles is recursive on the tree; `Climb` states, page by page, where the way up ends, and its uniqueness follows from the depth of a page. From there, `NobodyEscalates` compares what a step gives with what its author has, scope by scope. |
| `RecordsProofs`, `Records` | `RecordsSafe` | `RecordsInd` says of each row that it is `Sound`: it has its columns, is numbered below the next transaction, every reference it has reaches a row, and the rows it was written with are there (`Whole`). A batch is walked statement by statement with `Going`: the rows so far are sound, and those that are new are the ones the batch has named. That nothing dangles rests on what each statement asks for, and on what a change leaves (`Kept`): rows of most tables are never removed and never change a column another row relies on; the others are only named by links between cells, which go with them (`Cascaded`). Only what an organization, a workspace or a request for a pin comes with is complete no sooner than with its transaction (`Complete`). A page has a greater number than the page it was created in, from which the forest follows. |
| `SchedulePinsProofs` | `SchedulePinsSafe`, `RemindersOnce`, `RequestsWaitAlone`, `NoticesInStep`, `AnsweredOnce`, `AcceptedIsPinned` | `RemindedOnce` follows from three orders: ids name one pin for ever (`PinsInOrder`), what a worker read is behind or equal to the pin there is now (`TicksInOrder`), and reminders lie behind both (`RemindersInOrder`). |
| `AccountOnboardingProofs` | `OnboardingSafe`, `OneLinkInForce`, `WholeActivations`, `WorkspaceBeforeInvites`, `PasswordStays`, `OnlyLatestLink`, `InvitesAreKept`, `TurnsKeepInviting` | A request that opened a link still in force has an account still pending (`LinksInOrder`), because the one step that verifies an account consumes its one link (`OneLink`). Taking turns, a request about to issue a link without an invite found no invite to carry over, and nobody moves until it commits (`Inherits`). |
| `PageRowOrderProofs` | `RowOrderSafe`, `RevisionsNameOrders`, `RowsStayPaginable`, `PlansFit`, `RowsJoinLast`, `MovesArrive`, `ImportsKeepOrder` | Ranks stay distinct because a plan that still has the revision it read was made of the ranks there are (`PlanOK`, `Sound`). `OrderInd` adds where a plan means its keys to lie: while no import crossed another and the revision is the one a process read, behind all rows or beside the row a move names (`Fit`), and after the batches of an import every row before its offset has the key of its place (`Imported`). |
| `PageContentsProofs`, `PageForms` | `FormsSafe`, `SubmissionsAreSafe`, `OpenFormsOnly` | `FormsInd` adds to `FormsInv` that a capability names the author it was published with (`KeysNameAuthors`), that ledger rows are of calls that wrote a response with that key (`LedgerNamesWriters`), and that who wrote is past the transaction: so what a call answers after its second read is about a row nobody changes any more. |
| `PageContentsProofs`, `PageFlows` | `FlowsAreWhole` | The invariant says of an execution that it walks (`Walks`). In a graph, what it visited leads forward to the node it is at, so no node is met twice and the walk can stop only at the last (`GraphGoesOn`). In a list, what it visited and what it has to do are the places of a walk through the reading of the parser (`Walked`): both rising, the second behind the first, and of each condition taken exactly one branch among them (`Covers`). `WalksOn` shows that a step keeps this, from the order in which a reading meets steps (`LeftInOrder`) and from each step having one place to be met from (`Branching`, `OneParent`). The mail of a walk is that of nodes it has visited, so the next node's is new (`Posted`). |
| `PageContentsProofs`, `PageRelations` | `RelationsSafe` | A transaction compares what it read with what there is, so a plan has to be right only for the definitions and cells it holds itself (`RelationPlan`): the pairs and mirrors of the database after a commit are those of the plan inside what it read, and untouched outside. What no transaction compares is whether a column whose target changes has values: from the check on, a request not `overtaken` finds no cell of its column filled (`ChecksHold`), so the cells of a column that is not `stray` name rows of its target, whatever that target has become; and a pair, whose mirrors are compared, has no cell that does not. |
| `ColumnsAndViewsProofs`, `PageViews` | `ViewsSafe`, `OrdersAreWhole`, `FiltersAreOfColumns` | The planner reads views and writes them a step later. What it planned stays right until another request writes, which ages it; so the invariant says of each request that is not aged that its plan still suits the page (`Fresh`). It begins with any catalogue: what that brought amiss is in `formless` and `crowded`, and a view leaves them with the patch or the ordering that puts it right. |
| `ColumnsAndViewsProofs`, `ColumnKeys`, `PublicKeys` | `NamesAreApart`, `LinksStay`, `OrderStays` | The same with names (`Suit`). That reconciling a scope gives each entity a name apart from those before it, and leaves alone a scope in order, is shown by going up the numbers of the entities (`ScopeIs`, `ScopeInOrder`); after a repair every entity has a key, and a link leads where it led because a name dropped by one column is an alias, or retired, never another column's. Until the list of retired names is written over one that had changed, or replaced, it holds all that were ever retired (`RetiredStay`), so what is apart from the list is apart from every deleted column. |

Inductions over numbers and over finite sets are in the proofs where they are
needed, as the existence of a least number (`WFMin` of the library) or of a
smallest counterexample: the library's induction theorems themselves take an
operator as a parameter, which no prover here instantiates.

**Only model-checked.** Liveness (`EnqueuedIsSent`, `EventsReachReaders`), outside
what the prover does. Every safety invariant and action property a passing run
checks is stated by a theorem. `InvitesAreKept` is a theorem of `InTurnSpec`, not
of `Spec`: what requests that cross read before one commits may be out of date.

**Assumptions on constants** beyond types: a page of `ScopedAccess` lies deeper than
its parent (a page is inserted under one that is there, and nothing moves it); there
is at least one name for a label; `Records` allows at least one transaction, and its
two first accounts have emails; legacy arrays of rows name each row once; scopes of
`AccessInvites` lie within scopes of the right kind (a page within a workspace, a
workspace within an organization); the steps of a document, those inside conditions
included, are among `Nodes`, and of them only conditions have branches. No document
is assumed to be well formed, finite in depth beyond the parser's limit, or free of
repeated identifiers: that is what the parser is asked.

**Assumptions of the models.** The database runs statements one at a time and
reads see the last write (rqlite answers from its leader). One clock serves
database and processes (a skew between the two is not modelled). Ids (ULIDs) and
tokens never collide. `fractional-indexing` returns keys strictly in between.
Socket.IO hands an emitted event to a connected socket, and in order.

## Not modelled, and why

Listed by component in `PROJECT.json`. In short: wording, layout and parsing of
payloads; access tokens and the expiry of refresh tokens, which only shorten what a
token allows; colour columns and the calendar's projection of pins; rollups, and
that a relation they read keeps its target; codecs of values, options of a select
and the values of a filter clause; pages of results and SQL filters, which only
read; formulas, PDF rendering, Redis, rate limits and CSRF, which are libraries or
their configuration.

Hazards of the code that no property covers, as it promises nothing about them:

* a direct pin is written some awaits after access was read, and outlives an
  access lost in between (`schedule-controller.ts:150`);
* a start is missed when no worker ticks in the 24 hours after it
  (`notification-worker.ts:101`);
* the 60 seconds between messages are checked before the transaction that sends
  the next (`account-verification-repository.ts:60`);
* an invite is created after its author's right to delegate was read
  (`invite-flow.ts:48`).

## What is left

1. Keys of options and of views, and the codecs of cells, against `ColumnKeys`.
2. `recursive-template.ts` as an operator, for the end of its substitution.
3. What the publisher reads after a commit, and the clocks of events, so that
   clients can be shown to converge, or not.
