# Verification of vibe-order-infra

TLA+ modules, TLC runs and TLAPS proofs about the order service in `src/`: a
FastAPI + SQLAlchemy backend over PostgreSQL, a Vite/TypeScript frontend (public
order form and admin panel), Nginx in front, and the Compose services that bring a
database to the current schema.

`tlc -config <run>.cfg <module>` repeats a run, `tlapm <module>.tla` a proof.
`PROJECT.json` lists the runs, what each definition translates (`map`), a mutant for
each property, the findings, the hazards and the theorems.

## 1. Inventory

Paths are below `src/`; `app/` stands for `backend/app/`, `fe/` for `frontend/src/`.

| Component | State | Operations | What must be right | Where |
|---|---|---|---|---|
| Service catalog: `app/crud/admin_setting.py`, `routes/admin_settings.py` | `admin_settings` rows: name, description, switch, budget range | create, PATCH, DELETE, two lists | ranges stay ordered, no lost column, no resurrection, no deletion under an order | `ServiceCatalog` |
| Order intake: `app/crud/application.py`, `routes/applications.py` | `applications`, `application_idempotency_keys`, `application_behavior_capabilities` | POST with or without `Idempotency-Key`, DELETE | one order per key, truthful replay, checks valid at commit, every wait ends | `OrderIntake`, `ExactlyOnceOrders` |
| Behavior metrics: `app/routes/behavior_metrics.py`, two `crud` files | `behavior_metrics` and the capability's `used_at` | POST with a capability token, PATCH, DELETE | one capability buys one metric; nothing outlives its order | `MetricSubmission` |
| Scoring: `app/services/application_scoring.py` | none | points, level, bounds of a level, team, manager | level = band, a better answer never costs, no fact paid twice | `ApplicationScoring` |
| Priority board: PATCH and lists of `app/crud/application.py`, event in `models/application.py` | `applications.priority_score` | PATCH, DELETE, prioritized page with total | stored score = score of the row; a page is the top of its filter | `PriorityBoard` |
| Order form: `fe/pages/home.ts`, `fe/api/client.ts`, `fe/utils/` | selected card, fields, pending key | load services, select, submit, retry | resending never orders twice; what is sent is what is shown | `HomeForm` |
| Admin applications tab: `fe/pages/adminApplications.ts` | criteria, page, generations, modal | load, search, page, open, close | rows belong to the controls; nothing waits for an answer it ignores | `AdminApplications` |
| Admin statistics tab: `fe/pages/adminAnalytics.ts` | activation, period, in-flight flag | load, switch, refresh | the period shown is the period chosen | `AdminStatistics` |
| Admin panel, login, session: `fe/pages/admin.ts`, `fe/api/tokenStorage.ts`, `fe/api/client.ts` | JWT in `sessionStorage`, render generation | gate, login, logout, 401, tabs | a given-up flow neither paints nor stores a token | `AdminPanel`, `AdminCalls` |
| Authentication: `app/core/security.py`, `core/deps.py`, `routes/auth.py` | `admins.is_active` (the JWT is stateless) | login, check | a token is accepted from its issue until it expires | `AdminCalls` |
| Analytics: `app/services/behavior_analytics.py`, `routes/analytics.py` | none | overview of a period, detail of an application | two reads belong together; shares, rankings | `BehaviorAnalytics`, `AnalyticsReports` |
| Schema guard: `app/core/schema_introspect.py`, `core/schema_check.py` | none | describe problems, readiness | serves the full schema only | `SchemaIntrospection`, `SchemaLifecycle` |
| Schema lifecycle: `app/db_admin/`, `backend/alembic/` | tables, owners, revision, roles | bootstrap, adopt, migrate, finalize | what is stamped was verified; a rerun after any crash ends at the same schema | `SchemaLifecycle` |
| Metrics collection: `fe/metrics/behaviorMetrics.ts` | counters of a visit | hover, click, reset, send | – | not modelled |
| First administrator: `app/crud/admin.py`, `cli.py` | `admins` | bootstrap under an advisory lock | – | not modelled |
| Config, sessions, errors: `app/core/` | settings, session factory | `get_db`, handlers | rollback on any failure | the `Fail*` actions |
| Router and shell: `fe/router.ts`, `fe/main.ts`, `fe/options.ts` | none | path to page | the page shown is the page named | `AdminPanel`, in part |
| Nginx, Compose, registry | configuration | proxying, ordering of services | – | not modelled, but the order of the services |
| PostgreSQL | the rows and locks | statements, commits, deadlock detection | – | external, as the statements use it |

**How they interact.** The order form reads the catalog over HTTP and POSTs orders;
the answer to the POST that placed an order carries a capability token, and the form
sends the visit's metrics with it. Admins PATCH and DELETE catalog rows and
applications while orders arrive. The components share no memory: they meet on
database rows. An order locks its service (`SELECT ... FOR UPDATE`); the foreign key
of `applications` protects a service with orders; the deletion of an application
cascades to its key claim, its capability and its metric. The statistics read orders and
metrics; the admin page shows them, the orders and the catalog in tabs that share a
token. Before any of it, the Compose services create roles, bring the tables to the
newest revision and hand the rights to the runtime role; the backend looks at the
schema and refuses to start on another one.

**What is hard.** Handlers are synchronous functions in a thread pool, each with a
READ COMMITTED session: everything between two SQL statements interleaves with other
requests. Admin PATCHes read without a lock and write back only the columns that
changed in their copy. The idempotency claim is inserted before the order is checked,
in the same transaction, and a second request with the key waits on the unique index.
Deletions and submissions take the same rows in opposite order. On the client, an
answer may be lost or come after a 504 that Nginx sent in its place, form fields may
change during an `await`, and the answers to several loads of one tab overtake each
other. The lifecycle programs commit statement by statement, can be interrupted
anywhere and are then run again, beside a backend that goes on taking orders.

## 2. Modules

```
ServiceCatalog ──> OrderIntake ──> MetricSubmission
      │                └──(implements) ExactlyOnceOrders
      └──────────> HomeForm                                  MC*: instances for TLC
ApplicationScoring ──> PriorityBoard                         *Proofs, CollectionFacts:
BehaviorAnalytics ──> AnalyticsReports                       theorems and lemmas
SchemaIntrospection ──> SchemaLifecycle
AdminCalls ──> AdminApplications, AdminStatistics ──> AdminPanel
```

An arrow is EXTENDS: the extending module takes the other's state and actions, and its
`Next` interleaves them with its own.

### ServiceCatalog

`setting[s]` is the committed row (`unborn`, `live`, `gone` — ids are SERIAL and never
reused), `edit[e]` how far an admin request has come. A handler is cut at its database
calls: `LoadPatch` / `LoadDelete` are the unlocked SELECT with the checks made on it,
`FlushPatch` / `FlushDelete` the UPDATE or DELETE with its COMMIT, `Refresh` the
`db.refresh` in a new transaction. `Changed` is the ORM's rule that an UPDATE sets only
the columns whose value differs from the loaded one: the heart of what two admins can
do to each other. `EditorStep` takes the locks of other components as parameters
(`locked`, `referenced`, `awaited`); the catalog alone runs with empty ones.

### OrderIntake and ExactlyOnceOrders

`req[r].pc` names the next statement of a POST: `claim` (INSERT of the key), `service`
(SELECT FOR UPDATE and the checks of `_create_application_row`), `commit`, `refresh`;
and for a replay `replay` (SELECT FOR UPDATE of the claim, comparison), `read`,
`reread`. What a transaction has written but not committed is visible to others only
through its locks, so `KeyHeld`, `ServicesHeld`, `ClaimLocked` and `RowLocked` are
functions of where the processes stand, and `order`, `cap` and `claim` hold committed
rows. A deletion goes `delete` → `row` → `capability` → done: it takes the application
row, then by cascade the capability and the claim. Two requests are the same when
their `CanonicalRequest`s are: the model keeps the spelling of the budget apart so
that the canonicalization has something to do.

`ExactlyOnceOrders` is what the client is promised, with neither claims nor locks: an
order is placed at most once per request and never beside another of the same key, and
an answer is true when given. `Contract` in `OrderIntake` is the refinement mapping.
An order may be placed again under a key whose order was deleted: the code forgets the
key with the order (`ON DELETE CASCADE`), and the contract says so.

### MetricSubmission

`Consume` is the conditional UPDATE of `try_consume_capability`, `InsertMetric` the
INSERT with its foreign key check and the COMMIT. `PurgeOrder` adds the capability lock
and the cascade on the metric to the deletion of `OrderIntake`. A submission (capability, then
order row) and a deletion (order row, then capability) can wait for each other;
`BreakDeadlock` is PostgreSQL's detector, which aborts either.

### ApplicationScoring and PriorityBoard

Scoring is a pure function over tables copied from the code. The board has workers that
PATCH and DELETE and readers that list. `LoadPatch` takes a copy, `FlushPatch` computes
`SyncedScore` from that copy (the `before_update` event) and writes the columns that
differ from it. `Count` and `Page` are the two statements of a list request.

### HomeForm

One page load. `Submit` takes the selected card in hand and disables the button;
`CheckPasses` is the end of the re-check's `await`: it reads the budget and the fields
*then*, while the service is the one held since the click. `GiveUp` is every error
that says nothing about the order; the POST it gave up on stays in `flight` and may
still be served. `Serve` is atomic: that is what the intake's contract and
`AdmittedAtCommit` establish.

### AdminCalls, AdminApplications, AdminStatistics, AdminPanel

The admin page as the browser runs it: an action is what happens from an event to the
next `await`. `calls` holds what is in flight; `Answers` says what may come back, and
when. `Load`, `LoadOverview`, `OpenModal` and the others are the synchronous parts
before an `await`, `ListArrives`, `OverviewArrives`, `DetailArrives` the rest after it,
`SectionExpires` the 401 that all of them hand to `handleSessionExpired`. `Leave` is the
router, which puts the home page into the root element and tells the admin page
nothing. `TokenAfter` is `request` in `client.ts`: a 401 clears the stored token before
the flow that made the call has learned of it.

### BehaviorAnalytics and AnalyticsReports

The first holds the pure operators, in the order in which `build_overview` applies them:
what counts of a damaged row, totals by name, rankings cut off at `TopN`, shares, means
and medians. The second has the endpoints with their two reads each, between which
transactions that began earlier commit: `created_at` is the instant a transaction
*begins*, so a row may appear behind the moment that has already been read.

### SchemaIntrospection and SchemaLifecycle

`SchemaIntrospection` has the schema three times, as the code has: what the migrations
build (`SchemaAt`), what the adoption expects (`LegacyTables`) and what the guard expects
(`CurrentTables`), together with `TableProblems`, the comparison of
`describe_table_problems`. `ShapeFits` is the reference: what a table must be for the
code of a revision to work with it. `SchemaLifecycle` runs the programs: `RunStatement`
one statement of bootstrap or finalize, `Migrate` one transaction of Alembic,
`VerifyShape` ... `Stamp` the adoption, `ReplaceBackend`, `Boot` and `PlaceOrder` the backend
of either release, `Interrupt` a crash of any of them.

### Abstractions

* An UPDATE and its COMMIT are one step: between them the transaction holds one row
  lock and waits for nobody. A transaction that writes two rows is cut between them.
* Every request is sent at most once per process name; a retry is another request.
* `Fail*` stands for a database error, a dropped connection and a dying process alike:
  the open transaction rolls back, the caller gets a 500 or nothing. All state that
  survives is in the database, so a restart is the next request.
* The DELETE of a service that waits for a foreign key check does not hold the
  service's row lock in the model; the order that could be waiting for that lock finds
  the service either there or gone, as it does in the model.
* The `IntegrityError` branches that no interleaving reaches have no action.
* Budgets are small naturals, free texts one value or one column, a name blank or not;
  of the text of an application only the markers its words set off are kept.
* The connection pool is not modelled.
* `HomeForm` knows no deletion of orders, and its admin edits the catalog once at most
  (see "Observed").
* In the admin page the generation counters are one flag per call, `current`: all the
  code does with a counter is to compare it with the one captured before the `await`.
  Which services, rows and figures an answer holds is left out, except how many pages
  there are.
* The statistics share the clock of one host. `Revise` is one step: whether the PATCH
  of a metric loads before it writes makes no difference to one who reads committed
  rows. Names are numbers in alphabetical order, rounding ties go up.
* One adoption runs at a time, and its operator does not change the database beside it
  by hand. The five grants that open the database and the schema are one statement.
* Columns that all three descriptions of the schema treat alike are one column.

### Observed, without a run of its own

Orders and their keys:

* `RetryOnlyAfterDeletion` allows a "please retry" for a key whose holder was deleted;
  the comment of the code speaks of a rollback in that place. A rolled-back claim lets
  the waiting INSERT succeed, so the rollback never leads there.
* A retry after the deletion of its order places it anew (see the contract above).
* With two edits of the catalog (off, then on again) a first try that Nginx gave up on,
  served after a second one was refused, would place a second order: the 422 drops a
  key that is still in flight. This is why `ResendingIsSafe` assumes one admin request.
* When the answer that carries the capability is lost, the replay carries none, and the
  metrics of that order are never sent (`home.ts:625`).

Metrics and statistics:

* The 409 that `routes/behavior_metrics.py:67-71` provides for an order deleted
  meanwhile is never sent (`ConflictNeverAnswered`): the submission holds the capability
  that the cascade needs, so the race ends in a deadlock, whose victim may be the
  submission (a 500) or the deletion.
* An application whose metric is deleted between the two reads of an overview is reported
  as one without metrics.
* The total and the page of a prioritized list are two snapshots, and two pages are two
  requests: a row whose score changes in between is seen twice or never
  (`crud/application.py:381`).

Scoring:

* The fleet manager is worth more points (8) than a company or a dealer (6), but is not
  among `_CORPORATE_REQUESTER_ROLES` (`application_scoring.py:214`), so such an order is left
  to the service or detailing team unless something else makes it corporate or fleet. A
  changed task type may lower the score although its own points rise, since the words
  of the text are paid only for some types. `BetterAnswersNeverCost` leaves the task
  type out for this reason.

Admin page:

* A 401 to a call of an older session clears the token of a newer one
  (`client.ts:140-146`); `PanelShowsOwner` allows for it.
* When the total shrinks, "next" or a refresh may end on a page beyond the last one,
  which says that nothing was found (`adminApplications.ts:866`); the comment near
  `adminApplications.ts:655-660` calls it impossible.
* Several reloads of the service list may be on their way at once; the last answer wins,
  not the last request (`admin.ts:652`).

Schema and first start:

* A database that was never stamped but has the newest tables passes the guard, so a
  backend may serve it before the grants; `ServingCanWrite` is about databases under
  Alembic.
* Two adoptions at the same time could stamp 0001 over a head that was migrated between
  the check of the one and the stamp of the other.
* A bootstrap that is rerun while a backend serves grants it `alembic_version` until the
  REVOKE at its end; `bootstrap_roles.py:16` speaks of zero access. `FinalizeSeals` is
  about the end.
* The adoption reads the sequence before the largest id, so an order that comes in
  between may make it refuse; it then only needs to be run again (`RerunsConverge`).
* Orders that the previous release takes between the migration and its replacement get
  the default score 0 (revision 0004, line 90) until they are patched.
* A failure of the first administrator's CLI after the COMMIT reports that nothing was
  created (`cli.py:110-113`).

## 3. Runs

| Run | What it shows | Bounds |
|---|---|---|
| `intake` | one order per key, claims follow orders, the checks hold at commit, a service with orders stays, no lost column, no resurrection, every call is answered; the contract | 3 requests, 1 key, 1 service, 2 admins, 1 deletion, in three families |
| `metric_submissions` | one capability, one metric; no 409; every call is answered | 1 order, 2 submissions, 2 deletions, 1 clerk |
| `catalog_whole_row` (violation) | two saves of the whole form invert the range | 2 admins |
| `board` | badge and filter agree, better answers never cost, a quiet PATCH repairs the score, a page is the top | 2 applications, 2 workers, 1 reader; every combination of answers on 1 application |
| `board_overlap` (violation) | overlapping PATCHes leave a wrong score | 1 application, 2 workers |
| `form_retries` | lost, late and repeated POSTs never order twice unannounced, and a success is true | 3 POSTs, 1 service, 1 admin |
| `form_key_dropped` (violation) | a 409 drops the key of a placed order | 2 POSTs, no admin |
| `form_summary` (violation) | the order leaves for another service than the one shown | 1 POST, 2 services |
| `schema_lifecycle` | what is stamped was verified, ids stay free, the guard keeps its promise, rights, and reruns converge | 41 databases, ids up to 2, 1 interruption |
| `analytics` | the two reads belong together; rankings, shares, the two endpoints agree | 3 applications, period 2, time up to 3, 2 changes, top 2 |
| `admin_panel` | what is shown is what the controls ask for, nothing waits in vain, no foreign token | 2 calls in flight, 2 tokens, 2 of everything else |
| `admin_home` (violation) | a late answer of the gate paints over the home page | as above |

**Why the bounds suffice.** A conflict in the backend is between the transactions
that meet on one row, so one service, one key and one order already hold every
conflict; what matters is how many transactions meet. `intake` starts in one of three
families: `Rush` has three orders under one key (the same order twice, in two spellings,
and a different one) and a deletion; `Mixed` two orders with or without a key, an admin
and a deletion; `Admins` two admins alone. Two requests race, and the third is the retry
that comes after the deletion or overlaps with it. Amounts 0..2 give budgets inside,
below and above a range, and ranges that cross. Services may start unborn, offered,
switched off or nameless. The admins of `intake` never move the lower bound, since
otherwise the range may be inverted (`catalog_whole_row`).

`board` takes the two ends of every table and the budgets at and just below a tier, on a
board of one application; two applications with few contents lie on both sides of the
borders between levels. Three POSTs are needed for a lost answer, the refusal that drops
the key and the second order.

`analytics` joins two families: two applications at every stage of their lives around the
borders of the period, where the interleaving matters, and every mixture of three stored
metrics, one of them damaged, where the figures matter. Three names and a top of two
leave one name out. `schema_lifecycle` starts empty, from the legacy tables, from each
kind of managed database, and with one thing wrong at a time: the comparison looks at
columns and constraints one by one, so a pair of faults adds nothing. One interruption
reaches every cut between two statements, and the chain is run again after it.

`admin_panel` needs two calls in flight for one to overtake the other, and two tokens for
an older and a newer session. `OneTabUsed` is a constraint: a state in which both tabs
were used is checked and not followed further, since the two tabs share nothing but the
calls and are left through the same action. The theorems of section 4 have none of these
bounds.

**Deadlock** is checked in every run. The `*Terminating` and `*Done` actions let finished
runs stutter; in every other state without a step TLC reports a deadlock, so a cycle of
waits would be found. Users, operators and admins can nearly always act, so that this
check is weak for `HomeForm`, `AdminPanel` and `SchemaLifecycle`.

**Symmetry** is used in `admin_panel`, which has no liveness property, over call slots and
tokens that the specification does not tell apart.

**Fairness.** `RequestsAnswered` and `MetricCallsAnswered` assume weak fairness for the
steps of a call that has *begun*: a thread of the pool that is not blocked goes on, and
a row lock is granted when it is free. Nothing is assumed about calls being sent, nor
that failures happen or not: with `Fail*` not fair, the calls must end without them.
In the metric module the deadlock detector is fair as well, since PostgreSQL runs it
after `deadlock_timeout`; without it the two deadlocked calls wait for ever. Strong
fairness is not needed, as each row can be taken only finitely often.

`RerunsConverge` assumes that a program which has begun goes on (`ChainStep`,
`AdoptionStep`), that Docker starts a container again that refused (`Boot`), that the
operator starts the chain again when it has stopped, and starts the adoption again as
long as the database has no version. Interruptions are not fair and there are finitely
many. Orders are never needed.

## 4. Proofs

All are checked by `tlapm` for every value of the constants, from the named
assumptions of the modules (`MaxAmountAssumption`, `JobsAssumption`, `AsksAssumption`, ...).
Most say only that the constants have their types and that requests pass the schema
validators. `DatabasesAssumption` of `SchemaLifecycle` says what a database *under Alembic*
has when it is found, namely the tables of its revision and a sequence ahead of its ids,
and nothing of one without a version; that of `AnalyticsReports`, that no row is of the
future, no metric older than its order, and that the stored content has the shape
`Content`: lists of named entries with integers in them, negative ones standing for
whatever the extraction refuses. `IdsAssumption` and `ApplicationsAssumption` make a
database finite, so that its rows can be ranked and counted.

* **IntakeProofs.** `TypeCorrect`; then `IntakeInv` is inductive (`InvInit`,
  `InvStep`, `Invariance`). `OneLiveOrderPerKey` is not inductive: that a commit cannot
  produce a second order depends on who may stand before it. The invariant adds
  `HoldersExclusive` (an uncommitted claim is the only row under its key),
  `PlacedWhenCommitted` and `PathFollowsHeader` (control location against data),
  `ReplayKnowsOrder` (a replay with the claim locked points at a live order that is
  the same), `HeldServiceAdmits` (the checks stay true while the service is locked,
  because every admin write waits for it) and `DeletionExclusive`. From it follow
  `AtMostOneOrder`, `ClaimsFollowOrders`, `ReplayNeverFails`, `ServicesKept`,
  `RetryHasReason` and `AdmissionChecked`. `IntakeKeepsContract` is the refinement:
  initial states map to initial states, and each action to a named contract action or
  a stutter.
* **CatalogProofs.** `RangesStayOrdered` assumes `OneBoundMoves`: no PATCH ever moves
  the lower bound, or none the upper one. Without it the claim is false
  (`catalog_whole_row`). The invariant adds that a pending UPDATE is in order with
  what is stored *now*. `CatalogTypes`, `NothingCollateral` and `DeletedForGood` need
  no assumption; they rest on `WritesWhatWasSent`.
* **IntakeProofs, the submissions.** `SubmissionInvariance` carries the intake's
  invariant together with `SubmissionInv`, whose `ConsumersExclusive` says that who has
  consumed a capability keeps every other submission, and the cascade, away until it
  commits. From it `MetricTypes`, `NoConflict`, `CapabilityAndMetric`, `OneSubmission`.
* **IntakeProofs, the waits.** What makes `RequestsAnswered` and `MetricCallsAnswered` true
  and is not temporal. `RequestWaits`, `PurgerWaits`, ... name the calls whose next step needs
  a row or key that another transaction holds. `NoWaitCloses`: some call of the intake that
  is under way waits for nobody, since those that commit or read never do
  (`HoldersMove`). `OnlyOneDeadlock`: with the submissions, if all wait, a submission and a
  deletion of its order are `Deadlocked`; no other deadlock exists, for any number of
  calls. `CallsGoForward`: each step of a call raises its `Stage`, so five steps end it.
  Weak fairness of the steps is what liveness adds to these.
* **CollectionFacts.** Lemmas on finite sets for BoardProofs and AnalyticsProofs. The
  library's induction theorems take an operator, which cannot be instantiated here; the
  lemmas take the *set* of the arguments that have the property and use the existence of
  minimal elements instead (`NumbersInduction`, `SubsetInduction`). From them: a sum over
  a set does not depend on the order of its terms (`AddsAgree`), is monotone, splits over
  disjoint sets, and rounded terms add up to the sum give or take the rounding
  (`SumMonotone`, `SumSplit`, `SumRounded`); under a strict total order every rank below
  the size of the set belongs to one element (`RankFacts`), so the sequence that is
  defined by rank is duplicate free, in order, and ends where it should (`RankedList`).
  `PageOf` and `Top` are defined by rank for this reason: which element comes k-th is
  what an ORDER BY or a stable `sorted` with a unique last key says.
* **BoardProofs.** `ScoreInRange` and `BandsPartition` about the scoring rules, and from
  them `BandsMatch`; `BetterAnswersPay`, by the lemma `BetterAnswers`, which goes through
  the answers one by one, for every application there could be, and `SalePaidOnce`;
  `QuietPatchesHeal`; and `OneWorkerStaysInSync`: with one worker a copy is always fresh
  (`CopiesFresh`), hence the stored score right. With two it is false (`board_overlap`).
  `PagesShowTop`: `Outranks` is a strict total order on the rows (`OutranksOrders`), so
  `PageFacts` follows from `RankedList`; for scores in sync the order of the stored
  columns is that of the true scores. `BoardTypesOK` closes the types over the pages.
* **FormProofs.** `FormInv` says which tries exist and what the handler holds where
  (`PathKnown`), that the key at hand is that of the last try unless it was told no
  (`KeyKnown`), that a key is only changed after a refusal (`KeysChangeForReason`), and
  that answers are true to the orders (`AnswersTrue`). `SuccessIsTrue` follows without
  any assumption. `ResendingNeverDoubles` assumes `OneAdmin`: a try is then fresh while
  no admin has committed anything, and once one has, a refusal stays one, because a
  catalog that changes once does not change back (`Fresh`, `RefusedForGood`).
  `FormTypes` assumes `OneBoundMoves`, for a card whose bounds have crossed has no budget.
* **SchemaProofs.** The hand-written lists ask for what the migrations build
  (`FingerprintMatches`, `GuardMatches`); a table in which the comparison finds no problem
  fits (`AcceptedFits`); the migrations take a fitting schema to a fitting one
  (`UpgradeFits`). `LifecycleInv` carries this over the programs: an adoption
  under way on a database without version has verified tables (`AdoptionFits`), the
  tables of a managed one belong to the migration role (`LegacyOwned`), its sequence is
  ahead, and has been since it was read (`IdsAhead`), and after each statement of the
  script the rights up to it are given (`RightsGiven`). From it the seven theorems on
  stamps, refusals, ids, upgrades, serving and sealing, and `RevisionOnlyRises`.
* **AnalyticsProofs.** `MetricsHaveOrders` and `OrdersHaveMetrics`: a metric before the
  end of the period was sent before the overview was asked for, so its order was there
  at the first read unless it is older than the period. `AnalyticsInv` holds what the
  first read has seen. `PeriodsPartition` is about the window alone. The figures rest on
  `FiguresInv`: the report a request holds is that of the rows it has read, which are
  finitely many and of the shape `Content` (`ReportsShowRows`). What is computed from such
  rows is a matter of the operators: extraction and merging give weights, that is,
  functions from a finite set of names to naturals (`ButtonCountsWeight`,
  `SectionPartWeight`, `MergedFacts`), `Top` ranks them (`TopFacts`), and a rounded share
  lies within half a hundredth (`ShareRounded`). From these `TopsDominate`, `SharesOfAll`
  and, as a merged weight is at least that of each part, `DetailsWithinOverviews`.
* **PanelProofs.** `PanelInv` says of each call what its answer is for and, while it is
  current, that the panel has not moved on (`Fits`), that one flow at most decides what
  the root element shows (`OneFlow`), and what the tabs may show (`TabsFit`). From it
  `OwnerShown`, `ListFollowsControls`, `StatisticsFollowPeriod`, `HiddenTabsStayAtRest`.
  `NobodyWaitsInVain` needs more: `WaitInv` adds that the statistics tab is active only
  while it is the tab shown, since a second activation would give up its call and then
  refuse to load anew. A step keeps it because each kind of call that is awaited is either left alone
  (`Kept`), or replaced by a younger one, or answered together with its "loading".

**Proved, and in no run.** The inductive invariants and those type invariants and
properties that follow from them: `IntakeInv`, `SubmissionInv`, `MetricTypeOK`,
`LifecycleTypeOK`, `AnalyticsTypeOK`, `FiguresInv`, `BoardTypeOK`, `PanelTypeOK`,
`ReplayFindsOrder`, `VersionNeverFalls`, `SaleNotPaidTwice`.

**Only model-checked.** The liveness properties `RequestsAnswered`, `MetricCallsAnswered`
and `RerunsConverge`: liveness under fairness is beyond the prover (for the first two, see
the waits above). Every other property of the runs is also a theorem. The theorems about
figures are about rankings, counts and shares; of the averages and medians no property is
stated.

## 5. Findings

1. Concurrent PATCHes of a service commit `budget_min > budget_max`
   (`crud/admin_setting.py:70`), which `utils/format.ts:25-26` calls impossible.
2. Overlapping PATCHes of an application leave a `priority_score` that belongs to
   neither (`crud/application.py:422`), against "always-in-sync" in
   `models/application.py:68`.
3. `pages/home.ts:648` drops the key on a 409 that proves an order exists, against the
   comment at `pages/home.ts:34-36`.
4. `pages/home.ts:599` sends the service held since the click with the fields of the
   moment after the re-check, while the summary shows the newer selection.
5. `main.ts:18` shows the home page without beginning a new render of the admin page,
   whose late answers then paint over it, against the comment at `admin.ts:40-43`.

## 6. Not modelled

* **Behavior metrics collection.** Counters of one page, each kept by one synchronous
  handler; no two of them meet, and what a unit test cannot reach is not there. When the
  metrics are sent belongs to the order form, after its success.
* **First administrator.** One operator, once, by hand; an advisory lock taken before
  the check makes two of them sequential.
* **Configuration, sessions, errors.** No state changes but the rollback, which is in
  every `Fail*` action.
* **Nginx, Docker registry.** Third-party configuration. Nginx's timeout is an answer that
  never arrives; the order of the Compose services is in `SchemaLifecycle`.
* **Of modelled components:** text search and the plain list of applications (reads
  without an order to keep), templates and formatting, password hashing and the form of
  a token, the content of the service list in the admin panel and its dialogs, the
  length limits of the schemas, downgrades (no service runs one).
