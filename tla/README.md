# A verification of aidcp-api

TLA+ models of the API service of aidcp, the TLC runs that check them on small
instances, and the TLAPS proofs of what holds for every value of the constants.
Paths below are relative to the repository (`src/...` is its source tree,
`test/...` its tests); a bare file name is a file of one of the directories of
`src/`.

Contents: [1 The system](#1-the-system), [2 Inventory](#2-inventory),
[3 Modules and code](#3-modules-and-code), [4 Runs](#4-runs),
[5 Findings](#5-findings), [6 Proofs](#6-proofs),
[7 Assumptions and limits](#7-assumptions-and-limits),
[8 Not modelled](#8-not-modelled), [9 Plan](#9-plan).

## 1. The system

aidcp-api is one of three services (api, automation, content) that write,
review and publish posts and comments for customers' social accounts.

- It owns the PostgreSQL tables of accounts, customers, drafts, approvals and
  configuration.
- It serves people: the console (panel), the customer app (client API) and
  Feishu cards and commands.
- The automation service drives the browsers. It asks the API for authority
  ("is this draft approved?") and configuration, and reports what happened, over
  internal HTTP. The API calls it too: it triggers publications, scheduled
  tasks, and the clean-up of environments.
- Two deployments (`dev` and `ol`) share one database and are kept apart by an
  `execution_target` column; a deployment may have several processes.

A process is one Node.js event loop. Code between two `await`s is atomic; a
handler that awaits five statements or calls has four places where everybody
else may run. PostgreSQL makes a statement, or an explicit transaction, atomic.
Calls to the other services may be lost, answered late, answered twice, or
answered to a process that has died. The models are about this: their steps are
the stretches between two awaits.

## 2. Inventory

| Component | State and operations | Interacts with | Hard part | Correct when |
|---|---|---|---|---|
| **Publish approval authority** (`publish-approval-store.ts`, `-api.ts`, `-outbox-relay.ts`) | decision table (request, revision → verdict, target, dispatch state), outbox; `record`, five compare-and-set operations, relay pass | everybody who decides; the executor; the automation service's trigger | `record` computes its round in a statement whose snapshot may be stale, and reads the winner back in another; relay passes overlap and die | first writer wins, rounds have no gaps and only move forward, answers are true, one command per approval, none lost |
| **Draft review and edit doors** (`client-publish-approval.ts`, `draft-image-remove.ts`, `publish-log-store.ts`, doors of `panel-server.ts`, `ws-receiver.ts`) | the draft (status, `content_version`, content, plan); approve, reject, edit, refine, remove an image | decision table, executor | check version, read approval, edit plan, write decision are separate awaits in three channels | what is published is what was reviewed; a verdict told is the verdict in force; nobody's approved draft is taken away; no draft locked for ever |
| **Publish log, stage lifecycle, watchdog** (`publish-log-store.ts`, `publish-stage-lifecycle.ts`, `client-publish-queue.ts`, `pending-dispatch-watchdog.ts`) | a post's record, its schedule and shadow copy; projections of it; approvals already reported | executor, reconciler, people | blind updates against guarded ones; the shadow is written outside the statement; a page is four reads of three services at different moments; sweeps overlap | a published post stays published and is confirmed once, attempts are bounded, a page misses no post and asks for no decision that was made, an overdue approval is reported |
| **Environment offboarding** (`offboard-admission-ledger.ts`, parts of `client-user-store.ts`) | ownership, holds, command receipts, snapshot cursor; revoke, grant, materialise, claim, receipt, reconcile | the owner of the clean-up in the automation service, its workers | what the API knows of a clean-up is a snapshot of another time | an environment is given away only when clean; leases and repeated receipts are respected |
| **Content scheduler** (`content-scheduler.ts`, `api-content-scheduling.ts`, hour claim of `content-schedule-store.ts`) | in memory: last hour fired, retry windows, in-flight sets; in the database: hour claim, drafts counted | automation service | checks several awaits before it fires; answers and reports come later; memory is lost in a crash | bounded attempts per hour, no overlap, nothing done twice, limits hold |
| **Configuration mirrors** (`config/mirror-*.ts`) | version per key, signals, copies, freshness, refusal buckets | every store; gates of dispatch | a write between load and baseline; a reload that fails while the version is read; a round without a deadline | a copy older than allowed stops work and, while rounds end, is reported |
| **Configuration stores** (schedule, role, category, hot lead, model, comment, group join, rule mode, group comment, persona) | one row, one copy per process, patches | mirrors, scheduler, edges | patch merged with a copy that other processes outdated | a copy holds what was committed, a patch changes what it carries |
| **Facebook operation policy** (`facebook-operation-policy-store.ts`) | global and environment policies, inheritance, slow start, audits | console, customers, scheduler | locks in order, decisions from a copy of the global policy | writes by owners only, graduation stays, content moves the version |
| **Sync-read** (`api-sync-read-*.ts`) | snapshots with cursors, checkpoints of consumed streams | automation and content services | cursor read in the database, content partly in memory | one cursor means one content; a checkpoint never goes back |
| **Customers and environments** (`client-user-store.ts`, `approval-policy-store.ts`) | environments, bindings, owners, provisioning intents, proxies, slow start | edges, console, customer app | reports check other rows without a lock; copies are rebuilt by query and assignment; completions lose their answers | a copy that took the newest answer is true; an account is contested only where a report was overtaken; an intent makes one environment |
| **Client API server** (`client-auth-server.ts`, `rate-limiter.ts`) | tokens, limiter; doors of a customer | all stores above | ownership changes between a door's gate and its act | a door acts within its customer's reach and leaves nothing when it refuses |
| **Account store** (`account-store.ts`, `account-state.ts`) | rows, defaults, platforms and pauses in memory | handshake, roster of sync-read | seeding after the commit | defaults seeded once, memory agrees with the rows |
| **Interactions** (`interaction-customer-api.ts`) | authorised calls in an open transaction, keyed replays | automation service | the answer is lost, the key is used again; a call holds one connection of a pool and asks for a second | a key's command is carried out once; each call ends unless calls hold the whole pool |
| **Reply configuration** (`reply-config-scope-store.ts`, `-resolver.ts`) | heads and versions of scopes | console, reply jobs | publish validates before its transaction | what is in force was checked; a published version stays |
| **Console server** (`panel/panel-server.ts`) | sessions, revocations; doors of several forms | all stores | pages saved over each other; answers lost after the write | no row for what does not exist; an answer is what was done |
| **Persona auto-fill** (`persona-auto-fill.ts`, `persona-auto-fill-store.ts`) | runs, targets, two maps of work in flight | personas, handshakes | two runs of one account, a handshake beside a run, a restart | who is told "filled in" wrote it; no target left behind |
| Feishu, caches of contacts and chats, first-post onboarding, gateway, composition | small rows, cards, wiring | – | – | section 8 |

`PROJECT.json` lists the components with their sources and status, and the
hazards of the code at their lines, each with the properties that cover it or
the reason why none does.

## 3. Modules and code

| Module | Models | Checked by | Proved in |
|---|---|---|---|
| `PublishApproval` | decision table, `record`, compare-and-set, outbox, relay | `first_writer`, `publishing` | `PublishApprovalProofs` |
| `DecisionRegister`, `PublishApprovalRefinement` | what the authority promises (an atomic register of rounds), and the mapping to it | `first_writer` | `PublishApprovalProofs` |
| `ContentScheduler` | ticks, triggers, answers, reports, hour claim, drafts | `first_writer`, `schedule_*` | `FirstWritersProofs` |
| `PersonaAutoFill` | runs, targets, handshakes, restarts | `first_writer`, `fill_resume` | `FirstWritersProofs` |
| `DraftApproval` | one draft, its deciders, editors and executor | `drafts`, `review_plan` | `DraftApprovalProofs` |
| `PublishLog`, `PublishLifecycle` | a post's record and shadow, reconciliation; what people are shown | `publishing` | `PublishingProofs` |
| `DispatchWatchdog` | sweeps over overdue approvals | `publishing` | `PublishingProofs` |
| `ConfigMirror` | versions, signals, rounds, gates, alerts, refusal buckets | `configuration` | `ConfigurationProofs` |
| `ConfigStores` | ten stores by how they check, merge, commit and copy | `configuration` | `ConfigurationProofs` |
| `Interactions` | authorised calls on a pool, keys, replies, controls | `configuration` | `ConfigurationProofs` |
| `ClientEnvironments` | bindings, owners, copies, slow start, comment mode | `customers`, `stale_copy` | `CustomersProofs` |
| `Provisioning` | intents, completion and its retries, proxies | `customers` | `CustomersProofs` |
| `ClientApi` | log-in, limiter, tokens, doors (extends `ClientEnvironments`) | `customers` | `CustomersProofs` |
| `Accounts` | rows, defaults, platforms, pauses, roster | `customers` | `CustomersProofs` |
| `Customers` | the four modules above in one behaviour | `customers` | `CustomersProofs` |
| `FacebookOperationPolicy` | global and environment policies in locked transactions | `console` | `ConsoleProofs` |
| `SyncRead` | snapshots of every kind of stream, checkpoint | `console`, `cursor_drift` | `ConsoleProofs` |
| `ReplyConfig` | scopes, drafts, publication, resolution | `console` | `ConsoleProofs` |
| `ConsoleApi` | every door of the console by its form | `console` | `ConsoleProofs` |
| `OffboardAdmission` | ownership, holds, clean-ups, workers, snapshots | `console` | `OffboardAdmissionProofs` |
| `FirstWriters`, `Publishing`, `Configuration`, `Console` | parts side by side, and the conjunctions of their properties that a run checks and a theorem states | the run of that name | the module above |
| `MC*` | small instances | | |

Each module begins with what it models and what it leaves out. Definitions
marked *faulty variant* are plausible bugs of the definition they stand before.
No behaviour uses them; they exist so that each property can be shown to notice
the bug that it is there for (`mutants` in `PROJECT.json`).

**PublishApproval.** `decision[request][revision]` is the row of
`publish_approval_decision` (`absent` where there is none); `outbox` the command
table in id order. A `record()` call is four steps, as in the code: it computes
the next round from the statement's snapshot (`RecordStart`), inserts
(`RecordInsert`; the partial index of active rows and the primary key decide),
reads the winner back under its own target when it lost (`RecordReadBack`), or
dies. The outbox row is written in the insert's transaction. The five
compare-and-set operations are one statement each; what they answer on a miss is
a second read (`ResolveCasMiss`). A relay pass lists the oldest `RelayLimit`
commands, retires legacy comment commands, triggers, and confirms; the trigger
may arrive and its answer be lost, and a pass may die anywhere.

**DraftApproval.** One draft and its rounds. A decision starts with what the
decider saw (`Look`) and goes through the customer's handler (`ClientLoad`,
`ClientReadApproval`, `ClientPlanEdit`, `WriteDecision`), the Feishu callback
(`FeishuCheck`, `WriteDecision`) or the console (`PanelCheck`, `PanelWrite`,
`PanelReject`): one action for each stretch between awaits. Rejection reaches
the draft by a call nobody waits for (`MaterialiseRejection`), which may fail.
Edits are compare-and-set on `content_version` under the row lock; console and
image removal first look for a decision, customers and AI refinement do not.
The decision table appears as what `PublishApproval` shows of it: a sequence of
rounds, first writer wins. The executor is external and follows the interfaces
the API gives it: claim, load, compare versions, publish or void, consume.

**PublishLog, PublishLifecycle, DispatchWatchdog.** A call of the store is two
steps, the authoritative statement and the shadow's, and may fail between them.
`Reconciling` passes list scheduled posts, get an answer about the platform, and
defer or confirm. `PublishLifecycle` adds the run, which asks this process to
insert the record (`RunInserts`) and learns its id in a later step of the content
service (`RunNotesResult`, external); between the two the run may give up. A page
is the reads in the order of the code: the queue of the content service, then the
waiting and the recent records at once, then the decisions (`ReadQueue`,
`ReadPending`, `ReadRecent`, `ReadRulings`), with runs, records and decisions going
on between them. Stage, status and the customer's four stages are operators over
what was read. A sweep of the watchdog lists, prunes what it remembers, and
alerts one after the other; the timer starts another meanwhile.

**OffboardAdmission.** `scope` is `client_env_scope`, `hold` the row of
`client_env_revocation_holds` with its claim columns, `cursor` the snapshot
state. `Revoke` withdraws ownership and leaves the hold in one transaction;
`PushCall`/`PushRecord` are the two halves of `materializeAdmission`, which runs
after the answer was sent; `Claim`, `WorkerMaterialises`, `RecordReceipt`,
`LeaseExpires` are the worker protocol; `ReadSnapshot` and `Reconcile` the
snapshot loop, which may apply a snapshot late, twice, or not at all. Instants
are stamps of the owner's clock that no two events share; the database's clock is
`Lag` behind it. The history `early` has the clean-ups whose hold was released by
a snapshot read within `Lag` of its note.

**ContentScheduler.** `MinutePasses` is the timer: it starts a tick unless one
is under way. A tick takes one account at a time and its actions in order
(`Gate` at the synchronous checks, then `AskIdle`, `CountPosted`,
`CountPending`, `ClaimPostHourCell`, `Fire`), and may give up at any question,
because any question may be answered "no" or fail. Time passes during a tick, so
a tick can outlast its minute or its hour. `Settle` handles a trigger's answer,
`ReportNotStarted` a late report, and `ReleaseHourCell` is the shared bookkeeping
of hours and retries. `Crash` loses all of the memory.

**PersonaAutoFill.** `fillRun` and `target` are the two tables, `runner` and
`worker` the maps of work in flight with the await each is at. `RunnerLists`,
`RunnerWaits`, `RunnerEnds` are `processRun`; `Resolve`, `ClaimTarget`,
`SetPersonaIfMissing`, `MarkTarget`, `RefreshRunState` are `processTarget`. A
handshake binds an environment, then lists and schedules the targets that wait
for it. The process's copy of the personas may lag behind the table.

**ConfigMirror, ConfigStores.** `ConfigMirror` has versions that move with a
write of the API or by a signal delivered at least once, rounds that compare and
reload, and the ages, gates, alerts and buckets that follow. A round has no
deadline and may never end; the history `longest` has the length of the longest
one that did. `ConfigStores` runs
the same write and reload against one row for each of ten stores: what it
checks, whether the patch is merged with the copy or in the statement, whether
the write moves a version, when the copy is assigned.

**ClientEnvironments, Provisioning, ClientApi, Accounts.** A report is a gate
read, an upsert, a query and an assignment of the copy, four steps; owners are
changed by the console; the history `past` has what each report and each rebuild
of the copy has seen, so that a copy can be compared with what its process had
before and a report with what moved between its gate and its write. `Provisioning` extends it with the completion
transaction and the answers it may lose; `ClientApi` with a request that passes
token, status, gate and act. `Accounts` is the first handshake (insert, then
defaults), hydration and the roster in two servers. `Customers` lets all of them
happen in one behaviour: a completion while a door is between its gate and its
act, a report beside the edit of a proxy. What an edit of a proxy holds, the row of
`client_environments`, is what `setScope`, `updateUser` and
`beginEnvironmentOffboard` lock (`lockEnvironmentRow`) before they change an owner,
so an owner stays while its row is locked (`OwnersUnlocked`).

**FacebookOperationPolicy, SyncRead, ReplyConfig, ConsoleApi.** A policy write
locks the environment, then its policy, decides with the copy of the global
policy, commits, and is followed by a reload. A global write locks the global row
and sees whose slow start is over (`LockGlobal`), marks those once their rows are
free (`MarkGraduated`), locks the inheriting rows (`LockInheriting`), sees whom the
new days graduate (`SeeShorter`), and marks them and commits (`CommitGlobal`); an
environment's own write may come between any two of these. `SyncRead` has one pull per way of reading a stream
and the checkpoint's guarded upsert. `ReplyConfig` saves and publishes in
transactions and resolves in three reads. In `ConsoleApi` a door is a record of
how it checks that its subject exists and how it saves (at a revision, by field,
merged, as a whole); each door of `handle` is one such record, mapped
to its lines.

**Interactions.** A call takes a connection, locks the scope, and holds both
until the automation service has claimed the key, acted and recorded the answer;
each of these may fail after it was done. It reads the configuration on a second
connection while it holds the first. Nothing limits the time of a wait or keeps
the calls fewer than the connections.

## 4. Runs

A run checks several parts that share no state: a variable `part` is chosen in
the initial state and the actions of the other parts are disabled, so the state
spaces add up instead of multiplying. Its properties are conjunctions of named
ones, listed below; `FirstWriters`, `Publishing`, `Configuration`, `Console` and
`Customers` define them for their runs, so that a run and a theorem are about the
same formula.

| Run | Parts and instance | Questions |
|---|---|---|
| `first_writer` | *register*: one request, three concurrent `record` calls (two of `dev`, one of `ol`), a compare-and-set caller, two rounds. *account*, *accounts*: posts and comments due in one minute, two hours of three minutes, a retry, a crash. *runs*, *batch*, *fault*: two fills of one persona, one over two environments, one with people, failing statements and a restart | Is the table a register that decides each round in one step (`ImplementsRegister`, `NewestIsActive`, `RoundsContiguous`, `RoundsMoveForward`, `RejectionStays`), are answers true (`ToldTruth`, `MissExplained`)? Are an hour's attempts bounded, without overlap or double effect (`HoursHold`)? Does the fill that says it wrote the persona have written it, and is no target left behind (`FillsHold`)? |
| `drafts` | *content*: a decider who may move the plan, an editor, two edits. *rounds*: two deciders, an editor. *plans*: two deciders who move the plan | Is what is published what was reviewed (`PublishedWasShown`), are answers true (`VerdictHonoured`), is no approved draft taken away (`RejectedByDecision`), is an outdated approval voided (`OutdatedApprovalIsVoided`)? |
| `publishing` | *relay*: two passes over a publication and an old comment command, a void at any point. *log*: one record, two calls in flight, two attempts. *page*: its run and one page, whose reads any step may separate. *watchdog*: two approvals, two sweeps | Does each approval have its command and arrive (`CommandsFollow`, `ApprovalReachesAutomation`)? Is a post confirmed once, watched while it is scheduled, never taken back (`PostSettles`, `PostSteps`)? Does a page put together from four reads miss no post, ask for no decision that was made, hide no approval, and is there no alarm without a reason (`PeopleAreTold`)? Are scheduled posts settled and stalls raised (`PublishingProgress`)? |
| `configuration` | *versions*, *refusals*: a gated key and one that only alerts, three ticks, two refusals; rounds that hang. *store*: each store (categories merge as roles do, `hot_lead` as comments), two processes, two writers. *keys*, *reply*, *pool*: two calls of one customer, two connections, so that the calls can take them all | Do copies hold what was committed and rounds record what they loaded (`CopiesHold`)? Is a key's command carried out once, and by a customer in reach (`CallsHold`)? Do patches change only what they carry, are writes made to what was seen (`ConfigurationSteps`)? While rounds end, are old copies reported, and does each call end or are all connections held by calls that wait for a second (`ConfigurationProgress`)? |
| `customers` | *bindings*, *switches*: two customers, two environments, two reports, the refresher. *completing*, *editing*: two intents, two calls. *logins*, *doors*: two attempts, one request at each door. *accounts*: two servers, one row | Is a copy that took the newest answer true of the tables, and an account contested only where a report was overtaken (`BindingsHold`)? Does an intent make one environment (`ProvisionedOnce`)? Do doors act in reach (`DoorsHold`, `CustomerSteps`)? Do memory and roster agree with the rows (`RosterHolds`)? |
| `console` | *policy*: two requests at two processes. *rows*, *policy_read*, *schedule_read*, *consume*: two pulls, two writes. *edits*, *resolve*: two editors, two scopes. *doors*: two visits. *release*, *late*, *claims*: two deployments, two clean-ups, two claims, clocks two instants apart (`Lag = 2`, the least at which a snapshot read before a clean-up passes for one read after its note) | Does a cursor mean one content (`SnapshotsAgree`), do edits add up and is what is in force checked (`EditsHold`), is an answer what was done (`DoorsAnswer`), does an environment change hands clean (`HoldsStand`), what may no step do (`ConsoleSteps`)? |
| `review_plan`, `schedule_claim`, `schedule_cap`, `stale_copy`, `cursor_drift`, `fill_resume` | the smallest instance that shows it | the findings of section 5 |

**Bounds.** Every constant called a bound in the modules caps a counter in a
guard. Two rounds are enough for one to be voided and the next decided the other
way while calls of the first are in flight; three writers for two to lose to
one, one of them in the other deployment. Two edits let an edit fall before and
after an approval. Two hours of three minutes let a tick and its trigger outlast
an hour, and an hour hold an attempt, its retry and one attempt too many. Two
reports, pulls, sweeps, calls or visits let one be overtaken by the other at each
of its awaits; two attempts of the reconciler let the last and one too many
happen. Six stamped events are a clean-up (owner's transaction and note), two
snapshots and their application. Where two processes of a kind are alike, the
second begins only after the first has (`MCCustomers`); `Symmetry` permutes
customers and environments there, and no liveness is checked in that run. Each
property is violated under its run's own bounds by every faulty variant it is
paired with, so none of these cases is out of reach.

**Fairness.** A behaviour is about one part, so a condition such as
`WF(A in part 1 \/ B in part 2)` states the fairness of `A` in the behaviours of
part 1 and of `B` in those of part 2.

- `publishing`: relay passes go on (the timer of `server.ts` starts one every
  interval) and a pass that can proceed does; a trigger that is repeated for ever
  is accepted some time, since a service that refuses one command for ever does
  block the list. The reconciler's timer falls due, its calls end, and of passes
  repeated for ever one gets an answer and is applied. Sweeps start and run on,
  and of sweeps repeated for ever one listing succeeds.
- `drafts`: only that the executor, which sweeps waiting approvals periodically,
  continues.
- `configuration`: the refresher's timer begins a round when none is under way.
  Nothing is assumed to end a round: `runOnce` awaits the table and the reloads
  without a deadline, and ages are evaluated when it returns. `StaleIsReported` is
  therefore about behaviours in which rounds end again and again. A call that waits
  for a connection is served when one is free again and again (strong fairness: the
  pool hands connections out in order of arrival, while other users keep taking
  them), a call that has what it needs goes on, and other users give theirs back.
  That is not enough when the calls themselves hold every connection and wait for
  another, which nothing prevents: `EachCallEnds` says that a call ends or that
  this (`Starved`) has happened.
- `fill_resume`: work that was begun goes on, edges shake hands again and again,
  their notices are handled. The behaviour that refutes the comment satisfies
  all of it.

Deciders, editors, callers, people, losses, refusals and crashes are never
assumed to happen or not to happen. `customers`, `console` and `first_writer`
state no liveness: what their components promise is that nothing wrong is done.

**Deadlock** is not checked: a model stops when its bounds are reached, and every
process modelled may rest. That calls wait for each other for ever in one case
only is `EachCallEnds` (the pool of connections); where the locks of the operation policy
do entangle two writes, the database ends one (`EndOneOf`) and `AuditsInARow` must
hold; that a draft is not locked for ever is `OutdatedApprovalIsVoided`.

## 5. Findings

Where a run is expected to fail, TLC shows an execution in which the code does
something else than its comment says.

- `review_plan` — a customer approves with another publish plan; the plan edit
  raises the version; another decider's approval lands before the write. The
  customer is answered with the new version although the approval in force names
  the old one (`client-publish-approval.ts:224` against its line 98). The
  executor will void that approval: the post is delayed, not wrong.
- `schedule_claim` — a post that the automation service refuses for the moment
  gives its hour back in memory, not in the database; every retry of that hour is
  refused by the claim, and no card reports that the hour was lost
  (`content-scheduler.ts:566` against line 258).
- `schedule_cap` — the daily limit is the sum of two queries; a draft approved
  between them is in neither (`content-scheduler.ts:538` against line 15).
  A draft approved for a later time (`scheduled`) is in neither while it waits.
- `stale_copy` — the copy of the environments is rebuilt by a query and a later
  assignment; of two rebuilds the older query may be assigned last, and the copy
  stays behind the table until the next change, with nothing under way
  (`client-user-store.ts:1319`).
- `cursor_drift` — the content schedule's snapshot takes its cursor and rows from
  the database and the group comment policy from the process's copy; two
  processes send different contents under one cursor, which the reader refuses
  (`api-sync-read-source.ts:322`).
- `fill_resume` — `resume()` of the persona auto-fill is called nowhere; a target
  that was running when the process ended stays running, and its run with it
  (`persona-auto-fill.ts:45`).

Others, met while modelling, that have no run:

- `publish-approval-store.ts:258-334`: the three-attempt loop of `record` never
  retries, because a read-back that finds nothing throws in the first attempt.
- `draft-image-remove.ts:66` takes an approval that cannot be read for none, so
  an image can be removed from a decided draft; line 65 says that the content
  cannot change once a decision stands, and `client-publish-approval.ts:123` that
  an unreadable approval is not an absent one. `PublishedWasShown` holds all the
  same, because the version moves.
- `ws-receiver.ts:392`: a Feishu cancellation checked against the live version
  (line 342) is written after an edit, and rejects the edited draft.
- `publish-stage-lifecycle.ts:408`, `:461` tell of every record in
  `needs_review` that a person rejected it and nothing was sent; a scheduled post
  whose reconciliation ran out of attempts is put there too
  (`publish-log-store.ts:504-505`), and that one was sent.
- `role-config-store.ts:164` says that a patch changes the fields it carries, but
  lines 178-219 merge it with this process's copy and upsert the whole row, so what
  another process wrote meanwhile is undone; so do the other stores that merge
  in memory. The group-join settings are merged in the statement and do not
  (`JoinPatchIsPartial`).
- `facebook-operation-policy-store.ts:1528-1540`: an environment that inherits
  takes the cadence from this process's copy of the global policy, which may be
  older than its row; lines 1553-1557 decide whether a slow start begins anew from
  the completion that the statement saw before it waited for the lock.
- `client-auth-server.ts:2562` (slow start) and `:3085` (clean-up grant) ask for
  ownership once more after they have written: a refusal leaves the write behind.
  `RefusedLeavesNothing` is claimed of the other doors.
- `persona-auto-fill.ts:105`: a handshake's work on a target that was listed
  before its run finished may overwrite `succeeded` with `skipped_existing`.
- `panel-server.ts:2781-2794`: a task whose submission is not answered is told
  as not submitted; `panel-server.ts:1600-1632` replaces a customer's list of
  environments without a revision, so two people overwrite each other; sockets
  of the console stay open after a log-out.
- `server.ts:1605`: pauses are loaded when a process starts; a pause by another
  process is not seen until then.
- `client-user-store.ts:1028` stamps `materialized_at` by the API database's clock,
  and `offboard-admission-ledger.ts:316` compares it with the owner's `observedAt`.
  Where the database's clock is behind, a snapshot that the owner read before it had
  the clean-up, but within the difference of the note, passes for a later one and
  releases the hold while the clean-up runs. `early` has exactly these clean-ups.
  `ReleasedWhenPurged` excepts them and no others, `OwnedIsClean` them and those of
  the next item, for every difference `Lag`.
- `client-user-store.ts:988` says that the owner hands the same row back when an
  admission is repeated, and line 1025 records whatever id was handed back. When
  a clean-up from before the ledger is still running, that is another id, and the
  hold then stands for the older clean-up; a worker that had claimed the
  admission may begin its own after the hold is gone (`StoodIn`). `OwnedIsClean`
  leaves out exactly these clean-ups.
- `facebook-operation-policy-store.ts:1283` says that an increase of the days
  cannot revive an environment that had graduated. The day of a slow start is
  compared with the days of this process's copy, before the transaction (line
  1704), so a day beyond a shortened number can be committed after another global
  write saw who graduates (lines 2694-2710) and before it commits; if that write
  increases the days, the environment is in its slow start again. Conversely the
  statement that marks takes its snapshot before it waits for a lock, so an
  environment whose slow start was begun anew meanwhile is marked as completed.
  `GraduationStays` says what holds whatever is asked for: who was due when the
  write began and is due when it commits is on record as completed, unless its own
  policy was written in between. The run asks for a day beyond a shortened number.
- `mirror-refresher.ts:245`, `:302-305`: a round is skipped while another is under
  way, and ages are evaluated only when a round returns. A reload that hangs is
  cut off by nothing, and ends the alerts about all keys.
- `interaction-customer-api.ts` reads the configuration on a second connection of
  a pool of at most 30 (`server.ts:1321`) while its transaction holds the first.
  As many calls at once as there are connections wait for each other, without a
  limit of time (`Starved`).
- `publish-stage-lifecycle.ts:530-535` leaves a run out when its own snapshot names
  a listed record. The record is inserted here and named there later, so a post is
  on the page twice meanwhile; and a post that stops waiting after the recent
  records were read and before the waiting ones were is on neither list, as the two
  are read at once. `NothingMissing` excepts the latter and claims nothing of the
  former.

## 6. Proofs

A theorem holds for every value of the constants that satisfies the named
assumption of its module (`ApprovalAssumption`, `DraftAssumption`,
`NobodyAssumption`, `LogAssumption`, `WatchdogAssumption`, `SchedulerAssumption`,
`FillAssumption`, `SyncAssumption`, `ReplyAssumption`, `ConsoleAssumption`,
`PolicyAssumption`, `AsksAssumption`, `MirrorAssumption`, `StoresAssumption`,
`PatchesAssumption`, `InteractionsAssumption`, `EnvironmentsAssumption`,
`ProvisioningAssumption`, `LimiterAssumption`, `AccountsAssumption`). They say that a bound is a natural number,
that a "none" is none of the values, that a process serves a request, that a
request is of the form the code's validation lets through, that a limit counts at
least one failure, that environments, log-ins, handshakes and calls are finitely
many, that the default platform is one, and that the size of the pool and the
difference of the clocks are natural numbers; TLC evaluates each of them in a
passing run. No theorem has a hypothesis besides.

Each module has one inductive invariant per component; a theorem follows from it
and from the lemmas that it begins and is kept, one lemma per operation.

| Theorem | States | Of |
|---|---|---|
| `TypeCorrect`, `DraftTypeCorrect`, `LedgerTypes`, `LogTypes`, `PublishingTypes`, `ScheduleTypes`, `FillTypes`, `PartTypes`, `ConsoleTypes`, `ConfigurationTypes`, `CustomersTypes` | the type invariants | every module of a proved component |
| `FirstWriterWins`, `Contiguity`, `AnswersAreTrue`, `RejectionIsFinal`, `MissesExplained`, `Forward` | `NewestIsActive`, `RoundsContiguous`, `ToldTruth`, `RejectionStays`, `MissExplained`, `RoundsMoveForward` | `PublishApproval` |
| `CommandsFollowApprovals` | `CommandsFollow` | the outbox and its relay |
| `TableImplementsRegister` | `ImplementsRegister` | refinement of `DecisionRegister` |
| `ReviewedIsPublished`, `VerdictsAreHonoured`, `RejectionsAreDecided` | `PublishedWasShown`, `VerdictHonoured`, `RejectedByDecision` | `DraftApproval` |
| `PostsSettle`, `PostsStay`, `RunsWriteAsTheLogAllows`, `PeopleAreToldTruly` | `PostSettles`, `PostSteps`, `LifeSpec => LogSpec`, `PeopleAreTold` | `PublishLog`, `PublishLifecycle`, `DispatchWatchdog` |
| `HoursAreKept`, `ActedOrGivenUp` | `HoursHold`; that an hour's action is carried out or given up, never both | `ContentScheduler` |
| `FillsAreKept` | `FillsHold` | `PersonaAutoFill` |
| `LedgerHolds`, `ClaimsStand`, `AnswersStand`, `ReleasesAreEarned` | `HoldsStand` and its parts, `ReleasedWhenPurged` | `OffboardAdmission` |
| `SnapshotsAreAgreed`, `EditsAreInARow`, `DoorsAnswerTruly` | `SnapshotsAgree`, `EditsHold`, `DoorsAnswer` | `SyncRead`, `ReplyConfig` and the policy, `ConsoleApi` |
| `CopiesAreHeld` | `CopiesHold` | `ConfigMirror`, `ConfigStores` |
| `CallsAreHeld` | `CallsHold` | `Interactions` |
| `WritesAreSeen` | `ConfigurationSteps` | `ConfigStores`, `Interactions` |
| `BindingsAreHeld`, `IntentsProvisionOnce`, `DoorsAreKept`, `RostersAreTrue` | `BindingsHold`, `ProvisionedOnce`, `DoorsHold`, `RosterHolds` | `ClientEnvironments`, `Provisioning`, `ClientApi`, `Accounts` |
| `CustomersStepsAreKept` | `CustomerSteps` | `Customers` |
| `ConsoleOverwritesNothing`, `ConsoleStepsAreKept` | parts of `ConsoleSteps`, and all of it | all parts of the console |

**`PublishApprovalProofs`.** Type correctness (`TypeCorrect`) by one lemma per
operation. The safety theorems come from one inductive invariant,

    Safe == Typed /\ RoundsContiguous /\ NewestIsActive /\ RejectionStays /\ ToldTruth

`NewestIsActive` (first writer wins: the only active round of a request is its
newest) is not inductive alone: a call that computed its round long ago could
insert below an existing round. It cannot, because rounds are contiguous and no
call holds a number beyond the next free one, which is `RoundsContiguous`, so
the primary key or the partial index stops it. The compare-and-set operations
are treated together: each of them *advances* a row (`Advances`,
`OperationsAdvance`), and advancing keeps every conjunct
(`AdvanceKeepsSafe`). From it: `FirstWriterWins`, `Contiguity`,
`AnswersAreTrue` (what a caller was told stays true of the table for ever),
`RejectionIsFinal`, and the action property `Forward`.

**`DraftApprovalProofs`.** `DraftTypeCorrect` is the type invariant;
`ReviewedIsPublished`, `VerdictsAreHonoured` and `RejectionsAreDecided` come from

    ReviewInv == TypeOK /\ ClaimsHold /\ ExecutionHonest /\ VerdictsHold /\ RejectionsHold

The idea is that *a version is a promise about content*. Whoever holds a version
together with what he saw under it (a decider in any of its steps, a round, the
executor) holds a claim: either the draft has moved beyond that version, or it
still has that content. Every edit raises the version, so an edit by anybody
keeps everybody's claim; a decider that edits the plan itself takes the new
version with the new plan; and the executor publishes only when the version of
the round is that of the draft it loaded, where both claims speak of the same
content. `ClaimsHold` says this of deciders and rounds, `ExecutionHonest` of the
executor and of what is published. `RejectionsHold` adds why a late rejection
notice is harmless: a rejected round is never voided, since only approved ones
are claimed by the executor, so the rejection is still in force.

Three more theorems of the authority rest on `Safe`. `MissesExplained` adds
`MissedKnown`: a call that missed names an existing row of its own deployment, so
what it reads later explains the miss. `CommandsFollowApprovals` adds `TriggersKnown`:
what was triggered, or waits to be confirmed, is a round of the table; that an
approval and its command commit together, that a command is consumed only after
its trigger arrived, and that only approved publications are triggered, then stay
true through crashes and overlapping passes. `TableImplementsRegister` shows the
refinement step by step: under `Mapped` (`Safe`, and that each round was decided by
a deployment) every step of `PublishApproval` is a decision, dispatch, release,
consumption or void of one round of the register, or a stutter. In particular the
insert is the one moment at which a round is decided, although its number was
computed before and its answer is read after.

**`PublishingProofs`.** The invariant of the log is

    Settled == LogTypeOK /\ SentWaits /\ OneSender /\ UnconfirmedIsOpen
               /\ ScheduledIsWatched /\ PostKnown /\ OwedIsTrue /\ ShadowTellsWhatWas

`PostSettles` is not inductive because the executor's report is an unguarded
update and shadow writes come in any order. `SentWaits` and `OneSender` say why the
update harms nothing: while a record is being sent it is approved and waits, which
excludes every other writer. `OwedIsTrue` says that what a call still owes the
shadow was true of the record, so a late shadow write may hide a later state but
never invents or forgets a post. `RunsWriteAsTheLogAllows` proves that a generation
run writes the log only in ways the log's own specification allows; with it the
log's invariant holds under the lifecycle too. `PeopleAreToldTruly` adds what a page
between two reads still knows (`Accounted`): a run that is no longer listed has left
its record or never will, what one of the lists did not find does not come to wait
any more, and what was approved when it was listed stays approved until the
decisions are read. Besides, `Watched` (what
was alarmed was overdue once), and lemmas about the projections (which stage a
snapshot's keys amount to, what each evidence is shown as).

**`FirstWritersProofs`.** For the scheduler, the invariant `Kept` has three strands. *Time*: what
the memory holds is never later than the tick under way, and a first try happens
only in the action's own minute. *Budget*: while an hour is given back, what was
fired and what is left add up to what an hour has, so a retry cannot exceed it.
*Outstanding work*: a try is in at most one place (a call, a task, a report, an
effect or a card), and in none once its hour is given back; that is why the late
report of a refused task cannot cause a second effect. `ActedOrGivenUp` is stronger
than what the runs check: an hour of an action is not both carried out and reported
as given up. The parts about effects are claimed while no report `strayed` into
another hour.

For the filling in of personas, `Filling` says who owns a target: what its worker is
about to do tells the state of its row, and a row that waits has a worker, a runner
that will list it, or a binding to wait for. `FillsHold` follows; the part about
nothing being left behind is claimed while there is neither a restart nor a failing
statement, which the finding `fill_resume` is about.

**`OffboardAdmissionProofs`.** What a snapshot says is of another time than its
application, so the invariant speaks of all snapshots that may still be applied:

    Ledger == Shape /\ LedgerRecorded /\ Admissions /\ Entries /\ Materialised
              /\ OwnedOrHeld /\ Begins /\ StandIns /\ Runs /\ NoHoldComesBack

`SeenSince(c, at)` is its core: a snapshot observed since `at` names the clean-up
`c`, or `c` is over and no later snapshot names it again. `Materialised` says this
of each noted hold from the moment it was noted, so a snapshot that is young enough
for the hold and does not name its clean-up proves that it is over; `Runs` says that
a clean-up that runs is covered by its hold. Both compare the database's stamp with the
owner's, which may be `Lag` ahead: a snapshot that passes for younger than the note
is younger, or was read within `Lag` of it, and in the second case the clean-up is
in `early` once the hold is gone. The theorems hold for every `Lag`, and speak of
every clean-up but those. `ClaimsStand` and `AnswersStand`, about
leases and repeated receipts, come from an invariant of their own (`Desk`) and hold
whatever the clocks show.

**`ConsoleProofs`.** Four components that share no variable, each with its
invariant, and the conjunction of their specifications (`ConsolePartsSpec`).

- `Snapshots`: every write was recorded once in its mirror's version (`Recorded`),
  and what is under a cursor is what the cursor was made of (`Meant`). That one
  cursor names one content then needs that the pairing of versions is injective;
  `Cantor` is proved to be so, and monotone in its second argument, which is why a
  policy reloaded after its cursor was read is never older than the cursor. For the
  checkpoint: what may replace it is younger in every respect, and an answer is only
  refused when a younger one was taken.
- `Replies`: a scope's head fits its versions (the draft is the newest, the
  published one was checked, and a version has all its predecessor had), and what an
  editor between two awaits believes is still so. `VersionsAreKept` is proved with it.
- `Consoling`: a visit between two awaits fits the page (what it saw of a revision,
  what it merged), and what it answers is what became of it.
- `Governing`, with `Audited`: who holds which locks. No two requests hold the same
  policy or both the global row (`Alone`), an environment that a global write
  marked is in nobody else's hand (`MarksFree`), and a request that holds locks knows
  the revision it replaces (`InHand`). From it, revisions and their audits form one
  chain from the first to the last (`Rising`), for any number of writers.

`ConsoleOverwritesNothing` is the parts of `ConsoleSteps` that say of a step what it
may not overwrite; `ConsoleStepsAreKept` adds releases (`ReleasedWhenPurged`, from
`OffboardAdmissionProofs`) and graduation. For the latter the invariant is `Marked`:
whom a global write saw due, and whose policy nobody has written since, is marked by
it or was completed already, from the step that marks until it commits. It is kept
because whoever moves an anchor or a completion writes the policy too, which moves
its revision away from the one that was seen.

**`ConfigurationProofs`.** Three components without a common variable; the theorems
are about the conjunction of their specifications (`ConfigurationSpec`).

- *The refresher* (`MirInv`). `RecordedIsLoaded` needs `VersionsFit`: nothing that was
  read, recorded or loaded is ahead of the table, so a version read before a load is
  no younger than what was loaded. That a gate does not go on calling a copy fresh
  that was found behind (`KnownBehindTurnsStale`) is not inductive, because the
  finding is made by one step of a round and acted on by a later one. `NoticedInTime`
  is what every step keeps: a copy found behind waits for its reload in the round under
  way, or its first failing reload came within the length of the longest round that
  has ended, which is the bound the property names: a round may last for any time.
  `Accounted` says that what was refused is pending, written or lost, once.
- *The stores* (`StoreInv`). The history variable `patched` keeps every committed
  row. `Committed` says that a row is one of them, `CommittedSince` that it is none
  older than a version. A row that was read before an await is still committed after
  it, however far the table has moved meanwhile, so copies, rounds and answers keep
  it; and a process that only reads holds a row no older than what its refresher
  recorded. `Beside` says of which patch a provider came, and holds of a merge as of
  the rows it is made from.
- *The calls* (`InterInv`). At most one call is past the claim of a key (`SlotFits`),
  and before it has carried out its command the key's record says that nobody has;
  `OncePerKey` follows although the answer may be lost and the call repeated. What a
  call is at tells what it has seen (`CallFits`): from the lock of the scope's row on,
  its customer is in reach, since nothing takes the reach away while the row is
  locked. `WritesAsSeen` follows because the version of the controls only
  grows: controls that were read and whose version still stands are those in force.
  None of this needs the pool to be of a certain size.

**`CustomersProofs`.** The run `customers` takes one part at a time; the theorems are
about `CustomersSpec`, where reports, copies, switches, completions, proxy edits,
log-ins and doors all interleave. The invariant has a part per table,

    CustomersInv == EnvInv /\ ProvInv /\ ApiInv /\ AccInv

and what one part needs of another is little: registered environments stay
registered (`Keeps`), and a locked row keeps its owner (`OwnersUnlocked`).

- *Environments* (`EnvInv`: `TablesFit`, `MarksFit`, `TasksFit`; `HistoryFits` of
  what `past` remembers). `CopyKeepsUp` is not inductive: an answer on its way is as true as the
  tables at its version, so every answer under way and the copy are said to be true
  of the version they were read at, and to be true now where it is the newest. Two
  answers may still be assigned in the wrong order, which is the finding
  `stale_copy` and the only case that the property leaves out.
  `ContestedWhenOvertaken` follows from what a report that nothing has overtaken
  still knows between its gate and its upsert: nobody else's environment has the
  account. The gate is a read without a lock, so the property names the environments
  for which that was no longer so.
- *Intents* (`ProvInv`). `OneEnvironmentPerIntent` alone is not inductive. `IntentsFit`
  adds that an environment has a policy exactly when one intent made it, and `CallsFit`
  what a call between commit and answer knows: one that waits for its reload has
  completed its intent, and one that was refused because the environment is
  registered did not make it. From these a completion that is repeated
  after a lost answer, or when its time is up, is recognised by what it is repeated with.
- *Doors* (`ApiInv`). A request whose gate resolved an account acts for one that was
  in reach at some moment since it arrived, and nothing is written before a request is
  denied; the one door that asks for the owner again after its write
  (`SlowStartWrite`) is the exception, named by the property too. `LoginsFit` is
  the limiter's bookkeeping: failures and attempts under way together stay below the
  limit plus the number of attempts at a time, because each attempt passed the limit
  before the others failed; the bound of `AttemptsBounded` follows.
- *Accounts* (`AccInv`). `SeededOnce` needs `ErrandsFit`: the request that made a row
  is the only one to seed it, and until it does nothing is seeded there. That a
  cursor names one roster needs `RostersFit`: no roster is under a cursor ahead of
  the version, and one under the present version is the present roster.

`CustomersStepsAreKept` is the action property: a proxy is changed by a call that
holds the row its owner is read under, so the owner at the write is the owner at
the check; settings are written in the statement that reads the owner.

**Only model-checked.** Every safety property and every action property that a
passing run checks is stated by a theorem. Liveness (`ApprovalReachesAutomation`,
`OutdatedApprovalIsVoided`, `PublishingProgress`, `ConfigurationProgress`) stays with
TLC, because TLAPS proves neither ENABLED nor what rests on fairness. The findings
are executions, shown by TLC.

## 7. Assumptions and limits

*External parts*, modelled from how the API uses them and marked so in the map:

- the automation service's trigger is idempotent by request and round;
- its executor claims approved rounds, publishes only what it loaded under the
  approved version, and marks or voids the round; it is the only one to void;
- the owner of clean-ups answers a materialisation by its id again with the same
  clean-up, keeps finished clean-ups on record, and stamps `materializedAt` and
  `observedAt` from one clock, the latter no later than its read; the API database's
  clock is behind it by no more than `Lag`, and not ahead of it (ahead only delays
  releases);
- the automation service reports a task that could not start once, at any later
  time; `ActedOnce` and `OneCardPerCell` (parts of `OncePerCell`) are claimed as
  long as no such report is taken for one of another hour (`strayed`), because
  `reportNotStarted` cannot tell;
- for interactions, it keeps the claims of keys, the jobs and the controls, each
  changed only at the version the caller expects;
- PostgreSQL: a statement reads one snapshot, which it takes before it waits for a
  lock (so the global write's `INSERT ... SELECT` is two steps), unique indexes and row locks are
  honoured, a transaction is all or nothing, an entanglement of locks ends one of
  the transactions.

*Abstractions.* Contents, plans, names, numbers of a policy and cards are model
values; a configuration's content is a value or the number of writes that led to
it. Validation, routing, formatting, logging are left out. `DraftApproval` has
one draft: drafts share no state but the decision table, which `PublishApproval`
treats for several requests; its rounds are decided atomically, which is what
`ImplementsRegister` shows of the table. In `ContentScheduler` the questions of a
tick have arbitrary answers, so masks, risk, delegated ownership, media stock and
switches are covered without being represented; a tick may go on with another
action of an account after a "no" that in the code ends that account's turn,
which only adds behaviour. The limits of a page's lists (50, 10 and 5 rows) are left
out of `PublishLifecycle`, and no approval is voided in that part: what a page says
of a voided one is the projection's `void`, which no ruling of the part takes. That
a post is on the page once is not claimed (section 5). `PersonaAutoFill` works on all the targets of a list at
once where the code takes two at a time, which adds interleavings and takes none
away; an environment stands for its account. Doors of one form are one door with
the form as a parameter (`ClientApi`, `ConsoleApi`), and so are the ten stores of
`ConfigStores` and the streams of `SyncRead`.

*Parts do not interact.* What two components share is in both or in a module one
extends (`ClientEnvironments` under `Provisioning` and `ClientApi`, `PublishLog`
under `PublishLifecycle`); the parts of a run that share no variable are never
interleaved, since no property relates them. The specifications that the theorems
are about (`FirstWritersSpec`, `PublishingSpec`, `ConfigurationSpec`,
`ConsolePartsSpec`, `CustomersSpec`) have no such parts: there the components do interleave.

## 8. Not modelled

- *Feishu* beyond the decision of the publish card: parsing of commands, layout
  of cards, delivery to Feishu, and the caches of contacts and chats, which are
  upserts of single rows that no other step reads.
- *First-post onboarding*: rows are created by `armFirstBind` only, and
  `server.ts:1825` builds the persona service without it, so nothing in this
  process creates one; claim, release and complete are one guarded statement each.
- *Soul*: loading and serialising a persona's text.
- *Gateway, composition, contracts, tools*: choices made once at the start, types
  and wiring. What `server.ts` does at run time (the relay's pump, the rejection
  notice, the refresher's reloads, the authority of the publish log) is in the
  modules it serves.
- *Doors that only read*, uploads and downloads, the captcha assistant and the
  preview socket: they change no state that another step reads.
- Legacy holds without a deployment, the clean-up grant's table, the records of an
  edge's device state, the contact attempts' counters and the account-level reply
  configuration (its routes answer 410).

## 9. Plan

1. Feishu's delivery receipts as a retry protocol, once the outbox of
   notifications that the automation service keeps is settled.
2. Larger instances of `console` and `customers`, where a third process or a
   third customer may show an order that two do not.
