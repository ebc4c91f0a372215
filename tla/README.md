# RSSI-as-a-Service: a TLA+ verification project

The repository is a multi-tenant Django platform (`src/backend`, Celery workers,
PostgreSQL, Redis) that sells the work of a security officer by subscription:
breach intelligence, monitoring, assessments, an action plan, training, an
assistant. The operator buys **one** licence of a leak provider and resells it: a
pool of monitoring slots, a monthly number of requests, a rate limit. Two things make
it hard to get right: many processes share what was bought once, half of it at
a provider that no transaction reaches; and nearly every rule is a check followed,
later and without a lock, by a write.

This project models the backend's parts that keep state across requests, workers
and restarts, checks them with TLC on small instances, and proves the safety of the
main ones with TLAPS for every size.

1. [The system](#1-the-system)
2. [Modules and the code they model](#2-modules-and-the-code-they-model)
3. [Runs](#3-runs)
4. [Proofs](#4-proofs)
5. [Where the code and its documents disagree](#5-where-the-code-and-its-documents-disagree)
6. [What is not modelled](#6-what-is-not-modelled)
7. [Plan](#7-plan)

## 1. The system

Web processes serve the API (client space and operator console), Celery workers run
scans, checks, purges, mails and AI jobs, `beat` starts the periodic ones. A view
loads rows, calls a service and answers. There is no `ATOMIC_REQUESTS`: a service is
sometimes one `transaction.atomic` (READ COMMITTED, few row locks), more often a
plain sequence of commits. Messages are acknowledged late (`acks_late`, prefetch 1),
so a task that dies is delivered again. Uniqueness is enforced by constraints;
every other rule is a check followed by a write.

| component (`src/backend/apps/...`) | state | operations | what makes it correct |
|---|---|---|---|
| `billing` | plans, one subscription per client, its journal, the pool setting, alert keys of the month | start, activate, suspend, cancel, change plan, override, expire and move trials; create, edit, duplicate, delete a plan | no sale beyond the pool; no edit takes from a subscriber; one trial per client; a journal that explains the status |
| `threat_intelligence`: findings | rows by fingerprint, rows of the earlier fingerprint, the open alert of an asset, the cached synthesis | ingest a batch, close a finding, refresh the synthesis | a leak is shown once; a closed one stays closed; every new one raises the alert; a synthesis shown as fresh is fresh |
| `threat_intelligence`: monitored assets, `monitoring`: ownership proofs | assets, proofs, `MonitoredAsset` rows, the provider's own list | declare, delete, prove, register, unregister | monitored ⇒ proven; one client per domain; rows and slots agree; quota |
| `threat_intelligence`: scan jobs | jobs, broker messages, usage rows, cooldown | trigger, run, retry, redeliver, record, conclude | requests accounted for; attempts bounded; a finished job left alone; every job ends |
| `threat_intelligence`: secrets | ciphertext, `has_secret`, `secret_purged_at`, keys, audit rows | ingest, reveal, purge, rotate the key | readable while claimed; audited before shown; purged for good, in time |
| `threat_intelligence`: throttle, provider client, normaliser | token bucket; pages, retries, cached budget; fingerprints and masks | acquire; scan page by page; normalise | the licence's rate; a scan is complete or failed; one leak is one row, without its secret |
| `threat_intelligence`: watched accounts | declarations, runs, findings | declare, remove, scan, notify | quota; news announced, history told from news |
| `accounts` | links, second factor, challenges, lockout counters | invite, reset, log in, enrol | what lets one in serves once; a lock locks |
| `tenants`, `platform_admin` | companies, members, console administrators, audit journal, settings | create, rename, archive, delete, invite, demote; console requests; settings | an administrator remains; changes are audited; a setting is served fresh |
| `access_requests`, `marketing`, `regulatory_watch` | requests, prospects, sources and suggestions | submit, decide; follow up, convert; poll, review, integrate | decided once and told; nobody forgotten; a change noticed is queued |
| `monitoring` | check results, open alerts | dispatch, check, open, update, close | an outage is confirmed, told and closed |
| `assessments`, `actions` | referentials, diagnostics, answers, action plan | import, start, answer, close, generate | closed ⇒ complete; the plan covers the gaps; what a preview says stands until another request writes |
| `training` | versions of a course, enrolments, attempts, campaigns, reminders, evidence | write, publish; enrol, follow, pass; remind; propose | a published version is frozen and can be passed; one reminder a day; an answer has its proof |
| `ai_assistant` | documents, jobs, quota, mappings | write, reply, compose; pseudonymise | billed calls are counted or lost with their task; nothing hangs; nothing the mapping knows leaves in clear |
| `notifications` | the daily bulletin and its log | dispatch, send | one a day |
| demonstration, delivered courses | seed and preparation commands | seed, reset, load, prepare | a reset restores; a re-run redoes nothing |

**Interactions.** `billing` decides whether a client is operational and how much it
may use; `threat_intelligence` asks `entitlements` before it registers or
scans. A declared asset triggers an initial scan through a signal. A scan goes
through the throttle, page by page, is normalised and ingested; ingestion opens
alerts in `monitoring`, encrypts secrets and marks the synthesis stale. A training
campaign becomes evidence for a measure of a diagnostic; diagnostics, alerts and
findings become the documents the assistant composes and the bulletin.

**What is hard.** Check-then-write without locks; the provider's list and our table,
joined by nothing; batches cut half way and retried when their rows exist already;
late acknowledgement against a job status; a clock read by the caller and used by a
script that runs later; a slow answer of a model or of a cursor written back over
newer state; mails sent in one commit and logged in another; an operator's procedure
(key rotation) that spans restarts; quotas where 0 means unlimited. `PROJECT.json`
lists each at its line, under `hazards`, with the properties aimed at it.

## 2. Modules and the code they model

`PROJECT.json`, under `map`, gives the lines of every definition. A definition whose
comment begins with *Mutant* is a plausible mistake in the definition below it; it is
part of no specification, and shows that some property would notice.

**History variables.** Several guarantees hold only while some race does not happen.
Instead of leaving the race out, the model takes it and records it in a variable no
guard reads (`overtaken`, `cut`, `inverted`, `raced`, `doubled`, `lost`, `excuse`...);
the property says exactly which schedule voids it. What happens after the race is
still explored, and the other properties must survive it.

### Modules with a run or a proof of their own

- **`Billing`**: `plan`, `sub`, `journal` are the three tables, `pool` the setting,
  `alerted` the cache keys of the month, `int(threshold * 100)`, which two thresholds
  may share (`AlertKey`); an action per service function. The guard,
  the write, its event and the threshold mails are one action, as they are one
  transaction. The engagement is the size of a *set* of slots (client, number)
  rather than a recursive sum: same figure, and provable. Of three quota fields that
  the code treats alike, the one counted in the pool is kept.
- **`SubscriptionLifeCycle`**: the abstract specification: none → trial once, then
  active / suspended / cancelled / expired for ever. `Billing` and
  `BillingConcurrent` implement it (`FollowsLifeCycle`, `status[t] <- sub[t].status`).
- **`BillingConcurrent`**: the same operations as requests run them: `Load` the row,
  `Check` the early returns and the guard against the database of that moment,
  `Commit` later; `Merged` writes only the columns of `save(update_fields)`, and the
  one-to-one constraint refuses a second subscription.
- **`Findings`** (`ingest_raw_findings`, `_reconcile_legacy_finding`,
  `set_finding_status`, the synthesis, `_open_or_update_alert`): each query is a step.
  Unique constraints are the `IF` of the write; an uncaught `IntegrityError` is
  `CutShort`, like a death.
- **`MonitoredPool`**: `RegisterCheck` → `ProviderAdd` → `CreateRow`;
  `UnregisterCheck` → `ProviderDel` → `Deactivate`; `Die` anywhere. `slots` is the
  provider's list (external). The unique constraints count inactive rows, as in the code.
- **`ScanJobs`**: a message is counted per scan and retry number; `Receive` leaves it
  unacknowledged until `Ack`; `Crash` and `VisibilityTimeout` deliver it again.
- **`BreachSecrets`**: a ciphertext is the number of the key that made it; every
  process has the keys of its last start; the operator follows the procedure of
  threat_intelligence/README.md. The command's cursor is read at once and written
  back row by row.
- **`Throttle`**: time is relative: the age of the stored timestamp, and per caller the
  delay since it read its clock. `level` is the provider's view of the same licence.

### Modules composed for their runs

Each of these is a specification of its own, with its `Init`, `Next` and properties.
Parts that share no variable are put together in one run: `part` says which of them
moves in a behaviour, the others stay as they were at first, and a property of the
run is a conjunction, guarded by `part`, of properties named in those modules. Since
each property speaks of one part, this explores exactly the behaviours of each.

| run | part | module | code |
|---|---|---|---|
| `console` | companies | `Clients` | tenants/services.py and the views that call it: members are read, then written; a company is loaded, tested on that copy, then edited, archived, restored or deleted whatever it has become |
| | console | `Console` | a console view as the sequence of its commits: a write that may be refused, one that may not, the audit row |
| | requests | `AccessRequests` | access requests: submission, cancellation and decision on loaded copies |
| | watch | `RegulatoryWatch` | polls, suggestions, reviews, integration, telling the clients |
| | prospects | `Prospects` | the public form, follow-up, conversion, stale whole saves |
| | demo | `Demonstration` | seed_demo_tenant: creation, `--reset`, days and the purge |
| `personal` | links | `AccessLinks` | invitations and resets: four commits others fall between |
| | factor | `SecondFactor` | enrolment, challenges, recovery codes: read, checked, then marked; a pending factor is loaded, then saved; old codes are deleted in one commit and new ones created in the next |
| | pseudonyms | `Pseudonyms` | mappings, contexts and calls of the assistant; messages stored as they were typed and sent again with each reply |
| | accounts | `WatchedAccounts` | declarations, scans by a redelivered task, announcements |
| | normaliser | `Normaliser` | identity and masking of the provider's payloads |
| `content` | catalogue | `Catalogue` | referentials, attribution, imports: preview, confirmation, owner read, then written |
| | assessments | `Assessments` | diagnostics, answers, closing, the action plan |
| | training | `Training` | enrolment, quiz, certificate, purge |
| | studio | `Studio` | versions, screens, questions, publication |
| | evidence | `Evidence` | campaigns proposed as proof of a measure |
| | library | `Library` | delivered courses, reloading, preparation of a client |
| | documents | `Documents` | composed documents: what each section shows of the facts |
| `timed` | checks | `Checks` | availability checks: dispatcher, tasks, the down alert |
| | rules | `AlertRules` | certificate, header and e-mail alerts; thresholds marked, then their e-mail asked for |
| | bulletin | `Bulletin` | the daily weather e-mail: whether and when it leaves, not what it says |
| | reminders | `Reminders` | training reminders and their links |
| | lockout | `Lockout` | progressive lockout |
| | settings | `Settings` | operating settings behind one cache entry |
| | jobs | `AIJobs` | documents, replies, syntheses, their jobs and quota: asked, answered, recorded, saved, conversation touched, ended |
| | queries | `Queries` | a scan's pages, retries and cached budget |

`MCConsole`, `MCPersonal`, `MCContent` and `MCTimed` are the four compositions;
`MCFindings` gives its instance functions that a configuration file cannot write, as
does the last section of `MonitoredPool`. The other runs use the specification itself.

## 3. Runs

All are exhaustive within the bounds they name. Deadlock is not checked where the
system may rest (no client has anything to ask, bounds reached); `throttle` never
rests and is checked.

| run | instance | distinct states | shows |
|---|---|---|---|
| `billing` | 2 clients, 2 plans, quotas 0–2, pool 0–2, thresholds 28 % and 29 % (one key), mails accepted | 563 thousand | `SaleGuarded`, `NothingTakenBack`, `PlansReferenced`, `JournalExplains`, `SaleAnnounced` |
| `billing_concurrent` | 1 client, 2 requests, quotas 0–2 | 9.3 million | the refinement `FollowsLifeCycle`; `AloneIsAtomic` |
| `findings` | 2 leaks of different severity, 2 legacy rows (one matches one leak, one both), 2 ingestions, deaths | 4.1 million | `RowsKept`, `FreshUnlessOvertaken`, `ClosedStaysClosed` |
| `findings_alert` | 2 leaks, 2 ingestions, no deaths | | **violated**: `EveryFindingAlerted` |
| `monitored_pool` | 3 assets of 2 clients, two with one domain, quota 1 and unlimited, 2 requests, deaths, deletions | 3.6 million | `SlotsKept`, `DomainsProven` |
| `scan_jobs` | a client's scan and an initial scan, 2 workers, up to 2 assets, 1 retry, 1 redelivery or crash | 640 thousand | `AttemptsAccounted`, `RedeliveryIsNoOp`, `JobsEnd` |
| `secrets` | 2 leaks of 2 clients, 2 processes, 3 keys (two rotations), 1 reveal, retention 1 day | 305 thousand | `SecretsReadable`, `AuditedBeforeShown`, `PurgedIsGone`, `SecretsExpire` |
| `throttle` | 3 callers, burst 2, deadline 3 s, delays up to 2 s, key lifetime 4 s | 283 thousand | `LicenceWithinLag`, `RefusedOnlyWhenSpent`, `AcquireEnds` |
| `console` | 2 companies, 2 sessions, 2 names, 2 people | 1.0 million | `CompaniesKept`, `ConsoleAnswers`, `WatchKept`, `DoneStaysDone` |
| `personal` | 3 links or batches of codes, 2 requests, 2 challenges, 2 values | 917 thousand | `CredentialsServeOnce`, `MentionsHidden`, `AccountsWatched`, `PlaceholdersStay` |
| `content` | 2 measures, 2 sessions, 2 diagnostics (enrolments, screens) | 824 thousand | `ReferentialsKept`, `DiagnosticsKept`, `CoursesKept`, `SettledStays` |
| `timed` | 2 jobs, 1 employee, 2 workers, 2 requests | 640 thousand | `MailsOnce`, `LimitsHold`, `OutagesFollowed`, `NothingHangs` |

**Why the bounds are enough to be interesting.** Two clients with quotas up to 2 on a
pool of 2 reach under, at and over the limit by sale, override, plan edit and pool
change; 0 is in every quota set, since it means unlimited. One client suffices for
the concurrent life cycle, whose statuses are per client. Two ingestions with two
leaks are the least in which one ingestion loses a race and still has work left; a
legacy row that matches one leak and one that matches both run every path of the
reconciliation. Two assets share a domain because that is the case the constraint
exists for. Three keys allow a second rotation over what an interrupted first one
left. In `throttle` a delay of 2 with a burst of 2 lets a script be a whole burst
late, and the key's lifetime is the smallest `TtlAssumption` allows. With one retry
and one redelivery in `scan_jobs`, a message can come twice in each phase of the task;
the budget of 2 requests runs out in the middle of an analysis. In the composed
runs two sessions on two objects are what every race needs: one to read, one to
write in between, and one object that must not be touched.

**State constraints** (`OneExcuse` in `MCConsole` and `MCContent`,
`QuietDeclarations` in `MCPersonal`) cut behaviours only *after* an excuse was recorded, or
keep requests of independent kinds from overlapping; each is explained beside its
definition. They keep the race itself and what follows from it in one step. The
proofs of section 4 do not use them.

**Symmetry** is used in safety runs only (`findings`, `monitored_pool`, `console`,
`personal`, `content`), on sessions, workers or objects that nothing tells apart.

**Fairness.** `Throttle`: time passes, and a caller inside `acquire()` runs (it is a
loop in a live process). `BreachSecrets`: days pass and the daily task of the beat
schedule is started. `ScanJobs`: each worker keeps taking and running messages;
crashes are bounded in number, since a worker that always dies ends nothing. `timed`:
beat wakes the dispatchers (`DispatchDueChecks`, `Wake`, `NewDay`), a worker that has
a message goes on (`Work`, `Run`), a request that began ends (`Finish`, `Serve`), time
passes (`Tick`, `EntryExpires`). All is weak fairness: nobody must *ask* for anything,
and nothing is assumed of the provider, of the mail server, of users or of failures.
The other specifications state no fairness, and no liveness.

## 4. Proofs

The proofs hold for every value of the constants that satisfies the named
assumptions, which say no more than the instance rules of the code do: finite sets of
clients and workers, natural bounds, distinct names. Each invariance proof has the
same shape: an inductive invariant, one lemma per table or per kind of step that says
what the step changes, one step per action, and the property as a consequence.

**`BillingProofs`** (extends `BillingConcurrent`).
- `TypeCorrect`: `TypeOK` is inductive.
- `SalesAreGuarded` (`SaleGuarded`): the guard adds a figure, the property compares
  sizes of sets, so the core is counting: `CommitmentSplits` (the slots committed are
  those of the others plus the client's own quota), `OthersKept` (a write to one row
  leaves the slots of the others), hence `GuardedWrite` and `NothingSold`; each action
  is one of the two.
- `SalesAreAnnounced` (`SaleAnnounced`), where an address is set and the mail server
  answers, as in the run: without either the code announces nothing. What it gives for
  any thresholds is a mail this month under the key of each one reached: about that
  threshold, or about one that shares the key.
- `JournalKept`, `PlansStayReferenced`: inductive relative to `TypeOK`.
  `QuotasAreNotTakenBack` (`NothingTakenBack`) needs `PlansReferenced`: a plan is
  created over a missing row only, and no subscriber is on one.
- `LifeCycleImplemented` (`FollowsLifeCycle`): the refinement, step by step, for the
  atomic operations; `RacesFollowLifeCycle`: the same for the interleaved requests.
- `AloneIsAtomicHolds` (`AloneIsAtomic`), from `CInv`: until another request writes, the
  loaded row is the stored one and the guard's answer stands (`Current`), and a
  request under way was let through by the early returns (`Admitted`). So what is
  proved of the atomic operations holds of every request nobody overtook.

**`FindingsProofs`**. `TypeCorrect`; then `IInv`, which adds what each ingestion knows:
`ReadIsCurrent` (the row it is about to reconcile matches its leak; when it found
none, the rows that match this leak alone carry it already), `CreatedByOne` (what it
created exists, nobody else created it, and it was not mailed yet), `MailedAfter`,
`NoRowBesides`. Without them a creation could give a leak a second row. From it:
`RowsAreKept`, `SynthesisIsFresh` and the action property `ClosedIsFinal`, whose only
exception is the step `TakesRowOf`: of two ingestions that read one legacy row for
two leaks, the second to save takes it from the first (section 5).

**`MonitoredPoolProofs`**. `TypeCorrect`; `IInv` adds `RacesSeen` (two requests under
way about one client or domain were seen to overlap), `SlotBeforeRow` and
`SlotOfOne` (the slot of a row to be created is held, the one to be given back is nobody
else's), `RoomForRow` (the quota still has the room the guard saw) and `ProvenFirst`.
Each is a fact a request relies on between its check and its write. From it:
`DomainsAreProven`, `SlotsAreKept`.

**`ScanJobsProofs`**. The bounds on attempts are sums over messages and tasks; a sum is
the size of a set of pairs, so that the library's facts about cardinality
apply. `ScanInv` adds, per analysis (`Messages`), the messages that may still change
its job (`Live`) and the attempts they still allow (`Potential`, at most
`max_retries + 1` per delivery). A retry hands its allowance to the next message, a
redelivery brings a new one. From it: `AttemptsAreAccounted` and
`RedeliveryChangesNothing`.

**`BreachSecretsProofs`**. `ShownWasAudited`: `Counted` bounds grants and answers with
the requests at each phase still to be counted. `PurgeIsFinal`: `PurgedForGood`
says what a purge leaves, and what requests that read the row after it know.
`KeysOpenEverySecret`: `KeysInOrder` says which key is where in each phase of the
operator's procedure, in particular that all that a command without failure leaves is
under the new key, so the old one can be taken out.

**`PersonalProofs`** (extends `MCPersonal`, whose `IdentityAssumption` keeps links,
batches of codes and challenges apart, and whose `ValuesAssumption` says the values
are finitely many and listed in an order).
- `CredentialsAreServedOnce`: `LinksInv` adds which request holds which link
  (`HeldOnce`), that what an issue has ended is not usable any more
  (`IssueEndsThem`), and that nothing is read before it is created; `FactorInv` that a
  challenge is answered by one post until its session opens, and that nobody holds a
  code before it is written (`CodesAreNew`).
- `MentionsAreHidden`: `Mappings` (different values have different numbers, none above
  their count) is kept by `CollectMaps`: a new number is the highest so far plus a rank
  among the new values; that there is a highest one is the well-foundedness of the
  naturals, and that ranks differ is a strict inclusion of finite sets. `CallNamed`
  then follows, for each call, what it will send: has its entry, or changed since it
  began, or was lost with a mapping.
- `PlaceholdersAreStable`: an action property, from the same invariant.
- `AccountsAreWatched` (`AccountsWatched`), for any declarations, requests and workers,
  on the offer, retries and mishaps of the instance. Its accounts half is `WatchInv`:
  each run knows which of its accounts are ahead, and that another run which overtook
  it on a first pass was excused (`RunFits`); what is stored was told, passed over, or
  is in a run's hands (`Announced`); the requests nobody recorded are those in hand
  plus the lost (`Counted`, a set of pairs again). Its normaliser half is about
  sequences: a payload is what precedes the secret (`Opening`) and what follows
  (`Ending`), so what is read of a delivery that lacks nothing and is not misread is
  the leak's own (`IdentityRead`, `SecretRead`, hence `PlainDedup`), and two leaks of a
  known endpoint differ in it (`LeaksDiffer`). `MaskedWell`: what shows the secret in a
  row came in a list.

**`TimedProofs`** (extends `MCTimed`, whose `ProcessesAssumption` says that workers and
request handlers are finitely many). One invariant per part, for any number of either:
- `CeilingsHold` (`LimitsHold`). `LockoutInv`: an attempt that begins below the bound
  counts one failure at most, and attempts that were never together come one at a
  time (`OneByOne`), so each lock waited out has spent that much of the counting window
  (`WindowRunsOut`).
  `SettingsInv`: the entry is the row, unless a request is about to drop it or two raced.
  `JobsInv`: which request or message holds a document (`Owned`), calls are used,
  lost, being answered or about to be recorded (`CallsInv`), a signed document nothing may write keeps
  its text (`SignedInv`), and the answers of a job, written or still possible, are
  bounded (`RepliesInv`: a retry hands its allowance on; a redelivery, or a retry after
  the reply was written, brings one).
  `QueriesInv`: what a scan has at each of its pages (`Collected`), and when the budget
  figure in the cache or in a scan's hands was asked for (`KeptFigures`).
- `MailsLeaveOnce` (`MailsOnce`). `ChecksInv`: while one message of a site was alive at a
  time, a window has one result; an open alert is mailed, about to be, or its task died.
  `RulesInv`: the thresholds marked are those the lowest days have crossed, each told,
  about to be, or left untold by a task that stopped. `BulletinInv`: an undisturbed
  day is one message, waiting, carried, sent or written down (`OneMessage`).
  `RemindersInv`: a kind of reminder is in one run's hands, off its list, until it is
  written down (`KindOnce`, `TakenOff`), and a day's only run is alone (`Daily`).
- `DownIsConfirmed` and `ClosedBySight`: the action properties in `OutagesFollowed`.

**`Throttle`** holds its own proofs, for any key lifetime with
`Capacity + MaxLag <= Ttl` (60 s against a burst of 5).
- `TypeCorrect`.
- `LicenceKept` (`LicenceWithinLag`). The tokens a script *would* find now are
  not inductive, as the refill is cut off at the capacity. The
  invariant is `CountedWithinLag`: while no clock was inverted,
  `level <= max(Capacity - tokens + MaxLag - age, 0)`. A tick lowers both sides; a
  script that lags by d gains `age - d` tokens, loses one, and leaves an age of d.
- `NoNeedlessRefusal` (`RefusedOnlyWhenSpent`), from `SpentIsCounted`: what is missing
  from the bucket has been counted by the provider, whatever the order of the scripts.

**Only model-checked.** Liveness (`AcquireEnds`, `SecretsExpire`, `JobsEnd`,
`NothingHangs`, and the two leads-to of `OutagesFollowed`): fairness and ENABLED are
out of the prover's reach, as are results by induction over data. Of the composed
runs: `CompaniesKept`, `ConsoleAnswers`, `WatchKept`, `DoneStaysDone`,
`ReferentialsKept`, `DiagnosticsKept`, `CoursesKept` and `SettledStays`: the two
compositions without a module of proofs yet.

## 5. Where the code and its documents disagree

With a run (quoted under `findings` in `PROJECT.json`): **two ingestions that both open
the alert of an asset** (`findings_alert`): the loser's exception ends its batch, and
its finding is never linked, since a retry takes it for a known one.

Seen while modelling; most are excuses that a history variable names.

*Billing.* `update_plan` raises the quota of all subscribers and asks the guard
nothing (billing/services.py:605; capacity.py:10 says "sans exception"); two sales that check before
either writes both succeed; raising a quota *to* 0 counts as a lowering for old
subscribers; `expire_due_trials` is in no schedule; concurrent transitions may leave
a journal whose last line is not the status; an archived client's subscription can be
activated.

*Settings.* config/settings.py:389 says the trial plan is "réglable depuis la console
sans redéploiement", but billing reads `settings.*`; likewise the retention of secrets
and of the reveal audit; `SIGNUP_OPEN` and `MAINTENANCE_MESSAGE` are read nowhere.

*Leaks.* A milder finding lowers the severity of an open alert; a synthesis is saved as
fresh although findings changed while it was written; a legacy row that two leaks match can be
reconciled by two ingestions, the later save wins; unknown endpoints give two leaks
one row, a missing identity field gives one leak two rows; a list under a secret key stays in
clear in `raw_data`; `token_type` is masked and makes distinct tokens one.

*Provider.* A script that overtakes one with an older clock lets the bucket credit the
same time again; the page cap ends a scan as if complete; `record_usage` writes the old
figure back for a full timeout (its docstring: "mis en cache court"); after the month's
renewal the old figure refuses until it expires; what a failed scan consumed is not recorded.

*Monitoring.* Registering an asset again after it was unregistered takes the
provider's slot, then fails on the constraint; a verified proof may be verified again
and fail; the dispatcher's period equals the due interval, so a site is checked about
every ten minutes; results of queued or repeated checks count as consecutive failures
(tasks.py: redelivery "is harmless"); a worker that dies between alert and mail never
mails, and the threshold of a certificate it had marked is never told; a check that cannot reach its target closes the open header or e-mail alert.

*Bulletin.* Its log is written after the mail: a death in between sends it again.

*Secrets.* A rotation writes back what it read before a purge (ADR-014 says otherwise);
it cannot be revealed. A rolling restart leaves processes that cannot read what new
ones encrypt. A process that dies after the audit row shows nothing and is audited.

*Accounts and companies.* A link, a challenge or a code accepted twice at once serves
twice; `start_totp_enrollment` on a confirmed credential switches the second factor
off without a password; the lockout's upper rungs cannot be reached one attempt at a
time; two confirmations of a factor leave two lists of codes that work, and a death
between deletion and creation leaves none; restoring a company and registering do not
check the name; demotions that overlap can remove the last administrator; an edit saves
the whole copy of a company, so it undoes an archiving or a restoration, or inserts a
deleted company again without members; a company restored after the page was loaded is
deleted all the same; an archiving may miss an activation, and leave a slot in use;
some console writes leave no audit row.

*Assistant.* The quota is looked at when the work is asked for, not when it runs; a process
that dies while composing leaves "generating" for ever; a running task overwrites a
validated document; a failure after the reply was committed answers the question again
(ai_assistant/tasks.py:7: "a duplicate document or reply would be a real user-visible
bug"); a call
whose answer is lost was billed and is not counted; what users type is stored and sent
as typed, so a value that neither the client's data nor the mapping lists leaves in clear,
and once the mapping has expired an old mention of a value the client no longer has
does too.

*Documents.* 0 counts as unknown: a maturity of 0 is "non évaluée" in the report and
0/100 in the sheet of the same day; the report takes the mean of the referentials, sheet
and policy the latest diagnostic; an all "non applicable" diagnostic prints "None/100"; the
referent stays "à compléter" where the same document names it elsewhere; a closed alert
vanishes from the next register.

*Training.* Quizzes submitted together end in an `IntegrityError`; reminders run twice
send the next kind (tasks.py:13: "chaque tâche est idempotente"); a renewed link is dead
when the task dies before the mail; deleting a screen leaves a hole in the order, and
reordering may collide; an accepted suggestion is proposed again the next night; a second
`seed_training_demo --tenant` fails; a draft its author emptied is published by a re-run.

*Assessments.* Closing and generating the plan are three commits; two starts make two
diagnostics in progress; what a preview announced is stale when another request
writes the referential before the confirmation, and the confirmation does not compare.

*Watch and prospects.* The fingerprint of a page is saved before the change is
queued; a stale whole save erases a conversion; a prospect can be lost without a
reason; `seed_demo_clients --reset` deletes every tenant whose slug ends in
"-demo-client".

*Watched accounts.* What a run that failed created is known to the next, and never
announced; a redeclared account sees no old finding; a quota of 0 means none here,
unlimited elsewhere.

## 6. What is not modelled

`components` in `PROJECT.json` lists every part with its status. Left out: the HTTP
clients and parsers (feeds, DNS and TLS probes, spreadsheets), document layout and
prose, the periods, exports and dashboards of `reporting` (reads without state), the
marketing pages and the front end, whose rules the services enforce. Inside modelled
parts: payments and prices; the two quota fields not counted in the pool; authors and
dates; the attestation and the instructions of a proof; profile fields, token
refresh; what a bulletin says (its mood counts alerts that its lists, by design, do not
repeat); the resends of the model's SDK inside one call; the monthly quota of watched
accounts, counted in rows written when runs end; the fifty items per poll of the watch.

## 7. Plan

The order is by how much is shared between actors, then by how much a mistake costs.

1. *Done*: the modules of section 2, the proofs of section 4.
2. *Next theorems*, by what they say: the parts of `CompaniesKept` and `CoursesKept` (an
   administrator remains, a published version is frozen), with the composition's
   inductive invariant built part by part as in `PersonalProofs` and `TimedProofs`.
3. *Later*: `Billing` with `MonitoredPool` (the pool setting against slots taken), as
   refinements of an abstract licence.
