# Formal models of the IoT NAC controller

TLA+ specifications of the network access controller in this repository
(`src/backend`, a NestJS server over one SQLite file, and `src/frontend`, a React
dashboard), checked with TLC and, but for liveness, proved with TLAPS.
Paths below are relative to `src/`.

## 1. The system

Devices appear in an inventory, an operator configures a key for each, the device proves
the key with signed heartbeats (the first one also with a one-time provisioning token),
and the operator allows it onto the network or denies it. Everything done is logged.

| Component | State | Operations | Where |
|---|---|---|---|
| Device identity | keys, nonces, failures (three tables) | `verify`, `setDeviceSecret`, `clearSecurityState`, `getSecurityState` | `backend/src/devices/device-identity.service.ts` |
| Provisioning tokens | one token row per device | `issueToken`, `consumeToken` | `device-provisioning.service.ts` |
| Policy engine, enforcement | none (a dry-run flag) | `evaluate`, `apply` | `backend/src/enforcement/` |
| Devices service, controller | none of its own | all HTTP handlers | `devices.service.ts`, `devices.controller.ts` |
| Devices repository | the `devices` table | upsert and single-column updates | `devices.repository.ts` |
| Audit, enforcement, event logs | append-only tables | `record`, paged readers | `audit/`, `enforcement/`, `events/` |
| Enrollment log | append-only table | `record`, `listRecent` | `enrollment-log.service.ts` |
| Profile inference | rule tables | `infer` | `device-profile-inference.service.ts` |
| SQLite service | the file, the open connection | `onModuleInit`: create, rebuild, index, seed | `backend/src/persistence/sqlite.service.ts` |
| Exports | none | queries over the logs of a period | `backend/src/exports/` |
| Dashboard | React state | loads, polls, operations | `frontend/src/App.tsx` |

How they interact: the dashboard and the devices call the HTTP API; each handler of
`DevicesService` calls the identity, provisioning, policy and log services in turn; all of
them read and write the same SQLite connection synchronously. Two facts follow and shape
the models:

* **Handlers do not interleave.** Node.js runs a handler of synchronous calls to its end,
  so one handler is one action. This is not an abstraction of convenience: there is no
  `await` in any of them.
* **Handlers are not transactions.** No handler opens one, so every statement commits by
  itself and a process that dies in a handler leaves a prefix of its writes.
  `DevicesServiceCrash` is about that. The one transaction of the program is the rebuild
  of a table at start; `SchemaMigration` is about that.

A start takes the file as some other version or some crash left it. The clients that page
through a log do so over several requests, between which handlers write.

The dashboard, on the other hand, is asynchronous throughout: every `await` is a point
where other callbacks, clicks and answers come in, so there one *stretch between awaits*
is one action.

What is hard here: the text and window arithmetic of nonces and lockouts; trust that has
to fall with the key that earned it; a status column that lags behind the failures it
summarises; logs that have to agree with each other and with the rows; sources of profile
fields that overwrite each other; crashes between statements, of handlers and of a start;
pages cut by a timestamp that rows share; overlapping loads in the dashboard, and forms
filled from one of them. `PROJECT.json` lists each hazard at its line.

What makes each component correct, in the properties' names:

* identity — no replay (`NoReplay`, which fails; `NoReplayWhileKept` says for which
  timestamps it holds), failures bounded (`FailuresBounded`), lockouts
  neither shortened nor prolonged by requests (`LockoutHolds`, `LockoutEnds`), and served
  to the announced end (`LockoutServed`, which fails);
* tokens — a first verification uses up a live token (`FirstVerificationUsesToken`);
* policy — no allow without trust (`AllowNeedsTrust`, `KeyBacksTrust`), dry runs inert
  (`DryRunInert`), and the dashboard's copy of the policy offers what the server would do
  (`OffersMatchPolicy`);
* service — trust belongs to the current key (`VerifiedUnderCurrentKey`), a good status
  means a clean record (`FailuresMeanDistrust`), and the trust lifecycle as a whole
  (`ImplementsLifecycle`);
* logs — they explain the rows (`AuditExplainsState`, `EventsExplainStatus`) and agree
  (`AuditMatchesEnforcement`);
* profile — precedence of sources (`PrecedenceHolds`, `SourceBacksValue`), and the
  history tells the alias (`AliasTold`);
* crashes — what one leaves is referentially sound and no basis for trust
  (`DiskReferences`, `DiskKeyBacksTrust`, `NoReplayAcrossCrashes`, `EnrollmentHeals`,
  `AllowSurvivesLostStatus`), it costs the record of one change at most
  (`CrashLosesOneChange`), no token can be used twice (`TokenSpentFirst`), and the disk
  follows the trust lifecycle at every statement, one way around it aside
  (`DiskFollowsLifecycle`);
* migration — no row is lost (`RowsKept`), handlers see a complete file only
  (`ServesCurrent`), trust is kept (`StartKeepsTrust`), on disk each table is replaced
  whole with its rows (`ImplementsUpgrade`), and a start ends (`StartsEnd`);
* readers — pages cover what there was, ties at their ends aside (`PagesCover`), reading
  ends (`ReadingEnds`), exports show what was read (`ExportShowsRead`);
* dashboard — it shows nothing the server never had (`NothingInvented`) and settles on
  what it has (`ListConverges`, `SelectionConverges`), operations end (`OperationsEnd`)
  and their flags say so (`DashboardTypeOK`), questions are asked before keys are replaced
  (`RotationConfirmed`, which fails), and a rename the operator was told of stays
  (`RenameKept`, which fails).

## 2. The modules

```
TrustLifecycle                      abstract: trust and access per device
      ^ implements
DevicesService  --EXTENDS-->  DeviceIdentity, PolicyEngine, ProvisioningTokens
      ^ EXTENDS
DevicesServiceCrash                 the same handlers, committed statement by statement;
                                    its disk follows TrustLifecycle, with one more action

DeviceProfile                       the descriptive columns of the same handlers

FileUpgrade                         abstract: tables that become current and grow
      ^ implements
SchemaMigration                     a start, statement by statement, on files of any age
      ^ EXTENDS
LogReaders                          clients that page and export while logs grow

Dashboard                           the React state against the API
```

`MC*` modules hold what a `.cfg` cannot say (sets of timestamps, rule tables);
`*Proofs` modules hold the theorems. Operators marked *Mutant* in a comment are
plausible bugs; nothing uses them, and each breaks a named property when it takes the
place of the definition after it.

**DeviceIdentity.** Variables are the clock, the inventory ids and the three tables; one
action per public method that writes. `Verify` is `verify`, split by outcome:
`VerifyLockedOut` (returns before looking at the heartbeat, records nothing),
`VerifyValid`, `VerifyRejected` (`reject`), and `VerifyThrows` (no `devices` row, so the
failure breaks its foreign key). Each includes the two evictions `verify` starts with.
The one delicate abstraction is the nonce's timestamp: the row keeps the text the device
sent, eviction compares it *as text* with a UTC ISO cutoff, the skew check *as an instant*.
A timestamp is therefore a pair, the instant it denotes (`at`) and the instant whose UTC ISO
text sorts where it does (`sortsAs`). Nothing relates the two, since `verify` takes every
text that `Date.parse` does: they agree for `toISOString()`; without milliseconds, as in the
dashboard's example (`date -u`, `App.tsx:706`), a text sorts up to a second later; with a
UTC offset, or as MM/DD/YYYY, it may sort hours or years to either side. `Outlasts(ts)` says
of a timestamp that its nonce stays for as long as it can be in time.
Signatures are abstracted to the key they were made with.

**ProvisioningTokens**, **PolicyEngine.** Functions on rows and arguments. A fresh token is
a fresh number. `PolicyEngine!Decide` is the middle of `applyPolicy`.

**DevicesService.** One action per handler, over the identity tables and the trust,
policy, token and log columns. `Report` is `reportSignedDeviceHeartbeat`, split at its
early returns. `enforcementLog` and `auditLog` are sequences per device; of the events
only the latest identity event per device is kept. `dryRun` is read from the environment at start,
so `Restart` may change it between two handlers and nothing else. `Offered` is what the
dashboard offers (`App.tsx:389`) for the status that is stored. History variables:
`trustedKey` (which key signed the heartbeat that verified), and `accepted` in
DeviceIdentity (how often each heartbeat was found valid).

**TrustLifecycle.** What the service promises: five values of trust, three of access, six
actions. `Trust` in DevicesService is the refinement mapping; "invalid" and "locked" are
both "distrusted".

**DevicesServiceCrash.** The variables of DevicesService are what handlers compute, `disk`
is what is committed, `todo` the writes a running handler has left. A handler takes its
DevicesService step and queues its writes in the order of the code; `Commit` moves one to
disk, `CommitEviction` executes one of the two `DELETE`s that `verify` starts with there,
`Crash` drops the rest and reloads. Restart changes nothing in an up-to-date file,
so it is the reload. Enrollment-log writes and the `last_seen` columns are not in `disk`.
`DiskTrusts` maps the committed file to TrustLifecycle. A torn handler leaves combinations
of columns no whole handler leaves, yet their trust and access could have come about by
whole ones, with one exception that has an action of its own, `VerifiedUnenrolled`: an
enrollment cut between the key and the status leaves a pending device with a key, and its
next heartbeat verifies it although no token is asked for.

**DeviceProfile.** Each column is a value and its source. `Manual`, `Reported` and
`Inferred` are the `resolve*` helpers, `Infer` the inference service with its rule tables
as constants, and the actions the six handlers that write these columns. All heartbeats
with matching ids update the profile, refused ones too; so `Report` has no verification
in it. `createPlaceholder` hands over all five manual fields whether or not the body has
them, so it has the full domain. `told` is the alias in the latest enrollment-log row
that tells one.

**SchemaMigration.** `disk` is the committed file, `view` the file as the connection sees
it within its transaction, `fk` the connection's `PRAGMA foreign_keys`, `phase` where
`onModuleInit` is and `toCheck` the tables whose shape it has still to look at. A table is
absent, old (a column or an allowed value is missing) or current; its rows have an id, a
device, an instant and the one value whose `CHECK` has changed over the versions. `migrate`
is `CreateTable` per missing table; a rebuild is `ForeignKeysOff`, `Begin`, `Copy`, `Drop`,
`Rename`, `Commit` and `RestoreForeignKeys`; then come `CreateIndex` and `SeedDefaults`.
`Drop` does what SQLite does when foreign keys are on, delete what refers to the table,
although the code never drops with them on: that is what the pragma is there for.
`StatementFails` is the rollback and the `finally` block, `Crash` comes anywhere. Handlers
are reduced to `AddDevice` and `Record`. Which column or value an old table lacks is not
told apart: the rebuild is the same.

**FileUpgrade.** What a start promises of the file: a table becomes current in one step that
carries over its rows and every value still allowed, rows are added one at a time and only
while handlers are served, and they are served only when all tables are current. `Upgraded`
in SchemaMigration is the mapping: the committed file, and `phase = "serving"` for `open`.

**LogReaders.** `reader` is one client: `FirstPage`, then `NextPage` with the timestamp of
the oldest row it has as `before`, until a page is not full; `ReadEnforcement` is the one page of a
device's history. `Newest` is `ORDER BY ts DESC, id DESC LIMIT n`, `SafeLimit` the clamp,
`Export` the joined queries of `exports.service.ts`. Timestamps need not grow with ids.

**Dashboard.** A row is a version number, whether there is a key, and the alias: the
dashboard's properties do not look further. A task is a callback that waits for an answer,
with the step it has come to. `Poll` is the timer, which does not wait for the poll before;
`CreateDevice`, `EditSelected`, `SaveInlineAlias`, `DownloadExport` and `SetDevicePolicy`
start operations, `Serve` lets the server act or answer, `Receive` continues the callback,
`Lose` makes a request fail. The requests that one load sends with `Promise.all` are one
request. `aliasInput` is the alias form: it is filled when the selection changes and by
nothing else (`lastInitializedDeviceId`). `EditSelected("edit")` stands for `saveProfile`
and `toggleArchiveState`, which differ in text only. History variables: `unasked` (keys
replaced without a question) and `told` (the alias a device has by the last message to the
operator). Conditions of buttons that look at columns (`allowDisabledReason`) are not
modelled here: the model may click more than an operator can.

## 3. The runs

| Run | Instance | Shows |
|---|---|---|
| `identity` | 2 devices sharing a secret, 1 nonce, clock to 4, window 2 < lockout 3 | replay, failure bound, lockouts |
| `lockout_served` | 1 device | **violated**: the lockout ends early |
| `no_replay` | 1 device | **violated**: a heartbeat found valid twice |
| `service` | 1 device not yet in the inventory, 2 keys, 2 tokens, 2 policy requests, clock to 2, restarts in and out of a dry run | trust, tokens, logs, offers; refines TrustLifecycle and DeviceIdentity |
| `archived_stay_denied` | 1 device, 2 keys, no dry run | **violated**: an archived device is allowed |
| `verified_implies_provisioned` | the same | **violated**: verified without a token |
| `crash` | 1 device, 2 keys (symmetric: all its properties are safety), 2 crashes between any statements | what survives crashes, and what each costs; the disk follows TrustLifecycle |
| `profile` | 1 device, 3 texts, 3 rules | precedence, sources, alias history |
| `storage` | 2 devices, 3 files, events to 3 rows, 2 crashes or failed statements, pages of 2 | migration, refining FileUpgrade; pages, exports |
| `dashboard` | 2 devices, all operations, 1 click, 1 poll at a time, 1 change by others, 1 lost request | nothing invented, convergence, flags |
| `rotation_confirmed` | 2 devices, 3 clicks | **violated**: a key replaced without the question |
| `rename_kept` | 1 device, 2 clicks | **violated**: enrolling undoes a rename |

Type invariants are theorems and no run checks them by themselves: for the dashboard, whose
flags make more of it than a type, a run does.

*Why the bounds are enough for what they show.* `MaxTime` leaves room for a failure, a
window, a lockout and one instant more (in `crash` only for the first two); the timestamps
are instants of the clock in UTC ISO form (one is enough in `service` and `crash`), a text
that sorts before its instant and, in `identity`, one that sorts after; the windows
are small numbers in the order of the defaults (skew <= retention, window < lockout) so
every boundary is hit. `MaxFailures` is 2 in `identity` and `service`, so one failure and
the locking one differ. Two keys give a rotation; `MaxTokens = 2` a replaced token;
`MaxLog = 2` a repeated and a reversed policy request. Devices are independent except
through shared tables: `identity` checks that on two devices (same secret, evictions for
all), and the proofs of section 5 are for any number. In `profile`, three texts let two
rules and the empty value clash. In `storage` the files are none at all, one of before
enrollment (statuses and codes that are not allowed any more, tables that are missing) and
one with keys but of an old shape; `MaxFaults = 2` cuts a start and the one after it; logs
of three rows over two instants with pages of at most two have ties within a page, across
a page's end and none, and limits 0 and 3 are on either side of the clamp. In `dashboard`,
one poll and one operation already give two loads in flight, crossing answers and an answer
older than the list it overwrites; more clicks only add loads of the same kind, but for two
policy requests that overlap (`App.tsx:872`), which only the theorem `FlagsMatchOperations`
covers and only to the effect that `busyDeviceId` names no device without a request. One
alias is enough as only `rename_kept`, which has two, looks at it. The bounds are constants
named in the modules, and the theorems of section 5 do not depend on them.

`CHECK_DEADLOCK` is nowhere switched off: every model can always take some step (a
heartbeat, a query, a poll, a first page or a failing request), as the program can.

*Fairness.* `IdentitySpec` and `ServiceSpec`: only time, `WF(Tick)` and `WF(ClockTick)`;
nobody is obliged to send or click. `ReaderSpec`: `WF(StartUp)`, a start takes its next
statement and a process that died is started again (what a service manager does), and
`WF(NextPage)`, a client that has not got all asks on and is answered. Faults are not fair
and bounded: a start that is cut short for ever ends never. `DashboardSpec`: the timer
fires (`WF(Poll)`, `setInterval`) and every request is answered or fails and its callback
continues (`WF(Serve \/ Receive)` per task; the browser settles every fetch). Losses,
clicks and changes by others are not fair, and bounded: convergence is claimed once the
server rests.

## 4. Where the code and its words part

Each is a run that violates the property that states the words.

* `LockoutServed` — a locked-out device is told a time `lockoutMs` after its latest
  failure (`device-identity.service.ts:160`), but is free once its failures leave the
  shorter `failureWindowMs`. (With windows the other way round it still fails for more than
  one failure: the count falls below the limit when the first of them leaves the window.)
* `NoReplay` — a heartbeat sent again is answered 'nonce replay detected'
  (`device-identity.service.ts:215`), and the program handles "replay attempts"
  (`README.md:15`). The nonce of a text that sorts before its instant (an ISO text with a
  negative offset) is deleted by the next `verify` of any device (`evictExpiredNonces`,
  line 274), and the same heartbeat is valid again while it is in time.
* `ArchivedStayDenied` — "Archived devices stay denied until they are restored"
  (`App.tsx:415`); `applyPolicy` never reads `archivedAt`.
* `VerifiedImpliesProvisioned` — "The device completed provisioning ..." (`App.tsx:432`);
  a refused heartbeat takes the device out of `enrolled`, the only status that asks for
  the token.
* `RotationConfirmed` — "Rotating the key will reset this device ... Continue?"
  (`App.tsx:1068`) is asked by the profile shown, which may be another device's when
  answers cross (`App.tsx:838`).
* `RenameKept` — "Alias updated to ..." (`App.tsx:1036`) is undone by enrolling the device:
  the alias form, filled when the device was selected (`App.tsx:1289-1316`), is sent along
  (`App.tsx:1086`).

"Identity outcomes, policy decisions, and enforcement actions are recorded"
(`README.md:26`) holds as `AuditMatchesEnforcement` while the process lives; a crash after
`updateState` loses the record of that change, and `CrashLosesOneChange` is how much.

Seen while modelling and described by the models rather than refuted: `createPlaceholder`
on an existing device clears manual fields the body lacks and changes an alias unlogged
(`rewritten` in DeviceProfile); a refused heartbeat still writes the profile; a crash within
an enrollment lets the device verify without a token (`VerifiedUnenrolled`); "A device is
observed and added/updated in inventory" (`README.md:22`) is not what a heartbeat of an
unknown id does: it has no key, so `verify` rejects it, and the failure it is recorded with
breaks its foreign key (`device-identity.service.ts:294`) before the row is added
(`VerifyThrows`, `ReportThrows`).

## 5. What is proved

`tlapm` checks these for all values of the constants that satisfy the named assumptions:
any number of devices, keys, nonces, texts, rows and crashes, any windows and limits, clock
and logs as long as one likes. Every safety property that a passing run checks is the
statement of a theorem; `PROJECT.json` lists which.

**DeviceIdentityProofs.** Type correctness; `NeverReplayedWhileKept`,
for all texts and settings (the condition `Outlasts` is in the property; `UtcIsoOutlasts`
says that a text in UTC ISO form meets it if nonces are kept as long as the skew, as by
default); `FailuresStayBounded`, for a lockout longer than the window; `LockoutsHold`.
`NoReplayWhileKept` is not inductive: an accepted heartbeat's nonce row is deleted at some
point. `ReplayInv` adds that it is still there or so old that the skew check refuses the
heartbeat. The bound on
failures is inductive, because reaching the limit within the window means being locked
out, which is where the assumption on the lockout comes in. `LockoutsAreShort` (a lockout
has at most `LockoutTime` to go, as failures lie in the past) and `LockoutsNotProlonged` (no
step moves its end while it lasts) are together `LockoutEnds` but for the fairness of the
clock.

**DevicesServiceProofs.** `ServiceKeepsIdentity`: every service step, seen through the
identity variables, is a DeviceIdentity step or a stutter, so its theorems carry over
(`ServiceNeverReplayedWhileKept`). The properties of trust and logs hold each other up, so they are
proved as one invariant, `TrustInv`, for each device by itself: an id without a row has
untouched columns; "pending" means no key; trust or access means a key; the verified key is
the current one; a harmless status has no failures; the latest event explains the status;
the audit log explains the state. One step per handler, with `VerifyEffect` and
`EnforcedEffect` as the two lemmas on what the identity service and a policy decision may
change, and a lemma that leaves the other devices alone. From it follow
`AuditAlwaysExplains`, `TrustRestsOnKeys`, `VerifiedUnderCurrent`, `HarmlessIsUntainted`,
`StatusIsExplained`, `OffersAgree`, `AllowsNeedTrust`, `FirstVerificationsUseTokens`,
`DryRunStaysInert`, and `ServiceImplementsLifecycle`, the refinement of TrustLifecycle step
by step. `LogsAgree` is an induction of its own: the property says that there is an
increasing map from the audit rows onto those requests of the enforcement log that changed
the state, and each handler extends the map by one row or leaves it as it is.

**DevicesServiceCrashProofs.** A crash makes the next handler compute on what a prefix of
writes left, so `TrustInv` is not an invariant any more. `CrashInv` is what is: the file
computed on and the committed one are each `Sound` (references, keys behind trust, no nonce
spent twice); the disk differs from what was computed only in what `todo` has left
(`LagInv`), and those writes keep to `Precedence`, the pairs of tables that the code writes
in this order and that the soundness of a prefix rests on (the device before what refers
to it, the key before the trust, the nonce before the effect, the state before its audit
row), and an eviction of `verify` is followed by the write that completes its table
(`Completed`, `NoneExpired`); devices that no crash has torn since their last enrollment satisfy all of `TrustInv`
(`HealInv`); and the gaps of the audit logs are counted (`GapInv`: one for each crash, and
one more at the end of the log of the device being served). Seven theorems follow,
`AllowsSurviveLostStatus` from the lockout being recomputed. `DiskFollows` and
`TokensSpentFirst` are about the steps of the disk, which `CrashInv` says too little of:
`MoveInv` adds, per device, from which status and access on disk which computed ones may be
under way (`StatusMove`, `AccessMove`), that a token is used up when its device goes from
enrolled to verified (`TokenMove`), and that an id without a row has nothing to move from.
So the one statement that changes trust or access on disk is an action of the lifecycle. A
move from pending to verified needs a key and a crash that nobody has healed since: the case
of `VerifiedUnenrolled`.

**DeviceProfileProofs.** Type correctness, `SourcesBackValues` (a lemma per `resolve*`
helper on what sources it can write), `PrecedenceAlwaysHolds` and `AliasesTold`.

**SchemaMigrationProofs.** `MigrationInv`: the committed file is well-formed after every
statement; `Progress`, what each phase may rely on (a table is current or still to be
looked at, foreign keys are off exactly within a rebuild, the transaction is open exactly
from `Begin` to `Commit`); `Rebuilding`, what the connection sees at each statement of a
rebuild; and no row is lost. `RowsKept` alone is not inductive: that `Drop` takes no other
rows along needs foreign keys off, and that a crash brings them back needs the transaction
open. `TrustSurvivesStarts` follows with a lemma that the copy keeps every status but the
ones that become pending. `StartsImplementUpgrade` is the refinement of FileUpgrade: within a
transaction the disk rests, and its commit is `Upgrade`, as `Rebuilding` says what the
connection saw was the same rows converted. `StartsAdvance` and `CopiesFit` are all of
`StartsEnd` but fairness: `Ahead` counts what a start has still to execute, every step but a
fault lowers it, and the one guard that could hold a start up, that the rows it copies
satisfy the new table's `CHECK`s, never does.

**LogReadersProofs.** Over `MigrationInv`, `ReaderInv`: once a page was served all tables
are current, so no later start rebuilds one and rows are only added (`CurrentStays`); what
the reader left out is older than its cursor or of an instant at which a page ended, and
what it got is not older than the cursor. That a page that is not full is the last one
(`LastPage`) is an argument on ranks: of the rows left out one has the least rank, all
above it are on the page, and there are as many as the page was to have. `PagesAdvance`:
each page but the last ends earlier than the one before it, which with instants that are
natural numbers is all of `ReadingEnds` but fairness.

**DashboardProofs.** `FlagInv`: the tasks are finitely many, their ids differ, and for
each flag at most one is under way; the flags are those of the tasks. That a new task's id
is new is the pigeonhole principle. `FlagsMatchOperations` then says that no button is
disabled without its operation being under way, whatever overlaps or fails.
`NothingIsInvented` is inductive once the answers on their way are counted in: `ServedInv`
adds that each carries rows the server has or had, and that every request but that of a
creation is of a device the server has, so that the creation too selects one once
answered. `OldAnswersRunOut` is the safety half of `ListConverges`: when the list is the
server's and so is every answer still on its way, only a change at the server makes either
differ again.

**Only model-checked.** Liveness under fairness is out of this prover's reach:
`LockoutEnds`, `StartsEnd`, `ReadingEnds`, `ListConverges`, `SelectionConverges`,
`OperationsEnd`; of `ImplementsIdentity` the safety part is `ServiceKeepsIdentity`. What
the first three rest on besides fairness is a theorem (above), and so is the stability
that the fourth ends in; that the guarded steps are enabled is not, and neither is the
counting of `Ahead` and of page ends down to nought, an induction. The claims that section
4 refutes are, of course, only model-checked too.

## 6. What is left

Not modelled, with the reason:

* the CSV and JSON text of exports, the texts of policy-change events, log messages: no
  property is about them; `countSince` of `events.service.ts`: nothing calls it;
* request parsing and validation, `from`, `to` and `before` as texts that are compared as
  such, and ids (`DeviceIdPipe`): instants and ids are model values;
* the filters by event type and severity, which select rows as the device filter does;
* `last_seen` and `last_identity_check`, which no guard reads;
* enrollment-log rows of keys, tokens and archiving against the tables: the rows that tell
  an alias are in DeviceProfile, the paging of all of them in LogReaders;
* in the dashboard, the token shown when an enroll and a reissue overlap (`App.tsx:1096`;
  tokens there are text), typing without saving, the other forms, paging buttons, layout;
* the wiring of the modules and the greeting of the application, which keep no state.

`DevicesService`, `DevicesServiceCrash` and `DeviceProfile` start from a file that this
version created. A file that an older one left and a start rebuilt may hold what no handler
of this version writes: a verified device with no key row (`sqlite.service.ts:325-333` keeps
its status), or a kept vendor or hostname next to the source `unknown`
(`sqlite.service.ts:273-275`). On such a file `VerifiedUnderCurrentKey`, `KeyBacksTrust`,
`DiskKeyBacksTrust` and the first clause of `SourceBacksValue` do not hold of those rows, and
`SchemaMigration` promises only that a start trusts neither more devices nor fewer than the file did
(`StartKeepsTrust`).

Next, in order: the enrollment log against keys, tokens and archiving, as the audit log is
against the state; tokens in the dashboard, with the one the server kept; a dashboard with
two polls and two policy requests under way at a time; service, profile and crash models
that start from a migrated file, and a crash model whose restart migrates, composing all
three with SchemaMigration.
