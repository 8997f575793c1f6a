# Formal models of Monli

Monli is a self-hosted monitoring system. Agents (Rust, `src/agent`) collect
metrics on hosts and post readings to an API (TypeScript, `src/backend`) which
stores them in PostgreSQL, opens, updates and resolves alerts, marks silent
hosts down and sends notifications; a web interface (`src/frontend`) shows and
edits everything.  This directory holds TLA+ models of that program, the TLC
runs that check them and the TLAPS proofs about them.

All file references are to the repository; `targets.service.ts` and its
siblings are in `src/backend/src/services/`.

## 1. The system

| Component | State | Operations |
|---|---|---|
| Alert levels (`utils/alert-levels.ts`) | none | `breaches`, `levelOf`, `assertValidThresholds` |
| Alert lifecycle (`targets.service.ts`, `alerts.service.ts`) | `metric_readings`, `alerts`, `alert_comments`, `target_interfaces` | `submitReading` → `recordReadingValues` → `recordValue`, `setInterfaceMonitored`, `updateAlert`, `resolveAlert` |
| Host-down detection (`jobs/target-status.job.ts`, `host-down.service.ts`) | `targets.status`, `targets.last_seen_at`, host-down alerts | `markStaleTargetsDown` every minute, `openHostDownAlert`, `resolveHostDownAlert` |
| Policies (`templates.service.ts`, `targets.service.ts`, `metrics.service.ts`, `utils/resolve-policy.ts`, the forms of the web interface) | metric catalog, template metrics, assignments, overrides, the agent's list | create, patch defaults, add, patch, remove, assign, unassign, override, poll |
| Metric checks (`metric-checks.service.ts`, `useMetricCheck.ts`) | an in-memory map in the API, another one in the page | request, deliver on the agent's poll, complete, time out on both sides |
| Notification settings (`rules.service.ts`, `destinations.service.ts`, `email-server.service.ts`) | rules, destinations, the e-mail server | create, patch, delete, keep the password |
| Notification delivery (`notifications.service.ts`) | announcements at work, the kept mail client | `notifyAlert` → match rules → load the server → send, one retry |
| Agent scheduler (`src/agent/src/scheduler.rs`) | metrics with their last run, pending readings, the send task, the refresh task | start due collectors, send, put back, refresh |
| Collectors (`src/agent/src/collectors`) | a baseline per metric | sample, compare, store |
| Enrollment (`agents.service.ts`, `src/agent/src/main.rs`, `config.rs`, `install.rs`) | single-use tokens, targets and their keys, the credentials file | mint, claim, register, save, load |
| Sign-in and roles (`src/backend/src/auth`) | users, roles, sessions (better-auth) | create, set role, remove |
| Alert listing (`AlertList.vue`, `listAlerts`) | the page's controls, its URL, the last answer | filter, search, page, poll |
| Metric history (`getTargetHistory`, `MetricChart.vue`) | none | bucket, align, fit the axis |

How they interact.  The agent posts a reading per metric; `submitReading`
takes a snapshot of the policy, marks the target up, resolves its host-down
alert, records one value per device concurrently and completes a pending
check.  Every change of an alert calls `notifyAlert`, which runs on its own.
The job reads targets and policies, marks targets down and opens host-down
alerts.  Users act on alerts, interfaces and policies at any time.  All of the
API is one Node.js process: two requests never run at once but interleave at
every `await`, that is between any two database calls that are not in one
transaction.  Nothing locks a row and few writes are conditional, so what
makes the program hard is what a request still believes when it writes.

What is hard, and where it bites, is listed line by line under "hazards" in
`PROJECT.json`: overlapping requests of one series, readings sent again or
late, users racing readings and each other, a job that fails half-way or
overlaps itself, requests that die between two writes.

What makes each component correct:

* levels: both levels of an accepted policy can be reached, worse values never
  read at lower levels, messages never quote a threshold the value does not breach;
* lifecycle: one open alert per series, opened exactly on a streak, following
  the readings, never open again once resolved, flag and comments in agreement;
* host-down: a target is marked down only when silent (unless an older reading was
  recorded after a newer one), a target that is down has
  one alert, a host that reports has none;
* policies: thresholds are in order wherever a request was judged against what it
  changes; a policy in force changes only with what it comes from; the agent ends up
  with the intervals in force;
* checks: a check shows a reading collected after the request, and each request
  ends, with a result or a time-out;
* notifications: one message per change and destination, never older than its
  change, through the server that was loaded for it;
* agent: one collector per metric at a time, the newest reading is never
  replaced by an older one, one send at a time; a reading is what was counted in the
  time it covers;
* enrollment: a token gives out one key, and the credentials of a host are its own;
* roles: an administrator is always left;
* alert listing: controls, URL and list agree once nothing moves;
* history: every reading is drawn, at its time, and gaps are outages.

## 2. Modules

| Module | Models | State |
|---|---|---|
| `AlertLevels` | `alert-levels.ts` and the threshold quoted in `recordValue` | none (operators) |
| `AlertLifecycle` | readings and alerts (`recordValue`, `recordReadingValues`, `setInterfaceMonitored`, `updateAlert`, `resolveAlert`) | `policy`, `monitored`, `readings`, `alerts`, `comments`; `pc`/`request` per reading in progress, `userPc`/`userRequest` per user request; `sent`, the agent's last reading; `announced`, a history of the `notifyAlert` calls |
| `AlertContract` | nothing in the code: what the alert board promises its readers | `board`, `judging` |
| `HostDown` | status job, host-down alerts, and what `submitReading` and `registerAgent` do to `targets` | `now`, `status`, `lastSeen`, `hostDown`; `pc`/`request` per reading, `jobPc`/`job` per run; `heard` and `unalerted`, histories of what was recorded and of runs that failed half-way |
| `AgentScheduler` | the agent's `scheduler.rs` | `phase`, the loop's next step; `scheduled`, `interval`, `elapsed`, `running` (`MetricState`); `tasks`, the collectors at work; `pending`, `batch`, `posting`; `refreshing`; `collected` and `settled`, histories of the readings |
| `ReadingOutbox` | nothing in the code: what an agent promises about the readings it sends | `newest`, `settled`, `offered`, `underway` |
| `MetricChecks` | "check now": `metric-checks.service.ts` and `useMetricCheck.ts`, for one target | `checks`, the API's map; `page`, `timer`; `posts` and `polls`, the page's calls in progress |
| `PolicyResolution` | catalog, template metrics, assignments and overrides of one target, and the poll by which its agent learns the intervals | `catalog`, `rows`, `lastId`, `assigned`, `overrides`, `targetTeam`; `requests` between their read and their write; `poll`, `agentList` |
| `PolicyForms` | the forms that show a policy and send it back (`TemplateMetricForm.vue`, `MetricOverrideForm.vue`, `MetricDefaultsForm.vue`, `utils/policy.ts`) | none (operators) |
| `NotificationSettings` | rules, destinations, recipients and the e-mail server, by requests that check and then write | `rules`, `destinations`, `users`, `server`, `saves`, `requests` |
| `NotificationDelivery` | the announcements of one alert, beside those requests | `alert`, `announced`, `deliveries`, `transport` |
| `Enrollment` | tokens, `registerAgent`, the installers of several hosts and the credentials they save | `tokens`, `targets`, `issued`; `calls`; `installers`, `files`, `agents` |
| `Collectors` | the sampler shared by the collections of one metric | `baseline`, `collections`; `history` and `present`, the host |
| `AlertListing` | the list of alerts in one browser | `at`, `session`, `url`, `controls`, `sentSearch`, `typing`, `asked`, `shown`, `visible` |
| `Accounts` | users, roles, sessions and the requests of administrators | `roles`, `sessions`, `requests` |
| `MetricHistory` | the history query and the chart's data and axis | none (operators) |
| `MCAlertLifecycle`, `MCHostDown`, `MCAgentScheduler`, `MCMetricChecks`, `MCPolicyResolution`, `MCNotificationDelivery`, `MCEnrollment`, `MCCollectors`, `MCAlertListing`, `MCAccounts` | small instances | |
| `AlertLifecycleProofs`, `HostDownProofs`, `PolicyProofs` (levels, forms, resolution), `NotificationProofs` (settings and delivery), `AgentProofs` (scheduler and collectors), `PageProofs` (checks, history and alert list), `EnrollmentProofs`, `AccountsProofs` | theorems | |

`AlertLifecycle` EXTENDS `AlertLevels`, so its readings are judged by the
translated `levelOf`, and instantiates `AlertContract` with a refinement mapping;
`AgentScheduler` instantiates `ReadingOutbox` with one that hides where readings wait.
`PolicyResolution` EXTENDS it too and checks what gets through `assertValidThresholds`;
`PolicyForms` EXTENDS `PolicyResolution`, whose policies it shows and sends;
`NotificationDelivery` EXTENDS `NotificationSettings`, which changes under its feet.
Definitions of `Collectors` and `AlertListing` carry their module's name (`SamplerSpec`,
`ListSpec`), as one proof module extends each of them beside another component.

**Granularity.** Each awaited database call is one action; code between two
calls belongs to the action before it.  `submitReading` and `recordValue` become

    Begin (policy snapshot) - Admit | Drop (upsert of the interface) - StoreReading
      - FindOpen | FindNone (findFirst of the open alert)
          FindOpen - FollowLevel | ResolveHealthy (alert.update) - Announce
          FindNone - QueryRecent (the last N) - CreateAlert - Announce

and a user's request its check (`ReadForFlag`, `ReadForResolve`,
`ReadForToggle`), its transaction (`CommitFlag`, `CommitResolve`,
`CommitToggle`) and `AnnounceResolved`.  A transaction's writes become visible
together, at its commit; what it read before, it read before: PostgreSQL's
default isolation (read committed) gives no more.

**Abstractions.** A series is a (target, metric, interface) triple; its policy
is one value, and `SetPolicy` may replace it by any other at any time (a
template patch, an override, its removal).  Values and thresholds are integers
(the program's are doubles: only their order matters).  `recorded_at` is the
collection's number: two stored readings with the same number are one report
sent twice, and `Latest` lets the database return rows of equal `recorded_at`
in either order.  Wording, names, priorities and teams are left out, as are
`opened_at` and `resolved_at`.  A failing database call and the death of the
API process are the same step for one request (`Fail`, `UserFail`): what is
committed stays, the rest is never done.  A call that fails at the client but
commits in the database is not modelled.  An `Announce` is the call of
`notifyAlert`, not the delivery.

`HostDown` keeps open host-down alerts only, as a set per target: a resolved
one never opens again.  `heard` is the newest time recorded for a
target, which `last_seen_at` is not after an older reading (`SetBack`); `unalerted`
holds the targets whose last marking was by a run that failed before it opened their
alert.  A tick of the clock is `MIN_DOWN_AFTER_MS`; `DownAfter`
is the code's formula over the constants `MinDownAfter`, `MissedIntervals` and
the target's longest interval.  `Submit` takes a `recorded_at` in the past only
with `AllowLate` and none in the future (no agent's clock is ahead of the API's); without it, `Tick` also waits for requests that could
otherwise become as old as the window (`Prompt`).  What `submitReading` does
between `resolveHostDownAlert` and its end is `AlertLifecycle`'s; the two share
no table row, as the metric of host-down alerts cannot be reported.

In `AgentScheduler` the loop's three calls are three steps, since the tasks run
beside them on other threads; what a task does under the mutex of `pending` is
one step.  Time is counted in ticks and kept no further than it is compared;
the list of metrics is restricted to those the host has a collector for.
`running` is the handle in `MetricState`, `tasks` counts every collector at
work: a metric dropped from the list loses its handle, not its collector.
`MaxTasks` bounds those left behind (it holds back a list that would leave one
more), `MaxReadings`, `MaxLate` and `MaxFailures` bound the rest.  Readings are
numbered in the order they reach `pending`, which for one collector at a time is
the order of `recorded_at`.

`MetricChecks` sees the agent only through what the API does for it: a poll
(`TakeUndelivered`) and a reading (`SubmitReading`) may come at any time or
never.  The page's and the API's ages advance together, as only their length
matters.  A page has one POST per metric in flight: when an entry is given up
before its POST is answered, the user waits for that answer before clicking again.

`PolicyResolution` is about one target.  Writes that look at nothing, and reads that
are one query, are one step; `updateTemplateMetric`, `updateMetricDefaults` and
`setOverride` validate against a row they read and write later.  A poll reads the
templates and the overrides in two queries.  An empty template stands for one that is
not created yet.  A suggestion keeps the interval its metric was created with
(`MergedDefaults`).  `SentPolicies`, `SentOverrides`, `SentPatches` and `SentSuggestions`
are what requests send, valid or not.  `PolicyForms` relates what a form shows, what it lets through and
what it sends; its forms always send whole policies, so the race behind
`InvalidOnlyByStalePatch` needs the partial patches the API takes from other clients.

`NotificationSettings` has a check step and a write step for each request with an
await in between, and one step otherwise.  Ids are never given out twice, names are
left out, and removing a user takes their recipient rows along (the schema's cascade).
`saves` stands for the server's `updatedAt`, so two saves never share a millisecond.
In `NotificationDelivery` an announcement reads the alert, finds destinations with
their recipients, loads the server and starts all sends (what needs no await is part of
that step: the refusals and the choice of the kept mail client), and then each send ends
on its own: answered, refused for good, or failed with a retry, and recorded if the destination is
still there.  A send whose answer is lost may have been received.  `lastStatus` and
`lastError` are left out but for the step that writes them, and so are test messages.

`Enrollment` takes each request apart into its claim of the token and its transaction,
so that an answer may be lost, or the installer killed, around both; a request goes on in the
API after its installer has given it up.  Keys are numbers in the order they are given
out.  `Collectors` advances by seconds; its lock is held for a statement at a time, so
two collections interleave between taking and storing the baseline.  In `AlertListing`
everything the page does until it waits for a timer or an answer is one step; how many pages of
alerts match is open at every answer.  In `Accounts` better-auth looks at the caller
first and writes later; `UpdateTakesRole` leaves open whether its update-user, which
`permissions.ts:27` grants and no page uses, takes a role.  `MetricHistory` has points as sets of readings, so that a
reading that is lost or counted twice shows, and integers for values.

## 3. Runs

Bounds are the constants of each `.cfg`.  "Passing" runs state what holds;
"violation" runs show where the code departs from what its own comments say.

| Run | Instance | Checks |
|---|---|---|
| `lifecycle_faulty` | one interface series, streak of 2, 3 stored readings, resends, failures, one user | `TypeOK`, `OneOpenAlert`, `AlertTellsAReading`, `FlagMatchesComments`, `ImplementsContract` |
| `lifecycle_streaks` | the same without resends and failures, two policies that replace each other | `StreakHasAlert`, `HealthyResolves`, `CriticalWasAnnounced`, `OpensOnStreak` |
| `hostdown_faulty` | one target, three ticks, two readings at once, late readings, one failing call, enrollments, users | `OneOpenHostDown`, `DownOnlyWhenSilent`, `ReportingHostIsCleared` |
| `hostdown_prompt` | two targets with different windows, prompt readings, enrollments, one failing call | `DownHasAlert`, `SilentHostIsAlerted` |
| `scheduler` | two metrics, a list without the second one, two collectors at once, one failing call, a skipped tick | `NewestIsKept`, `CheckNotForgotten`, `ImplementsOutbox` |
| `checks` | two metrics, one `pollPending` at a time, the API's time-out one tick longer than the page's, one API restart | `PolledWhilePending`, `ListedWhileWaited`, `PageCheckEnds` |
| `policies` | one metric, two templates, two requests at once, seven changes, customizations at every boundary (equal, unset, upward and downward thresholds, `eq`), valid or refused, partial patches that are valid one by one | `TypeOK`, `CustomizedLevelsInOrder`, `CustomizingKeepsPolicy`, `InvalidOnlyByStalePatch`, `ChangesOnlyAtItsSource`, `AgentLearnsIntervals` |
| `notifications` | two announcements, two requests at once, a webhook and a mail destination, three mail accounts of which one takes mail unsigned, a server saved before or not | `TypeOK`, `PasswordIsTheAccounts`, `MailGoesThroughLoadedServer`, `MessageIsNotOlder`, `OneMessageEach`, `LosesRecipientsOnlyByRace` |
| `enrollment` | three hosts of one name, two of them of one address, two tokens, two requests at once | `CredentialsAreOwn`, `TokenGivesOneKey` |
| `collectors` | two counters or devices, two collections at once, three seconds | `ReadingIsWhatWasCounted` |
| `alert_list` | one filter, one search, three pages, three links | `ListTypeOK`, `UrlKeepsTheList`, `AnswerKeepsPageThere`, `ListCatchesUp` |
| `last_admin` | two users, two requests | `AnAdminIsLeft` is violated |

The type invariants of `HostDown`, `AgentScheduler`, `Collectors`, `MetricChecks`, `Enrollment`
and `Accounts` are theorems (section 4) and not part of a run.  What used to be a run of
`AlertLevels` alone is `CustomizedLevelsInOrder`, on the policies the API lets through,
beside the theorems of `PolicyProofs`.

Why the bounds are enough.  The lifecycle of an alert is three readings long:
breach, breach again (opens under a streak of 2, or follows under 1), and a
third that resolves, drops or escalates; a second alert can then follow in the
same series (two ids).  Values 0, 1 and 2 stand for the three levels.  One user
suffices against two readings for every race of a check with a write.  In `HostDown` four ticks let a target be
seen, fall silent, be marked down, report, and fall silent again; a longer
window (`db`) makes the job skip a candidate.  In `hostdown_faulty` three ticks let a
reading from the first arrive after one of the last and the target be marked down by
it; in `hostdown_prompt` the one failing call comes before, between or after a run's
marking and its alert.  Handlers, users and alert ids are
symmetric in the safety runs; no run with a liveness property uses symmetry.
In `AgentScheduler` the metric that comes and goes has two readings, enough for one
to be put back against a newer one, and the other one, so that a batch can fail
in the middle.  In `MetricChecks` two metrics make the page fetch for one what it
then applies to the other; its time-out of one tick and the API's of two keep
their order.  In `policies` two templates make the source of a policy change, two
requests race on one row, and seven changes are enough to create, add, customize,
unassign and patch twice; the customizations sent include the equal and inverted
thresholds that must be refused.  In `notifications` two announcements share the kept client,
two requests race each other and the announcements; from a server saved at the start one
of them keeps its password while the other saves another account in between; the accounts
differ in whether they sign in, so that a save may come without a password.  In `enrollment` two tokens let an
answer be lost and the host enroll again, while a host of the same identity and one of
the same name do so too.  Three seconds in `collectors` let a baseline be taken, replaced
and compared after a reset.  In `alert_list` three pages let a count shrink past the
page and past the one before it.  Deadlock is not checked where everything may end: `policies`
(changes used up), `notifications`, `enrollment`, `collectors` (bounds used up) and
`last_admin` (nobody is left to act); in the others users, timers or the clock always
have a step.

Overlap (`AllowOverlap`) is off in the lifecycle's passing runs because the
agent sends one batch at a time, reading by reading (`start_send`,
`send_batch` in `scheduler.rs`): the next reading of a series leaves after the
answer to the last one.  Only when the agent gives up waiting (a 30 s time-out,
`api_client.rs`) may the old request still run; what happens then is listed below.

**Fairness.** `FairSpec` in `HostDown` assumes weak fairness of the clock, of
every request that has started and of every run of the job: the event loop runs
what is ready, awaited calls return (a call that throws is `JobFail` or
`RequestFail`), and the timer keeps firing.  `ReportingSpec` adds weak fairness
of `Submit` per target: the host keeps reporting.  Nothing else is assumed; in
particular no user or enrollment ever needs to act.  `FairSpec` in `MetricChecks`
assumes that time passes, that the page's calls end, by an answer or a failure,
and that the interval timer fires while it is set; no agent and no answer of
any kind is promised, so `PageCheckEnds` rests on the page's own time-out.  `FairSpec`
in `PolicyResolution` assumes that requests in progress end, that the agent polls again
and again, and, strongly, that the queries of a poll succeed and its answer arrives if they are tried often
enough: the agent's refresh timer never stops, and a network that loses every answer
promises nothing.  `FairSpec` in `AlertListing` assumes that the page's timers fire and, strongly,
that a list asked for again and again is answered, with a list or a 401; nothing is assumed of
users, and `ListCatchesUp` is about the time after they stop.  `AlertLifecycle` states no
liveness property: an alert is promised only to the extent that readings come.

### What the violation run shows

* `last_admin`: "An admin can't change their own role, so there's always one admin
  left" (`auth.ts:23`, and `users.vue:146`) holds for one administrator at a time; two who demote
  or remove each other both pass the check of the caller before either write, and none is
  left.  `db/seed.ts` creates the default administrator again only when no user is left.
  `OnlyARaceOrUpdateLosesTheLastAdmin` proves that nothing else loses the last one, but
  for an administrator's update-user where that takes a role (`UpdateTakesRole`, FALSE
  in the run): `permissions.ts:27` grants `user:update` too and the hook looks at
  `/admin/set-role` only, so one request about oneself would do.  Whether it takes one is
  the library's affair, which is not in this repository.

### Seen while modelling, not kept as runs

In the API:

* `recordValue` finds no open alert and creates one in two calls, and no unique
  constraint backs "One alert per (target, metric, interface)" (`targets.service.ts:349`,
  `schema.prisma:204`): with `AllowOverlap` `OneOpenAlert` fails.
* `monitored` is read before the reading is recorded; an alert opened after the
  switch stays open, since no reading follows, contrary to the comment at
  `targets.service.ts:496`.
* `resolveAlert` checks and writes in separate calls and its update does not match
  the status, so two resolutions are both announced; `notifications.service.ts:11`
  promises one message.  An acknowledgement may likewise be written to an alert
  resolved since its check (`alerts.service.ts:87`).
* A reading that found an alert open before a user resolved it still writes its value,
  severity and subject to the resolved alert (`targets.service.ts:351`), which the list
  shows (`AlertRow.vue:58-80`); if it is healthy it resolves the alert a second time, with a
  new `resolved_at` and another announcement.  `ImplementsContract` allows this to the
  one reading being judged at that moment (`judging`) and to nothing after it.
* A run of the job that fails after marking a target down leaves it down without an
  alert; it is no candidate for the next run, though `target-status.job.ts:48` says a
  failed run is retried.  `DownHasAlert` and `SilentHostIsAlerted` hold with failures but for these
  targets (`unalerted`).  Two runs at once open
  two host-down alerts (`host-down.service.ts:26`).
* A late reading moves `last_seen_at` back to its `recorded_at` (`targets.service.ts:440`),
  so a host heard within its window can be marked down, against `PROJECT_PLAN.md:68`, which
  measures from `now()`.  `DownOnlyWhenSilent` judges a target by that reading where this
  has happened (`SetBack`), and by all that was recorded where not.  And two overlapping readings with different `recorded_at`
  can leave a down target without an alert.
* A rule saved between `deleteDestination`'s check and its delete loses its link and is
  left sending nowhere (`destinations.service.ts:117`), against the comment at line 114
  ("so no rule is left silently sending nowhere").
* With resends one report stored twice is a streak of two (`PROJECT_PLAN.md:60`).
* A delivered check is completed by a reading the agent had collected before the
  request and sent late (`metric-checks.service.ts:94`).

In the agent:

* A metric dropped from the list while its collector runs and listed again gets a
  second collector beside the first (`scheduler.rs:209`; "skip while running" at
  `scheduler.rs:4` holds per listing only).  `ReadingIsWhatWasCounted` shows that the
  baseline they share survives it.
* "a spent or expired token leaves an existing install running untouched"
  (`install.rs:5-6`) holds for the token, not for the installation: when the answer to an enrollment is
  lost, `registerAgent` has already given the target a new key
  (`agents.service.ts:57-99`), and the running agent's own key stops working
  without anything on the host having changed.

In the web interface:

* `check` registers its entry before its POST is sent, and a list fetched for another
  metric before the API has the request ends it as lost, which `useMetricCheck.ts:24`
  reserves for a check the server does not have.
* "so the lines are always visible" (`MetricChart.vue:81`): when everything shown is
  negative, 1.05 times the highest value is below it (`AxisCutsNegatives`).
* A chart has 61 to 337 slots, with a partial bucket at each end, not the 60 to 336
  points of `targets.service.ts:545` (`SlotsPerChart`).
* "A command for one OS must not linger after switching to another"
  (`AddAgentPanel.vue:56`): `selectOs` clears it, but an answer that was asked for
  before the switch still fills it in, as the buttons stay enabled meanwhile.
* Two picks of a role in one row of `users.vue`, the first of them refused late,
  revert the row to what it was before both (`users.vue:55-66`).
* A link to a later page of another tab, followed from page 1, leaves its `page` in
  the URL while page 1 is shown (`UrlKeepsTheList` excepts it); a link or the Back button
  past the end is not put right unless the number of pages changes
  (`AnswerKeepsPageThere` therefore speaks of pages that were there); and a poll
  cancels the request in flight, so answers slower than the interval never
  arrive (the strong fairness of `FairSpec`).

## 4. Proofs

Every invariant and every action property of the passing runs is a theorem; only
liveness is model-checked alone.  The theorems hold for every value of the
constants, from the named assumptions of the modules
(`NoThresholdAssumption`, `InterfaceAssumption`, `PolicyAssumption`,
`FlagAssumption`, `NoAlertAssumption`, `HostDownAssumption`,
`SchedulerAssumption`, `CollectorsAssumption`, `ChecksAssumption`, `EnrollmentAssumption`,
`SettingsAssumption`, `DeliveryAssumption`, `ListingAssumption`; TLC evaluates each of
them) and the hypotheses a theorem states.  `SettingsAssumption` says that what is
in the tables at the start is consistent, as the schema's foreign keys make it: a saved rule
sends to saved destinations.

| Theorem (`AlertLifecycleProofs`) | States | Provided requests of a series | Inductive invariant |
|---|---|---|---|
| `TypeCorrect` | `TypeOK` | | `TypeOK` |
| `FlagIsCommented` | `FlagMatchesComments` | | `FlagInv` |
| `AtMostOneOpenAlert` | `OneOpenAlert` | do not overlap | `SerialInv` |
| `ContractImplemented` | `ImplementsContract` | do not overlap | `TellsInv` |
| `ShowsAReading` | `AlertTellsAReading` | do not overlap | `TellsInv` |
| `HealthyReadingResolves`, `CriticalIsAnnounced` | `HealthyResolves`, `CriticalWasAnnounced` | do not overlap, do not fail | `FollowInv` |
| `AlertsOpenOnStreaks` | `OpensOnStreak` | do not overlap, are not sent again | `OrderInv` |
| `NoStreakMissed` | `StreakHasAlert` | do not overlap, do not fail, are not sent again | `StreakInv` |

* `AlertLifecycleProofs`.  Each hypothesis is needed: section 3 says what happens with
  overlap, a request that dies after storing its reading never judges it, and a reading
  stored twice counts twice in a streak.  `TypeOK` includes that an alert a
  request has found is there when it writes.  `OneOpenAlert` is not inductive:
  `CreateAlert` does not look again.  `SerialInv` adds `OneRequestPerSeries` and
  `CreatesWhereNoneIsOpen` (a request past its find is at a series that still has
  no open alert), which holds because only another request of the same series
  could open one, users only resolve, and `FollowLevel` never reopens.  `TellsInv` adds what a request may
  believe when it writes: the reading it judges is its series' newest
  (`JudgesNewest`), and the alert it has found is the only open one, at the severity it
  saw, or was resolved by hand since (`FoundStays`).  The refinement
  hides nothing of an alert, so `TellsInv` is what it needs: `Raise` that no other alert of
  the series is open, `Judge` that no other request has found the alert, and `Follow` and
  `Recover` that the alert they write is the one they found, which may be resolved by now.  `FollowInv` adds that an open alert
  of a series at rest follows the newest reading and was announced at its level.  `OrderInv` adds that
  readings are stored in the order of their times, so that the last n by
  `recorded_at`, whatever order the database returns ties in, are the last n stored
  (`LatestAreLast`), and that a request at its create has seen a streak that still stands.  `StreakInv`
  joins them: a streak is answered by an open alert or by one a user resolved at its
  newest reading.  `StepEffects` says once what each action writes
  (`Begins`, `Stores`, `Follows`, `Creates`, ...); the later proofs argue about these effects
  and not about the actions.
* `HostDownProofs`: `TypeCorrect`, that is `Spec => []TypeOK`, with any number of
  runs and requests at once.  `AtMostOneHostDown`: with one run of the job at a
  time (`OneRun`, the timer's interval being far longer than a run)
  `Spec => []OneOpenHostDown`; `OneRunInv` adds `CreatesWhereNoneIsOpen`, a run
  past its find is at a target without an open alert, which everybody else can
  only close.  `MarkedDownOnlyWhenSilent`: `Spec => DownOnlyWhenSilent`, without
  any such condition: the run's clock is never ahead of `now`, and its update only
  matches the `last_seen_at` it judged.  `HeardHostsStayUp`: with `InOrder` (readings neither
  late nor overlapping, no host enrolling again) `last_seen_at` is never set back, and nothing of
  the whole window was recorded.  `DownTargetsHaveAlerts`: with `PromptOnly` (a target's
  requests one at a time, readings not late, nothing resolved by hand; calls may fail; the
  instance of `hostdown_prompt`) `Spec => []DownHasAlert`, with any number of overlapping runs.  The
  danger is a reading whose resolve comes after the target was marked down again; `PromptInv` has
  that such a request is younger than the window (`RequestsPrompt`), so its target is still up
  (`UpWhileResolving`).
* `PolicyProofs`, of the levels: `WarningTripsFirst` (whatever reaches critical under an
  accepted policy has tripped warning), `LevelsReachable` (no threshold hides the
  other), `QuotedThresholdBreached`.  The condition `eq` is excepted where it must
  be: it accepts any two thresholds.  Of the forms: `FormMirrorsApi` (their own check is
  `assertValidThresholds`), `CustomizingChangesNothing`, `DefaultsStayAsShown` (saving a form as it
  opened changes nothing, the suggested interval included) and `RecheckingRestores`.  Of the specification: `TypeCorrect`,
  `CustomizingKeeps`, `CustomizedInOrder`, `InvalidByStalePatch` and
  `PolicyChangesAtItsSource`.  Their invariant, `IInv`, has the tables (`Tables`: ids of rows
  are unique, customizations are valid), what each request's check found (`InProgress`) and
  the agent's side (`Agent`).  That the source of a policy is one row needs a least id to exist
  (`LeastExists`, from the library's well-foundedness of the naturals).
* `NotificationProofs`: `TypeCorrect`, `PasswordOfItsAccount`, `MailIsSentAsLoaded`,
  `MessagesAreCurrent`, `MessageOnce`, and of steps `RecipientsLostOnlyByRace`.  One
  invariant carries them: `SettingsInv` has what every request's check found and what is still
  true of it at its write (a password kept across a save is the one of the account that was
  there, and the account did not change), `ClientInv` that the kept client was built from the row its
  `updatedAt` names, `DeliveriesInv` that an announcement is never ahead of the alert and that
  what a destination got fits how far its attempts are.
* `AgentProofs`, of the scheduler: `TypeCorrect`, including that a busy handle is of a
  scheduled metric with a collector at work.  `NewestReadingIsKept`:
  `Spec => []NewestIsKept`, inductive together with the types: `StartSend` needs
  that nothing is in flight when it empties `pending`, and `PutBack` that it yields
  to what is there.  `RequestedCheckRuns`: `Spec => CheckNotForgotten`.
  `OutboxImplemented`: `Spec => ImplementsOutbox`; `OutboxInv` adds to `NewestIsKept` that what waits is newer
  than what is being sent, and that newer than what was settled (`ReadingsInOrder`), so that a send
  that starts offers just the newest unsettled readings.  `SettledInOrder` is what the agent knows of it: answers
  come in the order of the readings, and what leaves is newer than all that was answered.  It is
  why `AlertLifecycle` takes one request of a series at a time; a reading whose answer was lost is sent
  again and may be stored twice, which is its `AllowResend`.  Of the collectors:
  `SamplesAreOrdered` and `ReadingsAreCounted`, `SamplerSpec => []ReadingIsWhatWasCounted`.  `SamplerInv`
  has that the baseline and whatever a collection holds are samples of the host's history, and
  `HistoryInv` relates any two of its seconds (`Grew`): a counter grew by what was counted, or by less
  if it began anew.  So it does not matter whose baseline a collection takes.
* `PageProofs`, of the checks: `TypeCorrect`; `AnsweredIsPolled`,
  `Spec => []PolledWhilePending`: every step that stops the timer looks at the
  entries that are left at that moment, so calls may overlap in any number; `WaitedIsListed`,
  `Spec => []ListedWhileWaited`: an API entry is never older than the page's that waits for it
  (`ChecksNoOlder`), and its time-out is no shorter.  Of the history:
  `EveryReadingIsDrawn`, `GapsAreOutages` (the database counts
  buckets from the epoch, the chart counts slots from the range's start; they meet because
  both divide by the same bucket), `SlotsPerChart`, `AxisFits`, `AxisCutsNegatives`.  The first
  assumes that the database's clock, read by the query, is not ahead of the API's, read
  after it: one host's clock serves both in the deployment of `docker-compose.yml`.  Of the list:
  `ListTypeCorrect`, `UrlFollowsControls` and `AnswersKeepPage`; their invariant is the types with
  `UrlKeepsTheList`, and what makes it inductive is `LinkKeepsList`: keys of a link that are those of the
  URL already are what the controls say.
* `EnrollmentProofs`: `TypeCorrect`; `CredentialsStayOwn`, that is
  `Spec => []CredentialsAreOwn`; `TokensAreSingleUse`, `Spec => TokenGivesOneKey`.  The
  invariant follows a key along its way: `TablesInv` says what a claim has found, that
  only used tokens have keys, that keys were issued, and that each target's is that of a
  token bound to it; `HostsInv` that every installer waits for a call of its own and
  that credentials are for a target of the host they are at, with a key no newer than
  the target's, wherever they are (answers, installers, files, agents).  A new key replaces the target's, and the old one is
  then less than it, which is why `Own` allows for that.
* `AccountsProofs`: `TypeCorrect`; `OnlyARaceOrUpdateLosesTheLastAdmin`; `OneRequestKeepsAnAdmin`,
  what `last_admin` violates does hold as long as one request is in progress at a time and
  update-user takes no role.
  They assume that `Null` is not a role.

The proofs have one step per action and, below it, one per conjunct the action
can disturb; `HandlerMoved`, `HandlerFinished` and their like carry the type
invariant through the control part of each action.  The inductive invariants of the alert
lifecycle, the notifications, the policies and the checks were first checked by TLC on the
instances of the runs.

Model-checked only: the liveness properties (`AgentLearnsIntervals`, `PageCheckEnds`,
`SilentHostIsAlerted`, `ReportingHostIsCleared`, `ListCatchesUp`), which are out of the prover's
reach, like `ENABLED`; and `AnAdminIsLeft`, which is violated.

## 5. Not modelled, and the plan

Modelled in part, and what is left out of each: alert levels (rendered messages and
number formats), the lifecycle (operations that delete do not exist), alert listing (the
query's filters one by one, the comments of an open row), delivery (test messages,
payloads, recorded errors), roles (passwords, names, the better-auth library), collectors (reads
of the operating system), installation (file system and service-manager calls), metric
history (drawing), the web interface (pages that load once and render).  The HTTP
surface is modelled as far as it decides which operation runs, for whom and with
what input: its checks are in the operations' guards and its schemas in the sets of
inputs.

Not modelled at all: cryptography (`secret-box.ts`, `api-key.ts`), calls of a library
without state of their own; and the two time-outs of one delivery (10 s for the request,
2 s before the retry) as lengths of time.  Delivery promises nothing in the end: a
process that dies loses its announcements, so there is no liveness property.

Worth adding, in this order:

1. A composition of `ReadingOutbox` and `AlertLifecycle` that derives `~AllowOverlap`
   and, without lost answers, `~AllowResend` instead of assuming them.
2. An abstract specification of the notifications (what an announcement owes each
   destination), with the refinement proved.
3. Liveness of the scheduler: a pending reading is settled while the server answers.
