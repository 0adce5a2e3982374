# Signal Room, specified

This directory holds TLA+ specifications of the parts of Signal Room in which
several tasks, processes or failures meet, the TLC configurations that check
them on small instances, and proofs of their safety properties for every
instance. `PROJECT.json` maps every definition to the lines it models.

## The system

Signal Room watches a homelab: it polls providers, turns what they report into
health, health into incidents, and incidents into alerts. It runs as several
processes.

| part | state | operations | talks to |
|---|---|---|---|
| core (`core.py`) | one SQLite database behind one connection, one write lock | JSON-RPC on four Unix sockets, a task per request; a maintenance loop | everything below |
| health aggregation (`db.py`) | `check_state`, `asset_state`, samples, rollups | `record_provider_batch` | called by the engine |
| incident engine (`engine.py`) | `incidents`, `incident_assets`, `incident_events` | `process_batch` | the database, several calls per batch |
| notification outbox (`db.py`) | `notification_outbox`, `notification_enabled` | queue, due, mark, heartbeat | fed by incident events |
| notifier (`notifier.py`) | nothing durable | heartbeat, fetch, post, mark, dead-man | core; the webhook |
| collector (`collector.py`, `providers.py`) | a cache of task logs | a loop per provider, a heartbeat loop | providers; core |
| operator mutations (`db.py`, `api.py`) | incident versions, idempotency keys, audit | acknowledge, note, close, maintenance | web |
| event stream (`api.py`) | `stream_events`, subscriber queues | append, broadcast, replay | web clients |
| retention, backup (`db.py`, `core.py`) | every table | `cleanup`, `backup_to` | maintenance loop, timer |
| maintenance windows (`db.py`, `api.py`) | windows, idempotency keys | create, cancel | web; read by the engine |
| web (`api.py`, `auth.py`) | key cache, rate windows | verify, limit, route | core; the identity provider |
| migration (`migrate.py`) | schema, backups | migrate, restore, verify | the database file |
| installer (`deploy/`) | release links, services | install, roll back | systemd, migration |
| console (`frontend/`) | operation keys, view state | render, mutate, reconnect | web |

Hard to test, and so the subject of the properties: tasks of the core that
suspend at every `await` between an unlocked read and the write based on it;
reads on the one connection that see what an open transaction has written and will
not commit;
calls that the caller has given up and the core still carries out; crashes
between two commits; a switch (maintenance window, webhook configuration) that
is turned in the middle of something; queues, replays and caches that are cut off
at a limit; rows that one table deletes and another names; a file that is
replaced in several steps. `PROJECT.json` lists them as hazards,
each at its line, with the properties that watch it.

## The modules

### Topology, IncidentEngine

`Topology` is the configured dependency graph and the two orders the engine
derives from it: in which order `_ancestors` lists what an asset depends on, and
in which order `process_batch` reconciles the assets of a batch. The loader only
accepts acyclic graphs, which is an assumption here.

`IncidentEngine` models `process_batch` with every database call it makes.

* `check` and `asset` are the health columns of `check_state` and `asset_state`,
  `incident` the incidents in the order in which they were written, each with its
  members and the alerts queued for it, `maintained` the assets under an open
  maintenance window. All reads share the writer's connection, so these are the
  rows as an open transaction has them; `saved` is what they were before a
  transaction that is going to fail, and `Committed` the incidents without it.
* `task[h]` is one `ingest_batch` request: where it is (`pc`), the assets of its
  batch still to reconcile (`todo`), the representative observation of each
  (`reps`), and the local variables of `_reconcile` and `_handle_recovery`.
* `Ingest` is the transaction of `record_provider_batch`. `ReadState`,
  `CheckMaintenance`, `Correlate`, `FindActive`, `CreateIncident` or
  `CreateRefused`, `Reopen`, `AttachAsset` and `EscalateIncident` are the steps
  of `_reconcile`, one per database call; `ListContaining`, `MarkRecovering`,
  `VerifyRecovery` and `Resolve` those of `_handle_recovery`. Between two of
  them any other task may run. `CreateRefused` is the unique index on active
  fingerprints raising `IntegrityError`, which ends the batch.
* Every action that writes either commits or fails after it has written
  (`Writes`). Until `RollBack` restores the rows and ends the batch, other tasks
  read what is never committed, and none can write, as the lock is held. An
  incident whose creation was rolled back stays in the sequence as `undone`, so
  that a task that has read it still refers to it: its `AttachAsset` is refused by
  the foreign key (`AttachRefused`), and its other statements change no row.
* `Crash` is the core dying and starting again. `ToggleMaintenance` is a window
  opening or closing.

Abstractions. Time does not pass in numbers: whether an observation is late,
whether an ancestor was seen within the correlation window and whether a
resource warning is old enough are choices, so the properties hold whatever the
clock says. Counters stop at the largest value the code compares them with.
Reads of several statements with the same outcomes as one are one step. The
statements of a transaction become visible together. A
provider has one request in flight, as its loop awaits the answer, unless
`AbandonedRequests` lets its ten-second deadline pass while the core goes on; no
run does, the proofs cover it.
The collector draws a new `run_id` for every run, so `record_provider_batch`
never meets one twice. Delivery is assumed to be switched on; switching it off is
the subject of the next module. Incidents closed by an operator are not yet here.

### AlertDelivery, NotificationOutbox

`AlertDelivery` says what the outbox promises of every alert: it is posted only
while it is pending, ends as delivered only after the receiver confirmed a post,
as a dead letter only after `MaxAttempts` posts, and an end is final. An alert whose
transaction fails can be posted once, and is then forgotten.

`NotificationOutbox` is how the core and the notifier keep that promise.

* `outbox` has a row per alert, `enabled` is the value the last heartbeat
  recorded. `requests` are the notifier's calls that wait for the write lock, in
  the order in which `asyncio.Lock` serves them.
* `notifier` is the notifier process: `pc` is the call it waits for or the step
  it takes next, `items` what is left of the fetched batch, `result` what came
  of the last post.
* `Queue` is an incident event with `notify` whose transaction commits,
  `QueueFails` one whose transaction fails later: its row is `written` until `Undo`
  rolls it back. `due_notifications` takes no lock and reads on the connection of
  that transaction, so `Fetch` can return a written row; the notifier posts it, and
  the mark, which waits for the lock, finds no row. `Apply` is the core
  carrying out the first call that waits. `StartCycle` to `DeadmanAnswered` are
  the steps of `run_once`, `_deadman` and `run_forever`.
* `TimeOut` is the notifier giving up a call that the core keeps. `RollBack` is a
  failed transaction, `CoreCrash` and `NotifierRestart` lose what the process
  held in memory; a restart may read another configuration.
* `posts` and `accepted` are history: how often each alert was posted, and how
  often the receiver confirmed that with a 2xx answer.

Abstractions. Rows are numbered in the order of their creation. Time is a step
that makes a rescheduled row due. Settled rows are never removed here (retention
removes them in the program). The order in which alerts arrive is not promised
by the code and not stated. A receiver that accepts an alert whose answer is
lost is a post that was not confirmed: the code retries it, and the event id
lets the receiver discard it.

### OperatorMutations

`OperatorMutations` follows acknowledge, add note and close of one incident from
the button of a console page to the commit and back.

* `row` is the incident with the log of its changes, `records` are the
  idempotency records, `tx` is the one open write transaction with the row as it
  has written it, `requests` are the mutations that wait for the write lock.
* `page[c]` is what a console page keeps: the incident it shows, a key with its
  signature per operation (`OperationKeyStore`), the draft of a note, the
  mutation it waits for and the answer that has arrived.
* `Submit` is a click: the key is kept if the signature is the same, else a new
  one is drawn. `Begin` is the mutation in the core up to its commit: the record
  of the key is looked up, then version and state are compared, then the row is
  written. `Commit` stores the record in the same transaction. `Succeed`,
  `Conflict` and `Fail` are `onSuccess` and the two ways of `onError`.
* `GiveUp` is a call that takes ten seconds or whose answer is lost: the core
  finishes it all the same. `Refuse` is a request that never reaches the core.
  `RollBack` is a failed transaction, `Crash` the core dying, `Expire` a record
  older than a day being cleaned up. `Move` is a transaction of the engine.
  `Refetch` is the page reading the incident again. It reads what an open
  transaction has written, as all reads share its connection.

Abstractions. A change is a name: its author and a number, and a mutation's is
its key; a text is a number, and an operator never types the same text twice. A
successful answer shows the incident as it is when the answer arrives, which is
the same as a refetch right after it. Only records whose key a page still holds
expire: the others are never looked up. Reloading a page, which forgets its
keys, is opening another page. The engine's changes stand for every change that
is not an operator's; how they come about is `IncidentEngine`.

### EventStream

`EventStream` follows an event from the row that a transaction appends to what a
console page shows.

* `committed` and `open` are the stream in the core: the last row that is
  committed, and whether a transaction has appended the next one. `Rows` is
  `stream_events_after`, which reads on the connection of that transaction and
  so also returns its row; `RollBack` frees the number of the row again.
* `web` is the `EventBroadcaster` of the web process: its cursor, its history and
  the answer it is about to hand out. `Poll` and `Broadcast` are `_run`.
* `page[c]` is a console page with its connection: `last` is the number the
  browser sends as `Last-Event-ID`, `replay` and `queue` are what its `generate`
  still has to send. `Connect`, `Replay`, `SendReplayed`, `SendQueued` and `Lose` are
  the route; `Release` is a broken connection's slot becoming free when the web
  process notices.
* `view[c]` is the query of the page, its overview or its list: what it shows, and
  the request it waits for. An event only invalidates it (`Invalidated`): that
  starts a request, which replaces one under way unless that is the first.
  `Answer` is the core reading, `Show` the answer arriving, `Fail` a request whose
  repetitions failed too: the page then shows an error instead of its data.
* `FallBack` is the polling of a page whose stream is not live, `Return` a page
  that becomes visible or online again, a list that is opened again, or the button
  under an error.
* `skipped` and `reused` are history: what a limit dropped, and which numbers
  were used twice.

Abstractions. A row is its number. Topics are two: one that only the overview
shows, one that a list also shows. One query of a page is followed: a page whose
overview fails also hides its list, which is then read again with it. The five
seconds in which a list that is opened again is not read again are left out, as an
invalidated one is. Between its steps anything may happen, so the interval of the
polls and of the heartbeats does not matter. A broadcaster's batch is handed out in one
step, as `_run` does without an `await`.

### Retention

`Retention` is the database over time: what is written, what the hourly
`cleanup` rolls up and deletes, and what a chart shows of the rest.

* `samples`, `rollups`, `incidents` and `alerts` are rows of one asset and of the
  incidents with one fingerprint, each of which names the one before it.
* `Cleanup` is the transaction of `cleanup` when it commits; `CleanupFails` is the
  foreign key refusing it, which ends the task of `_maintenance_loop`. `Restart`
  starts the loop again.
* `Shown` is what `_rpc_metrics` makes of an hour that has samples, a rollup or
  both. `recorded` and `overwritten` are history.

Abstractions. Time is in ticks, with ages as small numbers; the relations
between the code's days and hours that matter are kept (an hour is several
ticks, samples leave before rollups). A cleanup is never late. Incidents of other
fingerprints do not refer to these. Audit events, stream events and idempotency
records have no relation to other rows; the last two are in the modules that
read them. Metric averages carry no decision.

### MaintenanceWindows

`MaintenanceWindows` follows the form of a window and the button that cancels
one from the page to the database and back.

* `windows` and `records` are the rows; `page[p]` is `MaintenancePage`: what it
  waits for, the key of the form and of each cancellation, and the list it shows.
* `requests` are on their way to the core. `Perform` is one of them in full, as the
  write lock admits one at a time; in which order they arrive is open, as those
  that were given up may be late. `Verdict` is what the core answers: the record
  of a key first, then whether the asset is retired or the version has moved.
* `Submit`, `Resubmit`, `Edit` and `Cancel` are the operator, `TimeOut` a page that
  gets no answer, `Fail` a failed transaction, `Pass` the start or end of a
  window, `Forget` an expired record, `Configure` the asset being retired or back.

Abstractions. All windows are on one asset. A form is a number and never
submitted twice unless it is a retry, although a page does allow that.
Checks of the times and of the reason come before anything is stored.

### BackupCheck, Collector

`BackupCheck` is `collect_backups` for one guest, over the node whose history it
reads; `Collector` extends it with the provider loop, the core that records its
batches and what the console is shown.

* `attempt` are the backups the node has made of the guest: by a task of its own
  (`direct`), whose status is in the list, or as one guest of a scheduled task
  (`parent`), whose log tells. `Idle`, `StartAttempt`, `WorkOnGuest`, `EndAttempt`
  are the node; it is not part of the program.
* `poll` is the running call: what it has listed, which logs it has still to
  read, what it has found. `ListTasks`, `ReadLog`, `LogUnreadable` and
  `MayConclude` are its steps; `cache` is what is remembered of ended parents.
  Of the logs of scheduled tasks, a call reads those of the 16 latest (`LatestParents`).
* `loop` is `_provider_loop`, `inbox` the requests the core has accepted, `core`
  the rows of `provider_state` and `check_state`. `Expire` is the deadline of the
  provider, `GiveUp` that of the core's client; the request stays in the `inbox`.
* `ProviderStatus` is `_provider_views`; `Fresh` is what `bootstrap` shows.

Abstractions. Whether the last success is too old is left open. Attempts do not
overlap. A log has fewer than the 1000 lines that are asked for. `quiet` counts
the ticks since the node last did something: with it a property can say what a
console must know by now. The heartbeat is taken to be fresh.

### Migration, Release

`Migration` is the database file with the two units that touch it, as systemd
runs them; `Release` extends it with the installer.

* `db` is the file: absent, empty, torn, or whole with its schema and the writes it
  holds. `copies` is the directory `pre-migration`, `current` the link,
  `target`, `migrate` and `core` are the units.
* `MigrateStarts` to `CopyBackFails` are `migrate_database`: the copy, a
  transaction per migration, and, when one fails, the copy going back over the
  file, which is first truncated. `CoreStarts` is the core after `verify_schema`.
* `installer` is where `install-release.sh` is and what it has noted; `Begin` to
  `Accept` are its way forward from the activation on, `UndoStop` to `Undone` are
  `rollback_activation`, `Abort` and `GiveUp` are `on_exit`. It starts with nothing
  installed, or with a previous release that is up or down, enabled or disabled.
* `Enable` links the units and enables the target, whatever was found. `UndoLink`
  takes that back only if there was no previous release.
* `onDisk` are the links a crash of the host may leave: the installer exchanges them
  with `mv -Tf` and forces nothing to the disk, so an older one can come back until
  the host has written its cache (`WriteBack`), also after the installer has ended.
* `Killed` is the installer dying without its trap, `HostCrash` the host. If that
  brings a link back, an activation that had ended counts as interrupted.
* `accepted` are the writes that the core acknowledged, `tried` those of them that
  the new release accepted on trial, `cut` whether a migration died
  while it copied the old file back. They are history.

Abstractions. A write is a name. SQLite is trusted with its transactions and the
snapshots with their checks. A step of the script that only reads, waits or formats
is part of the next one; what `Begin` notes of the link, the units and the database
is noted at once. Of what is not forced to the disk, only the links and the
directory a rollback removed can come back; the files of the new release are taken
to be there. A link that leads nowhere is refused by the script (exit code 65), as
is a second activation of a release whose directory is there (73). The other
services and the timer start and stop with the target.

## The runs

| run | question | instance |
|---|---|---|
| `engine_root_race` | a documented statement the code does not keep | a gateway, a host behind it; two tasks, two providers; three kinds of report; thresholds 1; see Findings |
| `engine_concurrent` | what survives interleaving and failed transactions? | the same graph, two tasks, two kinds of report, failures confirmed at the second, late observations, windows on the gateway, two faults, failed transactions or crashes |
| `engine_recovery` | are faults tracked and recoveries resolved in the end, whatever went wrong between two tasks? | the same graph, two tasks, three checks of which two providers observe the host, recovery confirmed at the second, two faults, failed transactions or crashes |
| `outbox` | are the promises of `AlertDelivery` kept, and does every alert come to an end? | three alerts, batches of two, two attempts, one abandoned call, two failed transactions, crashes or restarts, the switch turned at every restart |
| `mutations_retry` | are answers true, changes made once, and does a key always mean one request? | one page, all three mutations, two texts, a move of the engine, one timeout, one loss |
| `mutations_seen` | does a mutation follow what its operator saw? does a note get recorded in the end? | two pages that take notes and close, a move of the engine, one timeout, no losses |
| `stream` | does a page get its events in order and miss none without a cause? is it current in the end, or says that it is not? | a page with its overview or its list, two rows of which the second concerns the list, a queue of one, a history of two, one row per read, one connection, two breaks or failed requests, a roll-back |
| `retention` | does nothing leave early, and no fault fade from the chart? is the promise kept while the loop runs? | hours of two ticks, six ticks, two samples, two incidents, a restart |
| `retention_blocked` | a documented statement the code does not keep | the same; see Findings |
| `windows` | one window per form, quiet once cancelled, cancelled in the end? | one page, a form, a timeout, a failed transaction, a retirement |
| `collector` | does the console tell how the backup fared, and soon enough? | two attempts, both kinds, a crash or an abandoned or failed request, two requests in the core at once |
| `release` | does a core only run on a database that fits it, with all it acknowledged? is an activation undone that says so? | schemas 1 and 3, two writes, three activations, four failures or crashes, every start |

Bounds. `MaxDisruptions` bounds the checks that turn unhealthy, the transactions
that fail and the crashes; two are enough for two tasks to hold different conditions
of one root, for a task that has read what is rolled back, for a
crash in the middle of a recovery, and for a fault that returns after a
resolution. Two assets are the smallest graph with a root that is not the asset
itself; a third adds only a longer walk, which the proofs cover. Three alerts
with a limit of two leave one alert behind a full batch. Two attempts stand for
eight: the code distinguishes the last from the others. One page suffices where
the question is what happens to one request and its repeat, as the engine already
competes for the version; two pages compete with their own mutations. A second
timeout or loss repeats the first. Symmetry is used only for the tasks of
`engine_concurrent`, a run without liveness in which they are interchangeable.

Two rows and a queue of one fill a queue; reads of one row cut a replay off; one
connection makes a page meet the limit with its own slot that is not free yet, so a
second page would only wait for the first. Two hours with a cleanup in each, in the
middle of one or at its border, occur within six ticks, and two incidents are enough
for one to name the other. One form and one timeout make two windows possible. Two
attempts are a failure before a success and the reverse, with every way a log can be
read in between; an interval of a tick and no jitter suffice for one loop, since
nothing is compared with the time of another, and the backoff of the backup check
never grows (its interval of 900 seconds is beyond `max_backoff_seconds`). In the
run systemd has a process back within a tick (seconds, against the 900 of the
interval); `LongOutages = TRUE` more than doubles the states, TLC finds nothing
there either, and the theorems cover it. Of two attempts the logs of both are looked
at: that a call stops at the sixteenth is in the theorems only. An abandoned request
stays in the core next to that of the next poll, so two requests are what it takes.
Schemas two apart have a state between two migrations; with three activations two
can fail and one succeed. A killed one leaves its directory, and every further
activation of that release is refused.

Some runs may stop, and say so: time is bounded in `retention` and
`retention_blocked`, in `release` the installer may end with the target down, and in
`stream` a page that has seen the last row waits.

Fairness. The event loop runs every task that is ready: weak fairness of every
task. Each provider has a loop that polls it for ever, but a poll can be refused
again and again because another request is in flight at that moment, so its
fairness is strong; the environment decides what it reports, but a warning that
stays is old enough some day (`OldEnough`). For the outbox: the
core serves its lock, the notifier loop goes on after any exception
(`run_forever` catches them all), and time passes. For the
mutations: the core serves its waiters, a page handles its answers, and an
operator with a note to add keeps submitting it; refetches, edits and the
other mutations are not fair. For the windows an operator presses every button that
cancels; forms are not fair. For the stream: the broadcaster polls for ever,
browsers open a broken connection again, a page without a stream polls, and a request
that does not fail is answered; nobody has to return to a page, and that the web
process notices a broken connection is not assumed. For the collector:
both processes are restarted and their loops go on; a node that is slow or
silent may be so again and again but not for ever, so lists, each log and the end
of a call are strongly fair. For the release: systemd and the installer go on as
long as they live. Timeouts and failures are bounded and not fair: nothing has to
fail.

## Findings

* Two tasks can open two active incidents with one root (`engine_root_race`):
  `find_active_root_incident` and `create_incident` are separate steps
  (`engine.py:186`) of tasks of which the core runs one per request. The host's task
  finds no incident of the gateway, the gateway's own finds none either, and both
  create one; the unique index refuses the second only if it has the same type.
  README.md:7-9 promises "a single incident", ARCHITECTURE.md:30 that late related
  signals join it.
* A cleanup fails as soon as it would delete an incident that a younger one names
  (`retention_blocked`): `previous_incident_id` is a foreign key without an
  action. The whole transaction is rolled back, and the task of
  `_maintenance_loop` ends, so from then on nothing is deleted at all, while
  ARCHITECTURE.md:47-49 promises 7, 180 and 365 days. Recurring incidents are the
  normal case in which `previous_incident_id` is set.

Other places where the code does less than its documents say were met while
modelling. The properties except them, in their definition or by the run, and the
comment of each says so.

* An incident can be resolved, and its recovery announced, although one of its assets
  has failed again since it was looked at (`engine.py:234`): another task records
  the fault before the resolution is written. `ConfirmedFaultIsTracked` says that the
  fault is tracked again in the end, by a new incident.
* A task can attach its asset to an incident that another has just resolved
  (`db.py:898`, ARCHITECTURE.md:31-32). `HistoryOnlyGrows` lets a resolved
  incident gain assets, and nothing else.
* One failed report can open an incident with the summary "Repeated ... signals
  were confirmed": the counter of an asset counts batches, also those of another
  provider (`db.py:614`).
* A note can be recorded twice (`PrivateApp.tsx:71`, USER-GUIDE.md:76). After a
  network error the page may refetch the incident by itself; if the first attempt
  was applied the version has moved, and the retry gets a new key.
  `AppliedOnce` is about keys.
* An operator can change an incident in a state the page never showed
  (`db.py:1073`): a read sees the version of a transaction that is rolled back
  later, and another change can take the same version. `ActsOnWhatWasSeen`
  is about runs without such a loss.
* An alert can be posted although its transaction fails (`db.py:1885`): the receiver
  hears of an event that the history does not have. `AlertDelivery` allows one post.
* A row of the stream that is rolled back after it was read costs a page the event
  that takes its number (`reused`), and a page that read an open transaction shows
  what was rolled back until its next request.
* An event during the first request of a page does not lead to another
  (`PrivateApp.tsx:60`): the page may show what was before it (`missed`).
* A browser that is refused by the connection limit does not open its stream
  again (`apiSource.ts:187`); its overview polls, its lists do not.
* A cleanup within an hour splits its rollup, and the next overwrites the first
  part (`overwritten`).
* A failed backup is reported healthy as long as the log of its task cannot be
  read and an older success is known, or when 16 later scheduled tasks did not
  touch the guest (`passedOver`, `providers.py:412`, THREAT-MODEL.md:34).
* A release that was installed but disabled is enabled by an activation that is undone
  (`install-release.sh:468-473`, `247-254`): `UndoneIsUndone` only says that an
  enabled one stays enabled.
* The links an activation or its rollback has exchanged are not forced to the disk
  (`install-release.sh:233`, `493`): a crash of the host after "undone" can bring the
  link to the failed release back (`HostCrash`).
* A migration that dies while it copies the old database back leaves an empty
  file; the next one takes it for a new database, and the core serves it
  (`cut`, ARCHITECTURE.md:42-46). `NothingIsGone` says the copy is still there.

None of those of the engine leaves a fault untracked or an incident active for good:
`ConfirmedFaultIsTracked` and `RecoveredAssetsResolve` show what later batches set
right. What was announced, and a member of a resolved incident, stays.

## The proofs

`IncidentEngineProofs` proves, for any graph, any checks and thresholds, any
number of tasks and any observations, that the types are kept, that members of
an incident depend on its root, that active fingerprints are unique, that the
alerts of an incident are ordered and that what was committed only grows, although
any transaction may fail after others have read its rows. The types alone
are not inductive in a useful way: the proof carries `TaskFits`, which says of
every suspended task that the root it has chosen is its subject or an ancestor of
it and that the incident it works on has that root. That is what makes attaching
to an incident found many steps earlier sound. The rows from before an open
transaction are in the invariant too (`SavedFits`): rolled back, they are what
everything has to hold of again, and an incident that is gone leaves a row that no
task can change (`Tombstone`). The alerts need the incident's
state and severity in the invariant: an escalation is queued only by the step
that raises the severity and a resolution only by the one that resolves.

`NotificationOutboxProofs` proves the type invariant, `MutedHoldsNothing`,
`AttemptsHappened`, `DuplicatesNeedLoss` and the refinement of `AlertDelivery`, for
any number of alerts, attempts, abandoned calls and failures. The inductive
invariant says where calls can be: a mark is sent only when no other call is in the
core, and work is fetched only after the heartbeat, so a mark on its way is the
first call in the core, its alert is still pending (`CallsInOrder`,
`WorkIsPending`), its post is not yet counted (`PostsCovered`), and a confirmed post
is lost to a failure, recorded or about to be (`ConfirmationsCovered`). A row that
is read and then rolled back is posted once: while it is still written, a notifier
that has posted it waits behind the lock (`PhantomsWait`), so nothing it reads next
was posted before (`NonePosted`). Without the order of calls neither the bound on
duplicates nor the refinement holds: a mark applied after its row was fetched again
would be a post of a settled alert.

`OperatorMutationsProofs` proves the type invariant, `AppliedOnce`,
`SuccessIsDurable`, `ConflictIsReal` and `KeysFitRequests` for any number of pages,
notes, engine changes, timeouts and losses. A record cannot carry the argument for
`AppliedOnce`, since it may have expired before the retry arrives. The invariant
follows the keys instead: wherever a key is (in a request, a transaction, a
record, a page or the log), it stands for one operation and one signature
(`OneRequestPerKey`), a key that has just been issued is nowhere yet
(`KeysIssued`), and an applied mutation stands in the log at the place of the
version it was sent for (`VersionsCount`). A second write of the same key would
need the version of the first, which has passed. For the answers, a page has at
most one live request, with nothing of the same page behind it (`QueueInOrder`),
so nothing in the core contradicts an answer that is shown (`AnsweredLast`).

`ActsOnWhatWasSeen` needs to know what a version means. A version is the place of
the next change in the log, so a page or a request that holds one goes with the
change before that place (`Fits`), and `SeenFits` says so of every page and of every
request on its way. It stays true because the log only grows while nothing is
undone; a roll back after a dirty read is what breaks it, and the property excepts
that case.

`EventStreamProofs` proves the type invariant, which includes the limits of queues,
histories, answers and connections, and the two action properties of `stream` for
any pages, limits, topics, breaks, failed requests and roll backs. Each row up to
the one after which the broadcaster goes on (`Past`) that a streaming page has not
been sent is in its replay, in its queue, or has an excuse (`Complete`). A
connection has this from the start because `subscribe` creates the queue before the
history and the core are asked, and a broadcast keeps it because an answer of the
core begins right after `Past`. Since replay and queue are each in order, and a
replay has no gap but in front, what a page passes over when it is sent an event has
an excuse. The history is always ascending without gaps, which is why what it has
after a number can be cut off instead of selected (`Cached`).

`CollectorProofs` proves the type invariant, `FailureNotHidden` and
`SuccessNotHidden` for any number of attempts, logs, requests and troubles, any cache,
interval, backoff and jitter. The argument is about time. No tick passes within a
call, so a node that has been quiet for a tick when it ends has not moved since it
began, and what the call has found is the present (`CallIsCurrent`). From then on the
age of the verdict and the quiet of the node grow together, in the inbox and in the
core, so as long as the quiet is ahead the verdict is true but for logs that
were passed over (`BatchTrue`). What is remembered of a log is what it says for
ever, as only logs of ended tasks are remembered (`CacheIsTrue`).

`ReleaseProofs` proves the type invariant and the four invariants of `release` for
any two schemas, any writes and any number of activations, failures and crashes.
The argument follows the installer. As long as the new release has not been tried,
and again once its trial is undone (`Untried`), the database fits the release that
was there before (`UntriedFits`), so nothing is pending and no migration can touch
it; the link may already lead to the new release then, but the services are off
(`StoppedSteps`). In between, the snapshot has all that was acknowledged before the
trial (`SnapshotHolds`). A migration has a copy with the content of the database
from before it applies anything until it has put it back (`CopyWhileApplying`,
`CopyWhileRestoring`), so what was accepted is in the database or on its way back to
it (`DatabaseHasAll`) unless the copying is cut, and in a copy even then
(`AllSomewhere`). Every link a crash can bring back while the installer works is one
it found or made (`LinksNoted`), and a target found enabled is enabled at every step
but the last ones of undoing a first installation (`EnablementNoted`).

`RetentionProofs` proves the type invariant and the four properties of `retention`
for any lengths, samples, incidents, restarts and times. A fault is
a sample or is counted in the rollup of its hour, which then has fewer healthy
samples than samples (`FaultsKept`, `RolledUpCounts`); a running loop sleeps no
longer than the oldest sample may stay (`SleepIsShort`); and the youngest incident,
which a new one names, is there (`PreviousIsThere`).

`MaintenanceWindowsProofs` proves the type invariant and the three safety properties
of `windows` for any pages, forms, timeouts, failures and retirements. The record of a
key cannot carry the argument alone, as a page keeps the key too and a late request
has it on the way. So the invariant says of all three what a key is used for: one
operation and one form, and a form has one key (`OneUsePerKey`); what is in use was
drawn before (`UsesIssued`), and a page holds one key for an operation (`HeldOnce`).
A window has the record of the form that made it, unless that was deleted
(`WindowsRecorded`), and the second request of a form finds it.

The proofs assume what the modules name as assumptions on their constants, and
nothing else. The type invariants of these eight components, and
`OneActivePerFingerprint` and `AttemptsHappened`, are established by the proofs
alone and are in no run.

The invariants of `EventStreamProofs` and `CollectorProofs`, and `SeenFits`, were
checked by TLC before they were proved, on the instances of their runs and, for
the stream, on one with a history of one, reads of three rows and three roll backs.

Only model-checked are the liveness properties, which need fairness and ENABLED:
what every run says must happen in the end. All invariants and action properties
of the runs that pass are proved. Nothing is proved about `Topology`, whose orders
are defined by recursion over the graph: the proofs take from it what its definitions
say of one step.

## The plan

1. Retired assets in the engine, and incidents that an operator closes while a
   task works on them.
2. The daily backup with its rotation, next to retention.
3. Several providers and the heartbeat in `Collector`.

## Not modelled

The other provider adapters turn one response into one observation, and the other
web routes are input, output and formatting. The console beyond its operation
keys, its lists and its stream is presentation. The key cache is a lock and a time stamp
over one request, and the mutation limiter is changed by one task without an
`await`: unit tests reach their boundaries. The verification of a bundle, the
smoke test and the build are sequential programs that change nothing that stays.
The daily backup and its rotation write a directory that nothing else reads. The
soak monitor and the load gate measure a running system. The demo and the command
line start the same parts.
