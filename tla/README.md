# Verification of the essensys control plane

The control plane is a Go server (`src/cmd`, `src/internal`) with a React UI
(`src/ui`).  It manages Docker containers (versions, updates, rollbacks,
restarts, logs), edits the Redis database that the essensys gateway works with
(an exchange table per client and a queue of actions), and keeps a history of
updates and an audit trail in SQLite.  This directory holds TLA+ models of it,
the TLC configurations that check them, and theorems proved with TLAPS.

## Inventory

| Part | State | Operations | What is hard |
|---|---|---|---|
| Service updates: `docker/client.go`, `api/services_handler.go`, the writes of `store/sqlite.go` | containers and images (in the engine); `update_history`, `audit_log` | restart, update, rollback | eight engine calls per update, most of their results dropped; requests interleave without a lock; the calls, the undo calls too, share the request's context; the process can end between any two |
| Redis changes: `redis/client.go`, `api/redis_handler.go` | the action list, the exchange hashes, `audit_log` | push, remove, purge, set | read-then-write pairs of commands; the gateway works on the same keys; the audit row is written afterwards, elsewhere |
| Redis backup and restore | all `essensys:*` keys | backup, restore | key by key, nothing atomic, every error dropped |
| Redis reads | none | tables, clients, info, keys | reshaping only |
| Streams: `StreamExchange`, `StreamLogs`, `StreamAllLogs` | the last table sent; one reader goroutine per service | poll and send | unordered tables, clients that leave, several writers on one socket |
| Service queries and version check | none | list, inspect, compare with Docker Hub | slow outside calls |
| Router and middleware | none per process | base path, recovery, CORS, log, token | which path reaches which handler under which rule |
| Life cycle: `cmd/controlplane/main.go`, `config` | the server | start, shut down | shutdown does not wait for handlers |
| Prometheus proxy, system, metrics | none | forward, read | pure I/O |
| UI pages: `ui/src/pages`, `services/api.ts`, `App.tsx` | React state of the mounted page; calls in flight; saved backup files | edit, select, poll, navigate, reload | answers arrive in any order, late, or never with success; handlers outlive their page; one spinner or mark serves several calls |

Interaction: the UI calls the HTTP API; each request is a goroutine that calls
the Docker engine, Redis and SQLite in turn.  No handler holds a lock, so
requests interact only through those three stores, and through the UI's user.
In the browser one page is mounted at a time; its handlers and effects interact
through the page's hooks, and with those of pages left through the control plane
and the files saved.

What makes the parts correct, in one sentence each:

- an update replaces a service or leaves it as it was, and never loses it;
- `update_history` and `audit_log` say what happened, and explain what runs;
- a Redis change touches what it was asked to touch, and the trail does not lie
  about it;
- a backup holds the keys as they were, and restoring it brings them back;
- a page shows the answer to the question that is on the screen.

`PROJECT.json` lists every component with its status and every hazard with its
line.

## Modules

| Module | What it is |
|---|---|
| `DockerEngine` | the engine's calls as operators on a set of containers (external) |
| `ServiceUpdate` | restart, update and rollback, one action per call |
| `ServiceDeploy` | what an operator who waits for answers is promised: the abstract specification |
| `ServiceUpdateProperties` | the properties, and the refinement mapping to `ServiceDeploy` |
| `ServiceUpdateProofs` | what each engine call changes and leaves alone; proofs of `TypeOK` and `NeverLost` |
| `UpdateHistoryProofs` | proofs about the rows of `update_history` |
| `ServiceDeployProofs` | proofs about services between requests, and of the refinement |
| `RedisAdmin` | push, remove, purge and set, one action per Redis command |
| `RedisAdminProperties` | its properties |
| `RedisAdminProofs` | proofs of all its properties |
| `RedisBackup` | backup and restore, one action per Redis command, with its properties |
| `RedisBackupProofs` | proofs of them |
| `SequenceLemmas` | induction over numbers, and what removals and filters do to sequences |
| `ApiClient` | the fetch wrapper, calls in flight and the control plane as the pages see it |
| `DashboardPage`, `ActionsPage`, `ExchangePage`, `LogsPage`, `RedisMonitorPage`, `VersionsPage`, `MetricsPage`, `AlertsPage`, `ClientsPage`, `SystemPage` | one page each: hooks, handlers, effects, continuations, and the properties of the page |
| `ControlPlaneUI` | the application: routes, links, reload, the calls of pages left, and the mounted page, one instance of each page module |
| `ControlPlaneUIProperties` | its properties, and those of the pages while they are mounted |
| `ControlPlaneUIProofs` | what calls and outcomes do; proofs of `SavesStayInTheirCell` and `OneTimer` |
| `PagesProofs` | proofs about what each page shows at rest |
| `MCServiceUpdate`, `MCRedisAdmin`, `MCRedisBackup`, `MCControlPlaneUI` | instances for TLC, with one `.cfg` per run |

### ServiceUpdate

`ctr` maps container identities to state, name and tag.  Service `s` starts with
the container `s`; request `r` creates at most the container `r`.  A name is a
pair of a service and a second: second 0 is the live name, the others are the
`_old_` names of `client.go:244`.  `images` holds the tags on the host,
`history` and `audit` are the two tables, `req[r]` holds the handler's locals and
`pc[r]` the call it is about to make.

One action is one call to the engine or to SQLite, in the order of the source:

| Source | Actions |
|---|---|
| `Update` | `Begin`, `InspectService`, `RecordUpdate`, then `PullAndUpdate`, then `MarkFailed`, or `MarkSuccess` and `LogAudit` |
| `PullAndUpdate` | `Inspect`, `ImagePull`, `CopyPullStream`, `StopOld`, `RenameOld`, `CreateNew`, `StartNew`, `RemoveOld`; on failure `RemoveNew`, `UndoRename`, `UndoStart` |
| `Rollback` | `InspectTag`, `ListImages`, then `PullAndUpdate`, `LogAudit` |
| `Restart` | `Restart`, `LogAudit` |

An engine call is performed and answered, refused, performed with the answer
lost, or cut off by the cancellation of the request's context; after that every
further engine call is refused.  SQLite statements take no context and can only
fail.  `Faults` selects what may happen in an instance.  `Exit` stops every
handler where it is: `main.go` calls `server.Close`, which does not wait.

Data that no property tells apart is left out: a container's configuration
beyond its tag, error texts, timestamps of rows.  The registry and the engine
are external: the engine refuses a duplicate name, refuses to create from an
image that is not on the host, and may be unable to start some tags (`Broken`).

### ServiceDeploy

Three variables: the tag each service runs, whether it is up, down, or up with a
new tag that is not in the log yet, and the log.  `TakeDown` needs every service
up and nothing unlogged; what is down comes back with its old tag (`Restore`) or
a new one (`Deploy`), which `Log` enters.  The mapping reads the containers: a
service is down when none of its containers runs.

### RedisAdmin

`queue` is the action list, `exchange` the exchange hashes flattened to one
function, `audit` the rows of `audit_log`.  A handler is one action per Redis
command plus `LogAudit`: `PushAction`; `FindAction` and `RemoveAction` (LRANGE,
then LREM of one element equal to what the snapshot held, result dropped);
`CountActions` and `PurgeActions` (LLEN, DEL); `ReadOldValue` and
`SetExchangeValue` (HGET, HSET).  The Redis client uses a background context, so
there is no cancellation here.  A command may be refused, or performed while its
answer is lost.  `GatewayTakes` and `GatewayWrites` are the gateway's.

The client is made with the default options of go-redis (`redis/client.go:67-71`),
which send a command again when its reply is lost, up to three times.  `SendAgain`
is a command that writes, performed and about to be performed once more; other
requests run in between, and `resent` counts it, up to `MaxRetries`.  A read that is
sent again is a read at a later moment, and a command that is sent again without
having been performed is sent later.  So an LREM can take two equal actions in two
tries, which is why `RemovesOnlyItsAction` speaks of each LREM that reaches Redis.

### RedisBackup

`db` holds the keys `essensys:*` with their types, `file` the backup that was
downloaded last, which is what a restore sends.  A backup is `ScanKeys` (as many
SCANs as it takes), then `ReadType` and `ReadKey` for each key found; a restore
takes the entries in any order: `RestoreHash`, `RestoreString`, or `DeleteList`
and one `PushElement` per element; `PassOver` for sets, which are in a backup but
have no case in `RestoreAll`, and for null.  Only the error of SCAN is looked at.
A failed read gives null, but for a string the empty string, and so does a string
that vanished after TYPE.  `OthersChange` is any one command of the gateway or of the
requests of `RedisAdmin`: for a list RPUSH, LREM of any element, or DEL.  Keys keep
their types.  A write that was performed may be sent again (`"again"` in
`WriteReplies`): HSET, SET and DEL do then what they did once (`Idempotent`), an RPUSH
pushes the element twice (`OnlyOnce`).

Neither operation is atomic, so both properties are stated key by key: `spoiled`
is a history variable with, for each request, the keys that somebody else changed
while it ran, those of its own commands that failed, and a list to which it pushed an
element twice.  A write that was refused changes nothing for the other requests.  For all other keys the backup is
exact and the restore complete.

### The user interface

`hooks` is a record of the state hooks of the mounted page, `calls` the sequence
of its calls in flight, `world` the control plane and the download folder, `hist`
a history variable for the properties.  JavaScript runs a handler, an effect or a
continuation in one piece up to its next `await`, so each of these pieces is one
action:

| Source | Actions |
|---|---|
| a click, a key, a change of tab, up to the first `await` | the actions of `Clicks` of a page (`handleRestart`, `startEdit`, `SelectRange`, ...), with the effects its new state triggers |
| what follows an `await`, with `finally` | the actions of `Continuations` (`Restarted`, then `Relisted`; `Saved`; `ChartRead`; ...), once the call is settled |
| `setInterval` | `Tick` of `MetricsPage` and `AlertsPage` |
| a request is handled and its answer comes back | `Serve` of `ApiClient` |
| another user, the gateway, Prometheus | `Others` of a page |
| a link, the back button | `NavLink` of `ControlPlaneUI` |
| the browser loads the page anew | `Reload` |
| what pages left behind | `LeftServed`, `LeftContinues` |

`Serve` settles any call in flight, in any order: the request takes effect or not,
and its answer is a success, an error status, or lost.  The continuation runs at
any later moment, when the hooks may have changed.  `fetchJSON` rejects what is
not ok; the backup looks at no status (`api.ts:90-91`), so the body of an error is
saved as a file.

When another page is mounted, the hooks, the timers and the continuations of the
old one are gone, except two handlers that do something other than set state: a
backup still saves its file, a restore still sends the file it is reading.  These,
and the requests under way that change something, are in the bag `left`.  After a
reload only the requests are.  `/` and `/services`, `/redis-monitor` and
`/backups`, `/system` and `/settings` show the same page, which stays mounted when
the route changes between them.

Choices a reader should know:

- What an answer holds is reduced to the revision of the control plane it was read
  at (`rev`), which tells old answers from new; exchange values carry the cell they
  belong to; logs and charts carry the service or the range they were asked for.
  What a restart does to the containers and a restore to the keys no page tells
  apart, so each is one more change; what a restore does, entry by entry, is in
  `RedisBackup`.
- A search answers the rows whose index or value contains the query
  (`SearchExchange`, `redis/client.go:125-140`), here any part of the table (`Rows`).  A
  field is taken to be a number, since the handlers write it with `Itoa`; another one
  would be read as index 0 (`redis/client.go:93`).
- Typing costs no event, since it is followed by something that does.
- A click on another cell is a `Blur`, which saves, followed by a `startEdit`.
  React fires no blur when an input is unmounted, so closing the editor with Escape saves
  nothing.  Nor does an editor whose row goes because a search was answered without
  it: `editingIndex` and the typed text stay, and the input takes the focus again when
  the row is back.  `EditorShown` tells the editor on the screen from that state, in
  which no button waits for anything.
- Prometheus answers 2xx only on success, so the `status` field of its body is not
  told apart from the HTTP status.
- At first one backup of an earlier visit is in the download folder.
- The history is null when there is no row, and also when the first row could not be
  read, since `rows.Err()` is not looked at (`sqlite.go:165-175`); when a later one
  could not, it ends there.  On the updates page with a null history, rendering throws and, without an error
  boundary, the whole interface goes blank: only `Reload` is possible then.
- The pages see what others do only by `rev`.  `hist.disturbed` says that what is
  shown may lag behind for a reason the page cannot see: a failed list, an older
  answer after a newer one, or calls of a page left that were still under way when
  this one was mounted.  `ChangesAreShown`, `RestartsAreShown`, `TablesAgree`,
  `CheckIsShown` and `KeysShowEarlierRestores` are about what is left.

The code lets more happen than a user may expect, and the models contain it: one restart's end clears another's mark
(`DashboardPage.tsx:48`), one save's end closes another cell's editor
(`ExchangePage.tsx:67`), a late answer is shown under another service
(`LogsPage.tsx:51`) or for a while under another range (`MetricsPage.tsx:159`), a
restore never refreshes the keys tab (`RedisMonitorPage.tsx:90`), a restore that is
under way is unknown to the page when it is opened again
(`RedisMonitorPage.tsx:82`), a row that a search no longer finds takes its open
editor along (`ExchangePage.tsx:51`).  No doc,
comment or test says otherwise, so they are hazards and not findings.

## Runs

| Run | Instance | Shows |
|---|---|---|
| `update_faults` | one service, 2 updates at once, all five faults | `TypeOK`, `NeverLost`, `SuccessMeansStarted`, `HistoryIsFinal` |
| `update_answered` | 2 services, 2 updates at once, failing pulls, an image that cannot start, clients that go away, 2 seconds | `HistoryMatchesAnswer` |
| `update_concurrent` | one service, 3 updates and restarts, 2 at once, 2 seconds, no faults | `UpAtRest` |
| `update_operator` | 2 services, 3 requests of all kinds one after the other, failing pulls, an image that cannot start, the tag "latest" | `CleanAtRest`, `HistoryExplainsTag`, `AuditExplainsTag`, `ImplementsServiceDeploy` |
| `update_abandoned` | updates whose client goes away | violates `FailureRollsBack` |
| `update_previous` | two updates and a rollback | violates `RollbackRestoresPrevious` |
| `redis_queue` | 3 pushes, removes and purges of one GUID with two bodies, all at once, failing commands and rows, one command of each request sent again, the gateway takes | `TypeOK`, `RemovesOnlyItsAction` |
| `redis_trail` | 4 pushes, removes and sets, all at once, fresh GUIDs, the gateway writes, the process may end | `AuditNeverLies`, `AuditExplainsQueueSet`, `LastWriterAudited` |
| `redis_operator` | 4 requests of all kinds one after the other, GUIDs pushed again | `AuditExplainsQueue`, `PurgeCountsExactly`, `AuditChain` |
| `backup_restore` | a list, a hash, a string and a set; 2 backups or restores at once; one change by others, one failing command or one sent again; the process may end | `TypeOK`, `BackupIsFaithful`, `RestoreBringsBack` |
| `ui_pages` | the whole application from every route: 2 services, cells, ranges, rule groups and clients, one alert, up to 4 events | the 16 properties of `ControlPlaneUIProperties`, 3 of them temporal |
| `redis_twice` | 3 pushes and removes, 2 at once | violates `OneRowPerModification` |

Bounds.  `Requests` bounds the requests of a behaviour, `MaxInFlight` those in
flight, `MaxClock` the clock.  Two concurrent updates are the least in which one
meets the other's containers half way; three are the least in which two that
collide find a third's leftovers.  Two seconds give both equal and different old
names.  Three sequential requests let an update, its repetition and a rollback
follow each other; tags 1 to 3 give a current, a previous and an unusable image.
For the queue, two pushes and a remove are the least in which LREM meets two
actions: equal ones, of which a second LREM takes the other, or unequal ones with one
GUID, of which it must take the one found.  A push that is sent again gives the third.
One retry per request lets it fall before and after every step of the others; more
repeat it.  The instance has about 610,000 states.

For backups, one mishap and two requests let a change by others, or a failure,
fall anywhere into a backup or a restore, and two of them overlap; lists of two
elements show order and repetition.  Requests are symmetric in the runs without a
temporal property.

For the interface, `Budget` bounds the clicks and the changes by others of a
behaviour, by the page it starts on; `MaxElsewhere` what is left of them once that
page was left; `MaxCalls` the calls in flight beyond which nothing more is clicked
and no timer fires (`MaxEvents` bounds a page module taken alone).  Four events let
two restarts, two edits or two selections overlap with their answers in each order,
and let a search answer without the row that is being edited; that the row comes back
takes a fifth, which the theorem covers and which TLC has also gone through (380,000
states, `exchange |-> 5` in `MCBudget`);
three let a change meet a change by others and a list; one event elsewhere lets a
page be left with everything in flight and another be shown while that settles.
Two calls in flight are the least that overtake each other, three let a third be
sent meanwhile.  The instance has about 180,000 states.  The user may stop at any
time, so deadlock is not checked in it.

`UpAtRest` needs its preconditions.  With two concurrent updates to an image
that cannot start, or with failing pulls and three updates of which two share a
second, the service can end up stopped: the undo of one is overtaken by the
other.  `CleanAtRest` needs one request at a time: overlapping updates leave
`_old_` containers behind.

Fairness.  `update_operator` and `ui_pages` use it (`FairSpec`).  In the first, a
goroutine that can run is run.  Nothing obliges anyone to make a request, to go
away, or to stop the process.  It is needed for the liveness part of
`ServiceDeploy`: what was taken down comes back and is logged.

In the second, three things are weakly fair: calls in flight are settled
(`Answered`; the connection of a request ends, with or without an answer, since
the pages set no limit of their own), settled calls continue (`Continued`; the
browser empties its queue of tasks), and intervals fire (`Ticked`).  The user and
the others owe nothing.  With that, `SpinnersStop` says that no order of answers
and failures leaves a page spinning or a button disabled, `ChartFollowsRange` that
the chart ends up with the selected range, and `AlertsAreSeen` that a firing alert
is not hidden for ever.

Every property of a passing run has a mutant in `PROJECT.json`: a definition
`Name_Variant` beside `Name`, a plausible mistake the property notices.

## Findings

- `update_abandoned`: the undo path of `PullAndUpdate` uses the request's
  context, so the disappearance of the client both causes the failure and
  disables the undo (`client.go:250-263`).
- `update_previous`: `RollbackService` takes the last image listed, not the
  previous one (`client.go:290-300`).
- `redis_twice`: `RemoveAction` drops the result of LREM, so two overlapping
  removes of one action are both answered OK and both audited
  (`redis/client.go:271`).

## Proofs

Thirty-four theorems hold for every value of the constants: any services,
requests and tags, any order of the images, any number of requests in flight; any
keys and elements; any cells, ranges and clients of the interface, any number of
clicks and calls.  Every safety property of a passing run is among them, invariants
and action properties alike, and so is the safety part of the refinement.

| Module | Theorem (`Spec => []P` or `Spec => P` for the property of that name) | Supposing |
|---|---|---|
| `ServiceUpdateProofs` | `TypeCorrect`, `NeverLostAlways` | |
| `UpdateHistoryProofs` | `HistoryIsFinalAlways`, `SuccessMeansStartedAlways` | |
| | `HistoryMatchesAnswerAlways` | SQLite takes its rows |
| `ServiceDeployProofs` | `UpAtRestAlways` | nothing fails but rows, nobody goes away, every image starts |
| | `CleanAtRestAlways` | one request at a time; nothing fails but pulls, starts and rows |
| | `HistoryExplainsTagAlways`, `AuditExplainsTagAlways` | the same, and SQLite takes its rows |
| | `ServiceDeployIsImplemented` (`Spec => Deploy!Steps`) | the same |
| `RedisAdminProofs` | `TypeCorrect`, `RemovesOnlyItsActionAlways` | |
| | `AuditNeverLiesAlways` | fresh GUIDs, no purge, no gateway on the queue, Redis answers |
| | `AuditExplainsQueueSetAlways` | the same, and SQLite takes its rows |
| | `LastWriterAuditedAlways` | Redis answers, SQLite takes its rows |
| | `AuditExplainsQueueAlways`, `PurgeCountsExactlyAlways`, `AuditChainAlways` | one request at a time, no gateway, no failure |
| `RedisBackupProofs` | `TypeCorrect`, `BackupIsFaithfulAlways`, `RestoreBringsBackAlways` | |
| `ControlPlaneUIProofs` | `SavesStayInTheirCellAlways`, `OneTimerAlways` | |
| `PagesProofs` | `TypeOKAlways`, `RestartMarkIsLiveAlways`, `RestartsAreShownAlways`, `ChangesAreShownAlways`, `EditorClosesAfterSaveAlways`, `TablesAgreeAlways`, `PaneIsOfSelectedAlways`, `KeysShowEarlierRestoresAlways`, `OneRestoreAtATimeAlways`, `CheckIsShownAlways`, `AllClearIsTrueAlways` | |

What a theorem supposes is a hypothesis of its own about `Faults`, `Broken`,
`MaxInFlight` or the gateway, under a name of its module (`NothingFails`,
`UndisturbedQueue`, `OneAtATime`).  The run that checks the property is an instance
of it.  Without it the property is false of the code: SQLite loses a row, a purge
empties the queue of what the trail calls pushed, overlapping updates leave an old
container behind.  What a hypothesis does not exclude may happen: in
`AuditNeverLiesAlways` and `LastWriterAuditedAlways` the process may end anywhere.

Apart from these the theorems assume what the modules assume of their constants,
by name: services and requests are finitely many and differ, the initial tag is
usable (`ServiceUpdate`); the empty string is no value (`RedisAdmin`); a key has
one type, and SCAN has an order (`RedisBackup`); null is none of the values a page
holds (`NullAssumption` of `ApiClient`); there is a service and a range to select
(`ListsAssumption`, `RangesAssumption`), and bounds are numbers.  TLC evaluates them
in every run.

### NeverLost

`NeverLost` is not inductive: a removal is harmless only because of a container
created earlier, and undone only when it was created.  The invariant `IInv` adds

- `HandlerOK`: from `create` on, `oldName` is an old name of the request's own
  service, so what `RemoveOld` removes is one container of that service; and a
  request's own container is of its service;
- `EngineOK`: no two existing containers share a name, so a name removes one;
- `Covered`: a service has at least one container more than there are requests
  that may still remove one (those at `start`, `removeNew`, `removeOld`).

Creating adds a container and a request that may remove one; removing takes one
of each; everything else changes neither.

### HistoryIsFinal

A handler writes by the id it got from `RecordUpdate`, long before.  `RowsOK` says
that two requests never hold the same id, that id 0 stands for no row (the INSERT
failed, or the request is a rollback or a restart), and that a row is "in_progress" as
long as its own request has not closed it.  It is inductive with the types, and a
step from it changes a row only in `MarkFailed` or `MarkSuccess`.

### SuccessMeansStarted

`StartedOK` follows a request from `ContainerCreate` to its row: the container it
made has its service's name and its tag (`Made`), and it reaches `removeOld` only
when the engine has started that container (`WasStarted`).  Other requests may
meanwhile stop, rename or remove it; the lemmas on ages in `ServiceUpdateProofs`
say that a container never becomes "created" again and never changes its image,
and the handlers rename within one service only.

### HistoryMatchesAnswer

Only an update keeps the id of a row, so `AnsweredFor` has to say of every path on
which a handler can answer that it belongs to another kind of request or passes
`MarkFailed` or `MarkSuccess` first; with `RowsOK` nobody else touches the row
between its closing and the answer.

### UpAtRest

While updates overlap, a service may be down, with its containers under any names,
and the request that took it down may be refused.  What stays true is `ComesUp`: the
service is up, or a request is about to create its container; or somebody has
the live name and a request is about to rename it (and create) or to start it.
A request that is refused on the way is refused because another one has
taken the live name, or freed it; either way that one is now the witness.
`SureOf` adds what a handler has made sure of: its image is on the host, its old
name is not the live name, and what it removes on its way back does not exist.

### One request at a time, and the refinement

`CInv` follows the one request in flight from one container of its service to the
next: `Shape` says for each label which containers the service has, under which
names, in which states and with which tags, and `Fits` that the tag which is there
to come back to is usable and is the one both tables name.  All other services are
`Intact`.  Between requests that is `CleanAtRest` and the two explaining
properties.

For the refinement each shape is read through the mapping (`ShapesShow`): one
running container is "up", or "unlogged" when its row is still to come; a stopped one alone,
or beside one merely created, is "down".  `SeenStep` lists what a service can show
of a step, each a step of `ServiceDeploy` or none (`SeenIsDeploy`); `SwitchSeen`,
`OtherSeen` and `NothingSeen` say of every action which it is: `StopOld` takes the
service down, `UndoStart` restores it, `StartNew` deploys, `LogAudit` logs, and
everything else changes nothing the mapping shows.  The log is a recursive function
over the rows of the trail; that one more row adds at most one entry is
`TrailGrows`, an induction over positions.

### RemovesOnlyItsAction

Between LRANGE and LREM the list may change in any way.  What stays true is
`HandlerOK`: the action in the handler's hands has the GUID of its request.  LREM
then takes at most one element equal to it, each time it is sent.  `SequenceLemmas` derives what
`RemoveFirst` and `SelectInSeq` of the community modules do, from the existence of
a least element in a set of positions.

### The audit trail

Requests that overlap (`TInv`).  A remove is overtaken between LRANGE and LREM, and
again between LREM and its row, so the claim is made for what the trail says
and for what a handler is about to write there (`Claimed`).  What is called removed
is `Gone`: not in the queue, and pushed by a request that has pushed already;
since GUIDs are fresh, it cannot come back.  What is called pushed is in the queue,
or a remove of that GUID has got beyond LREM (`TakenOff`).  That LREM takes the
element out of the set of GUIDs needs that no action is in the queue twice
(`QueueOK`, `RemoveFirstElements`).  With every row written, a settled queue is
then explained exactly.  For exchange values, the last writer of a value has a row or
writes it next (`WritersOK`).

One request after the other (`OInv`).  Until a request gives its last command, the
replayed trail is the queue and the values are those of the chain (`Explained`), and
what the request has read is still so (`OnItsWay`); after it, both hold with the row
the request is about to write (`ExplainedWith`).  `Replayed` is a recursive function
over the rows; `ReplayedGrows` says that one more row is one more step of it.

### BackupIsFaithful and RestoreBringsBack

The properties speak of a request that has gone over all keys, the invariant
`BInv` of one on its way, for each key that is not spoiled for it.  A backup has read
such a key, or still has it to read, if SCAN has gone past it and it is present;
what it read is what is there (`BackupKeyOK`).  A restore still has such an entry to
take, or the key agrees with it; or, for the list whose elements are being pushed,
what the key holds, followed by what is left to push, is the entry (`RestoreKeyOK`).
A step of anybody else changes only keys that it spoils (`Unnoticed`).

### Saves and timers

What a save or a chart does is decided several steps earlier, often on a page that is
gone.  A save carries what the editor held, which came out of a table, which came out
of an answer, which the control plane read where earlier saves had written.  So
the invariant `IInv` is about every call in flight, those in `left` included:

- `CallOK`: its argument and, once settled, its answer fit its operation.  A save
  has a text of its own cell; a table answered, or the rows of it that a search found
  (`OwnRows`), have every text in its own cell; a chart's answer is of the range it was
  asked for.
- `WorldFits`: the control plane's table has every text in its own cell.
- `ExchangeFits`: on the exchange page, the tables and the editor hold every text in
  its own cell, the editor's index and text together, also while its row is away.
- `MetricsFits`: on the metrics page, a chart has one timer, for the selected range,
  and only a mounted chart waits for one.

What a call needs to fit does not depend on the world, so it keeps fitting.
`OutcomeFits` says what an outcome does to a call, the `Follows` lemmas what sending,
settling and dropping calls does to the sequence; there is one lemma per page, one for
the page that is mounted (`EachMountFits`) and one for each kind of step of the
application.

### What the pages show at rest

At rest nothing is in flight, so a property of a page at rest says nothing while the
mistake is being made.  `PInv` says what is due meanwhile:

- Lists (dashboard, actions, keys): unless the page was disturbed, the list shown is
  the newest the page was answered and as new as the last change it knows done, or a
  call for it is in flight that has not been answered with an older one (`Due`).
- Marks: a service marked as restarting is the argument of a call in flight.  The two
  calls of a load lead the sequence of calls (`LoadsFirst`), which tells them from
  the list that follows a restart.
- The exchange page: a cell of a table differs from the control plane's only where a
  save of that cell was answered and is not applied yet, and of several such saves
  the newest has the present text (`ExchangeAgrees`); a table that was read and not
  yet applied lags behind by saves newer than itself (`AgreesSince`).  This holds
  unless the page was disturbed, or a call in flight is going to disturb it
  (`TablesKnown`).  Of the search results this is said of the rows found.  An editor
  on the screen without the focus has a save in flight.
- The Redis page: it is restoring exactly while a file is being read or sent, and one
  at a time; `RestoreSent` and `RestoreOver` say what a call that is sent, or over,
  does to that.
- Logs: the last call for the logs of a service is for the selected one, or there is
  none and the pane agrees.
- Alerts: all clear is shown only after an answer without an active alert, and the
  calls are those of the tab.

An answer tells what was true when it was given, maybe long ago.  `Typed` keeps for
every call the range of its revision, up to the present one, and the type of its
value; since the revision only grows, what is typed stays typed.  It is kept for the
calls of pages left as well: served later, they change the control plane that
answers the mounted page.  Each page has a lemma that its steps keep its part, one
for answers, one for being mounted (`MountIsKnown`), and one for steps elsewhere
(`ElsewhereKeepsPInv`), which may move the revision under a page.

TLC found every inductive invariant above to hold on the instance of the run before
it was proved; they are not among the properties of the runs.

Induction over sequences is done without an operator parameter: `SequenceLemmas`
derives `NumberInduction`, for sets of numbers, from the existence of a least element,
and the recursive functions `Found`, `Deployments` and `Replayed` are described by
lemmas about the next position.

Only model-checked: everything about liveness (the fairness part of
`ImplementsServiceDeploy`, `SpinnersStop`, `ChartFollowsRange`, `AlertsAreSeen`),
which the provers do not reach, and the three properties that the code violates.

## Not modelled, and the plan

Not modelled for good: the Prometheus proxy, the system handler, metrics,
configuration loading, layout, and the read endpoints that only reshape what they
read.

The WebSocket streams (`StreamExchange`, `StreamLogs`, `StreamAllLogs`) are not
modelled either.  Every route goes through `RequestLogger` (`router.go:101`), whose
`statusWriter` embeds a `ResponseWriter` without being a `Hijacker`
(`middleware.go:88`), and the upgrade needs one: it fails for every request, and
the loops behind it never run.  No page opens a stream either, and the "live" tabs
of the pages only announce one.

Of the interface: the health poll of `TopBar`, which no page reads; the category
filter of the exchange page, which filters nothing; the WebSocket helper and the
endpoints of `api.ts` no page calls (`services.update`, `services.rollback`, the
audit log, Alertmanager); formatting and layout; the double run of effects by
`StrictMode` in development builds.

Next, in this order:

1. `Routing`: from a request through the middleware to a handler; the pure
   functions `parseImageTag`, `getLatestTag`, `stripDockerLogHeaders`.
2. The read endpoints that reshape (`SearchExchange`, `ListClients`, `GetStats`), as
   far as a property depends on the reshaping.
