# A TLA+ model of cmdv-sync-server

The server keeps, for each bearer token, an append-only list of opaque entries and a list of
devices. A device pushes the entries it wrote, asks for the others' entries above a cursor, and
keeps the cursor it is answered. Everything a reader can lose is lost through that cursor: an
entry that lands below a cursor already handed out is never delivered. This directory models the
store, the handlers above it, the devices around them, what stands in front of the handlers
(configuration, tokens, checks) and the processes that run it all (start, stop, backup, health
check). TLC checks the models on small instances; TLAPS proves most of the safety properties for
instances of any size.

Source paths below are relative to `src/`; `PROTOCOL.md` is `src/spec/PROTOCOL.md`.

## 1. The system

| Component | State | Operations | Talks to |
|---|---|---|---|
| Store, entries (`internal/store/store.go`) | table `entries`, AUTOINCREMENT's number, the one connection | `Append`, `Page` (with `highWater`) | SQLite over one connection |
| Store, devices (same file) | table `devices` | `TouchDevice`, `Devices`, `RemoveDevice` | the same connection |
| Opening and schema (`store.go`, `internal/store/schema.go`) | the file, the statements that took effect | `Open`, `migrate`, `Close` | SQLite; at every start and every backup |
| Backup (`store.go`, `cmd/cmdv-sync-server/main.go`) | the destination file | `Backup` | the database, from a process of its own |
| Sync handler (`internal/api/server.go`) | locals of a goroutine | `handleSync`: push, pull, record, answer | three store calls, not one transaction |
| Device handlers (same file) | locals | `handleDevices`, `handleRemoveDevice` | one store call each |
| Request checks (`server.go`, `types.go`) | none | `checkVersion`, routes, `dataset`, `decode`, `Validate`, `identifier` | before the store |
| Tokens (`internal/auth/tokens.go`) | `TokenSet` | `New`, `Lookup`, `Dataset` | read only after the start |
| Configuration (`internal/config/config.go`) | `Config` | `Load`, `loadTokens`, `validateTokens`, `Unrecognised`, `PrepareDatabaseDirectory` | the environment, at the start of every process |
| Process (`main.go`) | listener, signals, exit code | `run`, `backup`, `probeHealth` | all of them, and Docker |
| Health check (`server.go`, `main.go`) | none | `handleHealth`, `Ping`, `probeHealth` | the connection; the server over the network |
| Responses (`internal/api/errors.go`) | none | `writeJSON`, `writeError`, `internalError` | the client |
| Devices | entries written, acknowledged, replayed; cursor | sync, apply, keep the cursor | not in this repository |

What is hard here is that little of it is atomic. `SetMaxOpenConns(1)` makes each *statement*, and
each transaction, exclusive, and that is all: a handler makes three calls, an empty `Page` makes two
statements, and between them the connection goes to whoever waits. Any statement can fail or be
cancelled, the process can be killed or told to stop, the power can go, a device can give up and
retry while its first request still runs. Beside the server other processes open the same database
(a backup) or ask the server questions (a health check).

What makes each component correct:

- *entries*: batches are atomic, in order and never changed; sequences are unique and never used
  again; a page has no gap below its cursor; the connection is always given back;
- *devices*: first-seen is set once, what is listed can be removed; that last-seen only advances is
  what a reader of the list expects, and what the code does not keep (ServerLastSeen);
- *handlers*: a 200 means the push is stored and the page is whole; every request is answered;
- *configuration*: whatever is set is in force, refused or warned of;
- *checks*: no token shares a dataset, nothing behind the token is reached without it, what passes
  is within bounds;
- *process*: a start that was interrupted is completed by the next; a stop lets requests finish and
  still ends in time; a backup that reports success is whole; a probe finds a server that listens;
- *the system*: a device replays everything the others wrote, without a gap, whatever is lost,
  repeated or killed. One request at a time it does; with several the gap between the two
  statements of an empty page can cost an entry, and nothing else can. A device's own newest write
  ends up last, unless a request that it gave up runs on behind a later one.

## 2. The modules

```
EntryTable   DeviceTable          the two tables, and the SQL on them, as pure operators
      \       /
       Store  ----implements---->  EntryLog    (abstract: an append-only log of batches)
         |
     SyncServer                    handlers as sequences of store calls
         |
     SyncSystem ---implements--->  Replay      (abstract: positions in one shared log)
         |
     PowerLoss                     what a power cut leaves of the database

     Configuration                 what config.go makes of the environment, as pure operators
         |
     Admission                     start, tokens, and the checks in front of the handlers

     Process                       the server, the backup and the health check as processes
```

Theorems are in `Store_proofs` (with the lemmas on EntryTable), `StoreResults_proofs`,
`SyncServer_proofs`, `SyncSystem_proofs`, `Replay_proofs`, `PowerLoss_proofs`, `Admission_proofs` and
`Process_proofs`; the instances for TLC are `MCStore`, `MCSyncServer`, `MCSyncSystem`, `MCPowerLoss`, `MCAdmission` and `MCProcess`.

Correspondence with the code (`map` in `PROJECT.json` has every definition's lines):

- **EntryTable** — rows as a set. `ScanPage` is the page's `SELECT ... LIMIT limit+1`, `PageEntries`
  and `PageHasMore` the cut after it, `HighWater` is `SELECT MAX(sequence)`.
- **DeviceTable** — `Upsert` is the `INSERT ... ON CONFLICT`, `Delete` and `Listings` the other two.
- **EntryLog** — what a caller of the store may rely on: a batch that is submitted is added whole and
  once, numbered from the last number used, or dropped; nothing else ever changes the log. The
  refinement maps `pending` to the batch of a handler that is inside `Append`.
- **Store** — `pc[h]` is where a handler is inside a store call. One action is what runs without
  giving the connection away: `BeginAppend`, each `InsertEntry`, `CommitAppend`; `QueryPage` (takes
  the connection), `ReadPage` (rows read to the end, connection back), `ReadHighWater` (a second
  statement, after waiting again); one action for each single-statement call. `FailCall` is an error
  at any of them, with the deferred `Rollback` or `rows.Close`; `FailAfterwards` an error that comes
  when a statement on the devices has taken effect (`RowsAffected`). `SequencesExhausted` is SQLite
  running out of rowids. `offered` is a history variable: AUTOINCREMENT's number when the page's
  query ran. `StepsLeft` counts the steps a call can still take.
- **SyncServer** — `stage[h]` is the handler's place between store calls. `StartSync`, `Pull`,
  `Record`, `AnswerSync` are `handleSync` from its `Append` on; `Record` reads the clock where
  `s.now()` is evaluated, which is before `TouchDevice` waits. `Tick` takes the wall clock anywhere:
  forward, or back as well with `ClockSetBack`. `AnswerFailure` is `internalError`. `asOf` is a
  history variable: what `offered` was for the page about to be answered, kept until it is read.
- **SyncSystem** — a device writes, sends everything not yet acknowledged, applies what it gets,
  keeps the cursor. This part is not code of the repository: it does what PROTOCOL.md sections 6
  and 9 ask of a client. `Manage` is somebody with the token who lists the devices or removes one.
  Faults: the device gives up (`GiveUp`, its request runs on and is `Unread`), dies between applying
  a page and keeping its cursor (`ReceiveAndDie`), a store call fails (`CallFails`), the server is
  killed and started again (`Restart`).
- **Replay** — what all of this promises the devices of a dataset, with any number of requests at a
  time: one log, a position in it for each device that only moves forward, and steps that take a
  device further. `Ask` notes where the log ends when the page is looked up. `Deliver` gives the
  device *exactly* what the others have between its position and the new one, which is not past
  that end. `DeliverNothing` is possible only when nobody had anything for it below that end, and may
  send it past what was written since: the finding SystemSkipped, as narrow as it is. SyncSystem
  implements Replay with `Position(d)`, the largest of what `d` applied and the cursor it keeps (a
  device that died before it kept its cursor has come further than that cursor says), and
  `AskedAt(d)`, where the log ended for the handler that `d` waits for.
- **PowerLoss** — adds `durable`, the tables as last forced to disk. WAL with `synchronous = NORMAL`
  does not force commits; `PowerCut` goes back to `durable`. Checkpoints come when they like, so
  putting an older backup in the place of the database is a cut as well.
- **Configuration** — `Load` and its helpers. An environment maps the names that begin with
  `CMDV_SYNC_` to what they are set to; a list of tokens is the texts between its separators, a file
  of tokens its lines. `OneSource` is the switch of `loadTokens`, `Acceptable` is `validateTokens`,
  `IsText`/`TextOr`, `IsPort`/`PortOr`, `IsLevel`/`LevelOr` are `text`, `number` and `parseLevel`,
  `Unrecognised` the names that are warned of.
- **Admission** — `Start` loads an environment and makes the `TokenSet`; `Stop` ends that process, so
  that the next may start with another environment. Then one action for each check, in the order
  of the code, each of which refuses or passes on. What passes all of them is what SyncServer
  starts from.
- **Process** — `phase[p]` is where `main` of the server or of the backup is. `Load`,
  `PrepareDatabaseDirectory`, `Open`, one `Migrate` for each statement of `migrate`, `Register`
  (`NotifyContext`; before it a SIGTERM simply kills), `Listen` in its goroutine, `ListenFailed`
  (`os.Exit`), `BeginShutdown`, `EndShutdown` (all requests done, or eight seconds), `Leave` (the
  deferred `Close`, under whatever still runs). A request is in one of a few stages, and the log is
  the set of those committed. `CheckDestination`, `VacuumInto` and `EndCopy` are `Backup`, in a
  process of its own; `Probe` is `--health-check`, which loads the configuration again and asks
  127.0.0.1 (`ProbeAddress`; `Host` says which addresses the server listens on); `AnswerProbe` is
  `handleHealth`, whose `Ping` waits for the connection. Docker starts what ends by itself and
  sends SIGTERM (`StopContainer`).

Definitions under a comment that begins with `WRONG:` are not part of any specification. They are
plausible mistakes in the definition that follows them (a forgotten guard, a cursor taken before the
cut, a numbering without memory), kept so that each property can be shown to notice one: replacing
the definition by its wrong form makes the run that checks the property fail. `mutants` in
`PROJECT.json` lists which goes with which property.

## 3. What TLC checks

| Run | Instance | Properties | States |
|---|---|---|---|
| StoreEntries | 2 handlers, 2 devices, 2 blobs, batches to 2, 3 sequences, page sizes 0 (clamped to 1) and 3 (clamped to 2), cursors 0..2 | `TypeOK` `EntriesNumbered` `ConnectionHeldOnlyWhileUsed` `AppendStoresItsBatch` `PageSkipsNothing` `EmptyPageSkipsNothingOld` `CursorIsAnEntry` `HasMoreIsHonest` | 291,806 |
| ServerCalls | 2 handlers, 1 device, requests of all three kinds, batches to 2, 2 sequences, clock 0..1 set forward and back, any number of failed calls, fair | `EveryCallReturns` `FirstSeenIsKept` `ImplementsEntryLog` | 216,004 |
| SystemSerial | 1 handler, 3 devices in 2 datasets, 2 writes of one of them, which is listed and removed, clock 0..1, 1 fault, fair | `SystemTypeOK` `NoEntrySkipped` `OnlyOthersReplayed` `NotFoundMeansNotListed` `EveryRequestIsAnswered` `EveryEntryArrives` | 125,452 |
| SystemConcurrent | 2 handlers, 2 devices, 3 writes, 1 fault | `ServerTypeOK` `AcknowledgedPushIsStored` `AnswerSkipsNothing` `StoredAsWritten` `CursorPassesNothingOld` `NewEntriesAboveCursors` `AwaitedPushEndsOnTop` `ImplementsReplay` | 1,417,667 |
| Admission | lists and files of up to 2 of 5 texts, every other variable at each of its edges, bodies and identifiers at each side of each bound | `TokensSelectOwnDatasets` `TokenGivenIsAccepted` `NothingSetIsIgnored` `ContentIsBehindToken` | 62,766 |
| Process | 2 requests, 3 statements of migrate, a grace of 1, 1 docker stop, 1 fault or change of the environment, fair | `ProcessTypeOK` `ServingMeansReady` `BackupHasAcknowledged` `StopFinishesRequests` `StopEnds` `StartRecovers` | 521,028 |

Six runs end in a violation. Each is a place where the code does not do what a comment, a help text,
a test or the protocol says of it (`findings` in `PROJECT.json` quotes them):

- **SystemSkipped** (`NoEntrySkipped`): two devices syncing at the same time, no fault at all. The
  first `SELECT` of a page is empty, another device's batch commits, and the high-water mark that
  becomes the cursor is that batch's. The device never gets it. `store.go:244-246` argues that it
  "has now been offered everything up to it"; that is true of the moment of the first statement, which
  is what `EmptyPageSkipsNothingOld` states and the proofs show.
- **SystemOvertaken** (`NewestWriteIsLast`): a device gives up waiting and sends again, with a newer
  write. The retry is stored first, then the batch of the request that ran on: the old write ends up
  above the newer one, for every device that replays the log. `README.md:6-7` promises the order in
  which blobs *arrived*, PROTOCOL.md:99 calls a sequence "Arrival order". What does hold is
  `AwaitedPushEndsOnTop`: a push that its device waits for ends up on top of all that the
  requests given up before have stored meanwhile.
- **PowerReuse** (`NewEntriesAboveCursors`): `synchronous = NORMAL` lets a power cut take back an
  acknowledged push *and* AUTOINCREMENT's number. Its sequence is assigned again, below a cursor
  already handed out: the very loss that `schema.go:22-25` chose AUTOINCREMENT to avoid. Restoring an
  older backup does the same.
- **HealthProbe** (`ProbeReachesServer`): with a host that is neither all interfaces nor the
  loopback one the server listens there and its own health check asks 127.0.0.1: refused for ever,
  although `main.go:49-50` says it probes "the configured host and port".
- **ServerLastSeen** (`LastSeenAdvances`): of two contacts of a device at the same time, the one
  that read the clock first may write last. The clock of this run only moves forward; a wall clock
  that is set back does the same to one request at a time.
- **ServerSpacedDevice** (`NotFoundMeansNotListed`): a sync registers an identifier as sent, a
  DELETE trims it, so a device with a space at an end is listed and cannot be removed.

The passing runs next to them show what they hinge on. With requests one at a time `NoEntrySkipped`
and `EveryEntryArrives` hold in spite of faults: what a single reader with a few devices mostly
sees, and not what `net/http` guarantees, so nothing is proved from it. With any number at a time
`CursorPassesNothingOld` and `ImplementsReplay` say how far SystemSkipped can go: a cursor passes
over nothing that was stored when the page's query ran, and over what came later only when that
query found nothing. Without a power cut `NewEntriesAboveCursors` holds in spite of restarts.

Smaller disagreements met on the way, which no run is about:

- PRD.md:284 has `docker stop` "not sever an in-flight sync", and `docker-compose.yml:52-55` gives a
  stop 15 seconds for it; the server itself gives up after eight (`main.go:171`). What holds is
  `StopFinishesRequests`.
- A blank `CMDV_SYNC_TOKENS` or `CMDV_SYNC_TOKENS_FILE` beside the other one counts as not set and is
  dropped without a word (`InForce` carves it out), while every other variable set to nothing is
  refused.
- A backup command that is given another database than the server's creates an empty one, copies
  it and reports success (`hazards`).

### The bounds, and why they are enough

- *Handlers*: interference is between a call and whatever runs between two of its steps; two
  handlers give every such pair, and the connection can never be split among more than one holder.
- *Devices*: the store tells an entry's author apart from the asking device and nothing more; two
  devices give both. The third, in SystemSerial, is there for a second dataset in one sequence space.
- *Batches of 2, pages of 1 and 2, two to four sequences*: enough for a batch with a middle, a page
  that is cut, one that is exactly full, one that is empty with own entries above the cursor, one
  that is empty with nothing above, and a table that fills inside a batch. In SyncSystem devices ask
  for pages of 0, which the server makes its default of 1.
- *Cursors* of callers of the store go beyond any number assigned (a cursor from before a restore).
  In SyncSystem cursors are those the server gave.
- *Faults*: one in the runs of SyncSystem (`MaxFaults`), at every step of every request; in
  StoreEntries and ServerCalls calls fail as often as they like. The proofs have any number.
- *Writes*: each device has a finite list, short enough for one batch (`OutboxAssumption`). In
  SystemSerial one device writes twice, so that another takes two pages; devices that write and
  replay at a time are SystemConcurrent's; blobs
  differ, so a lost or misplaced entry is noticed.
- *StoreEntries* leaves the device calls out: they share nothing with the entries but the
  connection, and ServerCalls has them compete for it.
- *Process*: three statements of `migrate` have a first, a middle and a last; the two requests let
  one hold the connection while the other waits; a grace of 1 has a time before its end and one at it. One fault is a crash at any step, a failed start, a failed copy, or a change of the
  configuration, the volume or the port's owner under a running server.
- *Symmetry* is used in runs without liveness only, on values no definition tells apart; in
  SyncSystem on handlers alone, as devices have different lists of writes.

Deadlock is checked everywhere; no run needs it turned off, because a device can always sync again,
a caller can always call again, and a probe can always be made.

### Fairness and time

- `WF` on the steps of a handler that holds the connection or needs none: a goroutine that can run
  does, and SQLite statements end.
- `SF` on the steps that wait for the connection. `database/sql` (of Go 1.26, which `go.mod` asks
  for) gives a connection that comes free to a waiting call picked at *random*, not to the oldest: a
  call that waits could be passed over again and again, with a probability that goes to zero. `SF`
  leaves that one behaviour out, so the liveness properties that rest on it (`EveryCallReturns`,
  `EveryRequestIsAnswered`, `EveryEntryArrives`) hold almost surely, as everything under such a
  scheduler. This is the one assumption about code outside the repository.
- In SyncSystem, devices sync again and again (`SF` on `Exchange`, which needs a free handler) and
  read their answers. Nothing is assumed of faults.
- In Process, `WF` on the server's own steps of starting and stopping, and on the clock. Nothing is
  assumed of requests: `StopEnds` holds although a client may never finish.
- None on arrivals, on failures, on what an operator does.

Process counts time only while the server drains, in a unit of which the server's own steps need a
negligible part: `Tick` waits until `Shutdown` could not return anyway. Docker's SIGKILL is no
action of its own: a kill at any moment is `Crash`. That the kill does not come first is two
constants beside each other, eight seconds in `main.go:171` and fifteen in `docker-compose.yml:55`
(or Docker's own ten, `main.go:169-171`), and not a property of a model.

The clock of SyncServer is the wall clock: what is stored is `time.Now().UnixNano()`
(`server.go:43, 200`, `store.go:277`), which may step back. `ClockSetBack` lets `Tick` do so, in
ServerCalls and in all proofs; where no property looks at times, the runs have few readings or one.

## 4. What is proved

TLAPS checks the theorems for any sets of handlers, devices, datasets, blobs, requests and texts,
any `MaxBatch`, `MaxLimit >= 1`, `MaxSequence`, any number of faults, stops and statements of
`migrate`, any grace. The assumptions are those named in the modules that
declare the constants: `None` is not a handler or a name, limits are integers, cursors are naturals,
the default limit is a limit, the clock reads `0..MaxTime`, trimming an identifier gives an
identifier, trimming a text twice is trimming it once, each device has a list of writes no longer than a
batch, `migrate` has a statement.

| Theorem | Statement |
|---|---|
| `StoreInvariantHolds`, `ResultsInvariantHolds` | `Spec => []StoreInvariant`, `Spec => []ResultsInvariant` |
| `TypeCorrect` | `Spec => []TypeOK` |
| `SequencesAreUnique` | `Spec => []EntriesNumbered` |
| `NoHandlerWaitsForItself` | `Spec => []ConnectionHeldOnlyWhileUsed` |
| `AppendIsAtomic` | `Spec => []AppendStoresItsBatch` |
| `PagesSkipNothing` | `Spec => []PageSkipsNothing` |
| `EmptyPagesSkipNothingOld` | `Spec => []EmptyPageSkipsNothingOld` |
| `StoreIsEntryLog` | `Spec => ImplementsEntryLog` |
| `CursorsAreEntries` | `Spec => []CursorIsAnEntry` |
| `MoreIsHonest` | `Spec => []HasMoreIsHonest`, and with it that a page said to have more is full |
| `DevicesAreListedOnce` | `Spec => []OneListing` |
| `FirstContactsAreKept` | `Spec => FirstSeenIsKept` |
| `CallsAreBounded` | `Spec => CallsGoForward`, and a call has at most `MaxBatch + 3` steps left |
| `ServerUsesStore` | `ServerSpec => Spec` |
| `ServerInvariantHolds` | `ServerSpec => [](StoreInvariant /\ ServerInvariant)` |
| `ServerTypeCorrect` | `ServerSpec => []ServerTypeOK` |
| `AcknowledgedPushesAreStored` | `ServerSpec => []AcknowledgedPushIsStored` |
| `AnswersSkipNothing` | `ServerSpec => []AnswerSkipsNothing` |
| `RequestsAreBounded` | `ServerSpec => RequestsGoForward`, and a request has at most `MaxBatch + 11` steps left |
| `SystemInvariant`, `SystemTypeCorrect` | `SystemSpec => []SystemInv`, `SystemSpec => []SystemTypeOK` |
| `SystemKeepsAnswers` | `SystemSpec =>` the three properties of the server, through restarts |
| `OnlyOthersAreReplayed` | `SystemSpec => []OnlyOthersReplayed` |
| `NewEntriesAreAboveCursors` | `SystemSpec => NewEntriesAboveCursors` |
| `CursorsPassNothingOld` | `SystemSpec => CursorPassesNothingOld` |
| `WritesAreStored` | `SystemSpec => []StoredAsWritten`, if no device writes a blob twice |
| `AwaitedPushesEndOnTop` | `SystemSpec => AwaitedPushEndsOnTop`, if no device writes a blob twice |
| `OnlyTheGapSkips` | `SystemSpec =>` a step that breaks `NoEntrySkipped` reads an empty page, and what is skipped was stored after that page's query |
| `SystemIsReplay` | `SystemSpec => ImplementsReplay` |
| `PowerInvariant` | `PowerSpec => []PowerInv` |
| `PowerKeepsAnswers` | `PowerSpec =>` the types, `EntriesNumbered` and the properties of the server |
| `DiskHasAPrefix`, `PowerChangesOnlyTheEnd` | `PowerSpec => []DiskHasTheStart`, `PowerSpec => OnlyTheEndChanges` |
| `PowerCursorsPassNothingOld` | `PowerSpec => CursorPassesNothingOld` |
| `AdmissionInvariant` and four more | `Spec => []` each invariant of the run Admission |
| `ProcessInvariant`, `ProcessTypes` | `Spec => []ProcessInv`, `Spec => []ProcessTypeOK` |
| `ServersAreReady` | `Spec => []ServingMeansReady` |
| `BackupsHaveAcknowledged` | `Spec => []BackupHasAcknowledged` |
| `StopsFinishRequests` | `Spec => StopFinishesRequests` |

No theorem assumes that requests are served one at a time, or that a power cut spares what devices
were given. The one condition, that a device writes no blob twice, is that without which `Stored`
could not tell which of its writes a row is.

**The store.** None of the properties is inductive by itself. `StoreInvariant` adds what holds inside
a call:

- `ArgumentsGiven`: a call that writes has all its arguments, so the rows it inserts have their type;
- `TransactionFollowsLog`: the open transaction's rows are the first of the batch, numbered from
  the *committed* last sequence. It needs `ConnectionHeldOnlyWhileUsed`: as long as a handler is
  inside a transaction no other commits. With it, `CommitAppend` gives `AppendStoresItsBatch` and
  is the step `AppendBatch` of EntryLog;
- `ScanIsCurrent`: the rows being read are still what the query would return, for the same reason;
- `PageEndsInLog`: a page's cursor is not above the last sequence. New entries are, so a page without
  a gap stays one for as long as its answer is under way (`PageSkipsNothing`);
- `EmptyPageWasEmpty`: after an empty result everything that matches is newer than `offered`, the
  weakening under which the empty page's cursor is still right.

Five lemmas about `FirstRows` carry the page argument: what is left out lies above everything
kept, a result that is not empty has a first row, the last sequence is that of a row, a query of
one row more than the page holds returns that row exactly when there is one above the page, and
`LIMIT n` gives at most n rows and exactly n when it leaves any out (`FirstRowsCount`). The
argument for the step of each action is a lemma of its own; `NextPreserves` collects them.

`StoreIsEntryLog` is a step refinement: a call with a batch maps to `Submit`, `CommitAppend` to
`AppendBatch` of that very batch, a failed append to `Drop`, every other step to a stutter
(`CallSubmits`, `StepRefines`). What a transaction keeps hidden until its commit is thereby shown to
be invisible, and a batch that was cut off never to show a part of itself.

`StoreResults_proofs` is about what callers are told. `ResultsInvariant` is inductive relative to
`StoreInvariant`: an empty page stays at the caller's cursor until the high-water mark is read, a
query's view of the log is a part of today's, and the two properties themselves. Every step but
`ReadPage` and `ReadHighWater` leaves the pages alone or adds entries above the last sequence only
(`StepIsQuiet`, `StepsGrowLog`), which changes nothing that a page said (`QuietPreserves`). When a
page is cut, `ExtraRowMeansMore` gives `hasMore`. `FirstSeenIsKept` needs that a device is listed
once (`OneListing`): with two listings the upsert could take either one's first contact.

`CallsAreBounded` is the half of `EveryCallReturns` that needs no fairness: each step of a call's own
leaves it fewer to take (`StepsLeft`), no step of another gives it more, and a batch of the longest
kind has `MaxBatch + 3` in all. What is left to TLC is that the steps are taken: that the connection
comes round. `RequestsAreBounded` says the same of a request and `EveryRequestIsAnswered`.

**The server.** `ServerInvariant` says of each handler that the call it is in is one its stage
allows, with the arguments of its request (so that its calls are calls a caller of Store may make,
which is `ServerUsesStore`), that its push is stored from the pull on, and that the page it will
answer ends inside the log and has no gap. What a handler has, others cannot take from it, because
the log only grows above what it was given (`HandlerKept`). An empty page keeps that what its cursor
passes over was stored after the query (`EmptyKept`), which is what a device that asked again could
not have been given.

**The system.** A step of SyncSystem is a step of SyncServer or a restart (`SystemStepIsServerStep`);
a restart keeps the tables and empties the handlers, so the server's invariants survive it
(`RestartKeepsServer`). `DevicesInv(m)` adds that no cursor under way or kept is above `m` and that
no answer's cursor is below its request's (`CursorOK`), and that the handler a device waits for
serves that device's sync, with the cursor the device still keeps (`WaitingOK`). With the last
sequence for `m` it is part of `SystemInv`: new entries land above every cursor. With the largest
number there is (`Served`) it holds whatever becomes of the tables, and that is enough for
`CursorPassesNothingOld`. From there:

- *Order*, `OutboxInv`: a batch under way is a stretch of what its device wrote that begins no later than
  after the last acknowledged write, and for the device that waits exactly there. A commit then puts
  the i-th write below the j-th for i < j (`CommitStores`, `CommitPlaces`), whichever copies came
  before: `StoredAsWritten` is inductive with it, with any number of handlers.
- *The newest write*, `AwaitedInv`: while a device waits, nothing stored of it and nothing under way
  for it is newer than the last write of the push it waits for (`NothingNewer`). When it sends, that
  push has all it wrote (`ExchangeIsNewest`); while it waits it sends nothing else. So the commit
  puts the newest on top, and what breaks it is a request that nobody waits for.
- *The gap*, `OnlyTheGapSkips`: new entries land above every cursor and a page with entries has no gap,
  so a device can come to miss an entry only by reading an empty page whose cursor is above
  `asOf`. SystemSkipped is therefore not one of many ways but the only one.
- *The shared log*, `ReplayInv`: `PagesInv` says of each page under way that it holds all of the
  others' entries up to its cursor, or is empty and found nothing up to where the log ended when it
  was looked up; `ComeInv` says of each device that the others' entries between the cursor it keeps and its position
  are applied, and that its position is not beyond where the log ended when it asked. A device
  that applies a page again after it died, from an older cursor than its position, goes back for
  nothing. Every step of SyncSystem is one of four kinds (`StepsAreKinds`): nothing that a device
  sees but perhaps that its request is gone (`Leaves`, to Replay's `Leave`), a query for a request
  that is waited for (`Asks`), a page read (`Takes`, to `Deliver` or `DeliverNothing`), a commit
  (`Pushes`, to `Push`).

**The power.** A cut can leave cursors above the end of the log, so `SystemInv` does not survive it;
`PowerInv` is `Served` and that the disk has the log up to some number (`DiskHasTheStart`). A cut is
then a reset to a log that was there before, and everything the server promises at the moment of an
answer goes on holding, as do the cursors' promises about what *is* stored. What is lost is what
PowerReuse finds. A deployment that wants it back needs commits forced before they are answered, or
cursors checked against the end of the log.

**The checks.** `AdmissionInv` says that a running server has what its environment says
(`Configured`), what each check has let through (`LetThrough`), that whoever got past the token has one
(`Identified => Known`), and why a request was refused (`Reasons`); the four theorems are read off it.

**The processes.** `ProcessInv` says that a process inside `migrate` finds the statements before its
own in effect, whoever ran them (`Migrated`), that what is answered is in the log (`Committed`), that a
copy under way has what it owes from its first moment on (`Copied`), and that `Shutdown` gives up
neither early nor late (`Drained`).

Only model-checked: the six violations; all liveness (`EveryCallReturns`, `EveryRequestIsAnswered`,
`EveryEntryArrives`, `StopEnds`, `StartRecovers`), which is beyond the prover (of the first two the
bound on the steps is proved); and `NoEntrySkipped` and `NotFoundMeansNotListed`, which hold of one
request at a time and of identifiers that trimming leaves alone, and are false beyond. Every other
safety property of a passing run is a theorem, for any instance.

## 5. What is not modelled, and what the models take for granted

- A COMMIT that reports an error had no effect. (A statement on `devices` may have had its effect:
  `FailAfterwards`.)
- SHA-256 does not collide (`TokenAssumption`).
- The order of a device listing, JSON, headers, wording, log lines, `Summary`: output.
- `busy_timeout`: a process that waits five seconds for another's lock gets an error, which is a
  failed call of Store and a failed start of Process.
- The bounds that `Validate` compares with (`IsValid` has them, no property repeats them).
- The timeouts of `http.Server`: a request may end at any time anyway. Nothing makes a client finish.
- A second SIGTERM, and signals to the commands: a `Crash` there.
- What a stop whose grace is over leaves of the write-ahead log: the next `Open` reads it.
- Connections reopened by `database/sql`, and with which pragmas; float64 timestamps.
  `hazards` in `PROJECT.json` says of each what could go wrong.
- Panics: no modelled handler has one, so `recover` has nothing to do.

## 6. Plan

Done: every component of section 1 but the wording of its output, with proofs of the safety
properties that hold with any number of requests.

Next, in this order:

1. **Process over SyncSystem**: the requests of Process are stages that abstract SyncServer's; the
   mapping between them can be stated, checked and proved.
2. **Bounds on the other waits**: a start and a stop of Process take a bounded number of the server's
   own steps, as calls and requests do.
3. **Timestamps**: float64 seconds and the cut to milliseconds over scaled integers, against the
   protocol's "truncated".
