# Formal model of the WoW Markets companion and addon

This directory is the verification development kept beside the code: TLA+
modules translated from the Go companion and the Lua addon, TLC configurations
that check them on small instances, and TLAPS proofs of what matters for every
instance. Paths below are relative to the repository; `internal/` stands for
`companion/internal/`.

1. [The system](#the-system)
2. [Modules](#modules)
3. [Runs](#runs)
4. [Fairness](#fairness)
5. [Proofs](#proofs)
6. [Findings](#findings) and [observations](#observations)
7. [What is not modelled](#what-is-not-modelled)
8. [Plan](#plan)

To repeat everything: `tlc -workers 2 -config X.cfg M` for each line of the run
table, `tlapm M.tla` for each module whose name ends in `_proofs`, and for
`NumberInduction`.

## The system

The addon copies auction-house scans into `SavedVariables/WoWMarkets.lua`, which
World of Warcraft writes at a reload or logout. The companion, a desktop
application, polls that file, archives each new scan, queues it in a durable
file and uploads it to the API. It finds the game by itself, keeps an
installation token in the credential store, and updates itself from a signed
feed.

```
 addon (Lua)             companion (Go)
 Capture --> SavedVariables --> Watcher --> Archive --> Upload queue --> API
                                   ^  runCycle, one goroutine     ^
              Window, Tray --> Application (setupMu, app.mu)  ----+ reset for a
                    |              | settings, token, discovery     new token
                    +--> Updater --+ (updateMu, app.mu) --> installer / Sparkle
```

| component | source | state | operations | what makes it hard | what makes it correct |
|---|---|---|---|---|---|
| Upload queue | `internal/scanupload` | `uploads.json`; the copy ProcessDue works on | Queue, ProcessDue, ResetFailedAuthorization, NextDueAt | crashes and failed writes around a request, late and lost answers, retries, cancellation | uploaded means accepted; nothing leaves the queue; the schedule announces all work; every scan settles |
| Watcher | `internal/watchagent`, `internal/scanfile` | last signature, upload schedule, health | runCycle | the game writes while it reads; a step of three fails; a stop in the middle | no scan is skipped for good; what is queued is archived |
| Scan archive | `internal/scanarchive` | `scans/*.json.gz`, `state.json` | ProcessFile, Records | several files written one after another | a record has its file |
| Application lifecycle | `companion/app.go` | settings, token, snapshot, the watcher's handle | initialize, settings calls, setup monitor, restart, Quit | seven kinds of goroutines, two locks, a stop that may time out | one watcher; queue reset only when none runs; the last token is used; setup completes |
| Settings, credentials | `companion/config.go`, `secrets.go`, `token.go` | `config.json`, the credential store | load, save | a file rewritten in place | what is in use is on disk; no change is undone |
| Installation discovery | `internal/wowinstall` | none | discover, inspect | files come and go | the candidates it returns |
| Updater | `companion/updater*.go` | shown state, staged path, deferred version, channel | check, defer, change channel, install | checks of three origins overlap with calls of the window and tray | what is shown as ready is what is installed; never a downgrade |
| Update feed | `internal/updatefeed` | none | Parse, Select, Compare | order of semantic versions | Select takes a newer release only |
| Update relaunch | `companion/update_relaunch.go` | a marker file | mark, consume | — | — |
| Addon capture | `addon/WoWMarkets/Capture.lua`, `Core.lua` | stored scans, the scan in the making | begin, batch, finish, logout, clear | a logout between two batches; a bounded queue | stored scans are whole; a warning comes before a loss |
| Export format | `internal/exportfmt` | none | decode, validate | one bad row refuses the file | what the addon stores is read back as it was delivered |
| SavedVariables parser | `internal/luasv` | none | parse | the game writes the file in place while it is read | a file is read whole or not at all |
| Activity overview | `companion/activity.go` | the overview shown | reload | reloaded at events only; some changes of the queue have none | agrees with archive and queue |
| Window | `companion/frontend/dist` | view state | calls of the application | which call is offered when | — |
| Tray, start at login | `companion/status_item*.go`, `autostart*.go` | platform state | install, open, quit | platform threads | — |
| Command-line tools | `companion/cmd` | none | generate feeds and fixtures | — | — |

## Modules

| module | stands for | uses |
|---|---|---|
| `UploadLedger` | abstract specification of the upload queue | — |
| `ScanUpload` | upload queue, server and network | instance of `UploadLedger` |
| `NumberInduction` | induction over numbers, for the proofs about loops | — |
| `ScanUpload_proofs` | theorems about `ScanUpload` | extends `ScanUpload`, `NumberInduction` |
| `ScanPipeline` | abstract specification of the watcher | extends `UploadLedger` |
| `WatchAgent` | watcher and archive, composed with the queue | extends `ScanUpload`, instance of `ScanPipeline` |
| `WatchAgent_proofs` | theorems about `WatchAgent` and `ActivityOverview` | extends `ActivityOverview`, `ScanUpload_proofs` |
| `ActivityOverview` | what the application shows of archive and queue | extends `WatchAgent` |
| `AppLifecycle` | application, settings, token, discovery | — |
| `AppLifecycle_proofs` | theorems about `AppLifecycle` | extends `AppLifecycle` |
| `MCAppLifecycle` | symmetry for the safety runs | extends `AppLifecycle` |
| `UpdateFeed` | order of versions, selection of a release | — |
| `Updater` | updater, tray and window towards it | extends `UpdateFeed` |
| `MCUpdater` | releases and feeds for the runs | extends `Updater` |
| `Updater_proofs` | theorems about `UpdateFeed` and `Updater` | extends `Updater`, `NumberInduction` |
| `AddonCapture` | addon | — |
| `AddonCapture_proofs` | theorems about `AddonCapture` | extends `AddonCapture`, `NumberInduction` |
| `ScanExport` | decoding and validation of what the addon stored | extends `AddonCapture` |
| `SavedVariables` | Lua parser, and the game's writer of tables | — |
| `SavedVariables_proofs` | theorems about `SavedVariables` | extends `SavedVariables`, `NumberInduction` |
| `SavedFile` | the file as the game writes it and `scanfile.Load` reads it | extends `ScanExport`, `SavedVariables` |
| `ScanExport_proofs` | theorems about `ScanExport` and `SavedFile` | extends `SavedFile`, `AddonCapture_proofs`, `SavedVariables_proofs` |
| `MCScanExport` | listings and places for the run | extends `SavedFile` |

`AppLifecycle` takes a watcher as a goroutine that may run, be told to stop,
return, fail and have a scan refused; `WatchAgent` takes the application as
somebody who starts and stops it and replaces the token while it is off. The two
meet in two assumptions, one watcher (`OneWatcher`) and a reset of the queue only
while none runs (`QueueIsQuiet`), which the runs of `AppLifecycle` check and
`AppLifecycle_proofs` proves. `ScanUpload` relies on both, and proves
`MemoryMatchesDisk` from them.

Operators marked `\* Mutant:` are deliberately wrong versions of the operator
that follows. No specification uses them; they are there to show that a property
notices when the code goes wrong in that way.

### ScanUpload

`uploads` is `uploads.json`, replaced by a rename and therefore whole at every
step. A record keeps the fields that decide: status, retryable, attempts,
`wait` for `NextAttemptAt`, and `http` for `HTTPStatus` and `LastError`. Time is
relative: `Tick` brings every instant closer, so no clock grows.

`ProcessDue`, `BeginUpload`, `SendRequest` ... `FinishUpload` and `EndProcessDue`
are ProcessDueLimitWithProgress cut where a crash, a cancellation or the server
can come between: the recovery of interrupted uploads, the write of the attempt,
the request, the write of the result. `loaded` is `currentState`, the copy the
loop goes on with. Reading the file ("load") and writing it ("write") may fail, and
then the call ends where the code returns. `Queue` and `ResetFailedAuthorization` are one step each because the
application and the watcher call them only between two calls of ProcessDue.

The server is external: it accepts (201, or 200 for a duplicate), refuses with a
code, or answers what the client cannot use. A request the client gave up on
goes to `late` and can be accepted at any later time.

`UploadLedger` has one word per scan: absent, open, rejected or confirmed.
`ScanUpload` implements it under the mapping `Entry`: pending, uploading and
retryable records are open.

### WatchAgent

One variable `step` follows runCycle: stat, load, archive, queue, schedule,
upload. The game's `Rewrite` can happen between any two, in particular between
the signature that is remembered and the content that is read. Each of the cycle's
three readings of the queue may fail: in `QueueScans`, at the start of ProcessDue
and in the NextDueAt at its end (`NextDueAtFails`). `archives` are
the compressed files, `archived` is `state.json`. Inside "upload" the actions of
`ScanUpload` run; `ProcessUploads` adds what the watcher makes of their end.
`Start`, `Stop`, `Stopped` and `CrashWatcher` are the application's side. The
queue fails in `Queue`, where it has scans to add, with a kind of fault of its own,
"queue", so that the run of liveness can leave it out (finding 1) and keep the
failures of ProcessDue.

`ScanPipeline` has neither files nor cycles: scans are kept, and only what is
kept enters the ledger. `WatchAgent` implements it with `kept` as the scans that
have both their archive file and their record in `state.json`. That nothing kept
is lost and nothing is queued before it is kept are one refinement
(`ImplementsPipeline`) through stops, crashes and failed writes of any file.

### ActivityOverview

`shown` is what reloadActivity copied into the application. Each event of
runCycle reloads it: archived scans, queued scans, the attempt before its
request, the results of ProcessDue together after its end, errors, "recovered",
started and stopped. An `Emit...` action is a step of `WatchAgent` with the events
that step emits; the steps in `Silently` emit none. Events of one step are one
reload, because nothing changes between them. `tried` says that ProcessDue has
results to report. A start of the process and a reset for a new token reload too.
A reload that fails keeps the former overview and is not modelled.

### AppLifecycle

`lock` is `setupMu`. Each critical section of `app.mu` is inside one step, and a
step that holds `setupMu` includes what nobody else can see before the next one.
`calls[u]` is one call from the window with its place in the function, the copy
of the configuration it works on, and the watcher it waits for. A watcher
goroutine goes from running over cancelled, returned and cleared to ended: the
handle is cleared before `done` is closed, and callers, Quit and the goroutines
`restartWatcherWhenStopped` leaves behind tell these moments apart.
`StopTimesOut` is the ten seconds a stop waits; when the watcher ends at that very
moment its restart is due at once (`RestartWhenStopped`). `MonitorCannotLook` is a
tick of the setup monitor that cannot look for the addon or the files. `keyring` has the two entries of the
credential store: `Load` moves the token of a former version to the current one and
forgets it there, and forgetting a token deletes the former entry (`DeleteFirst`) and
then the current one, each of which may fail.

### Updater

`checks[t]` is runUpdateCheck in the ticker's goroutine, in a call of the window
or in a goroutine that SetUpdateChannel left behind; they exclude one another by
`updateMu`, while `window` and `installs` do not take it. `updater` is what is
shown, `staged` and `stagedFile` are the path and what lies there: every release
is downloaded to the same name, so the two are separate facts. Quit cancels the
ticker's check, which then fails (`Fails`). Without a platform updater the stable
channel is shown, whichever was chosen (`Starts`). `sparkle` tells
macOS from Windows and both are in the same run. The status "error" stands for
"offline" too, which differs in its words only.

`UpdateFeed` has versions as numbers and identifiers, `Compare` as the list of
its comparisons of which the first one that differs decides, and `Select` as the
loop over a feed. `Newer` is the precedence of semver.org written independently,
for the properties. `Selection` is `Select` as a table over feed, version and
target, because TLC computes a constant once. The loop of `Select` is a recursive
function of the number of releases it has seen, which the proofs can unfold.

### AddonCapture and ScanExport

Lua runs one handler at a time: a handler is a step. A scan holds rows with
references into its own dictionary of items; each row also keeps the listing it
came from, which the addon does not, so that a property can tell whether the
reference is right. `CopyRows`, the loop over a batch, is a recursive function of the
row. `disk` is the SavedVariables file, written at `Logout`,
which is also what a reload does.

`ScanExport` adds no step. Each function of `exportfmt` is there as the condition
under which it returns no error and the value it returns then, applied to `disk`.
A listing is its link, item id, name and stack; a missing string is empty and a
missing number 0, as the addon stores them. The time a scan took is an input that
may be negative, since any addon can start the client's profiling clock anew.
At a load either all stored scans are of another format or none is: every load
discards those of other formats (Core.lua:77-83), and a session adds its own only.

### SavedVariables and SavedFile

`SavedVariables` is package `luasv` on the sequence of a file's tokens. The two
tokens of lookahead, the keys, the entries of a table and the loop over the
document are as in the code; an error is position 0, which no later step leaves.
`Parser` is one function of the position, so each table is parsed once; what an entry
adds to its table is `Assign`, in which the later entry of a key wins (`Merge`). The lexer
is what it makes of whole and cut-off words: comments and white space are left
out, and a string without its end cannot be lexed. A number beyond 64 bits is a token
that neither a value nor a key begins with, and is refused where the parser meets it.

`SavedFile` writes what the addon left as the game does, with or without list
indexes (`WrittenTable` and what it is built of; external, after the fixtures of
`luasv`), and reads it with `Load`, which tries the current variable and then the
former one. `CutOff` is every beginning of the file, with each thing that can be left
of the token it ends in. `Shapes` has the lengths the lists of a file can have.

## Runs

Times are for two workers. "F" is the number of faults, all kinds together,
each at any moment.

| run | module | bounds | distinct states | what it shows |
|---|---|---|---|---|
| `ScanUpload` | ScanUpload | 3 scans, one truncated; codes 400, 401, 503; F = 2 | 745 thousand, 45 s | safety of the queue, and that it implements `UploadLedger` |
| `WatchAgent` | ActivityOverview | 2 scans; code 401; 2 rewrites; F = 1 | 2.8 million, 120 s | safety of the watcher over archive, queue and overview, and that it implements `ScanPipeline` |
| `WatchAgentLive` | WatchAgent | 2 scans; code 401; 1 rewrite; F = 1 | 140 thousand, 150 s | a scan that is in a readable file or queued settles |
| `AppTokens` | MCAppLifecycle | 2 calls, 2 tokens and what a former version left, 2 watchers, 1 file; F = 1 | 920 thousand, 50 s | who may start a watcher, and with which token; which token the next start finds |
| `AppSettings` | MCAppLifecycle | 2 calls, 2 files, 2 watchers; F = 2 | 800 thousand, 40 s | settings are saved and nobody undoes another's change |
| `AppLive` | MCAppLifecycle | 1 call, 2 watchers, 1 file that changes once; F = 1 | 175 thousand, 75 s | setup completes, a ready application runs a watcher |
| `Updater` | MCUpdater | feeds that promote 2, 3 beside an older and a foreign release, or nothing; 3 mandatory; both platforms, 1 change of promotion; F = 1 | 336 thousand, 95 s | what is shown, staged and installed agree; a promotion arrives; versions are ordered |
| `ScanExport` | MCScanExport | 27 deliveries of up to 3 rows, batches of 2, a queue of 2, 3 scans | 218 thousand, 55 s | stored scans are whole, losses are announced, and the companion reads what was delivered, or nothing of a file that is cut off |
| `WatchAgentQueued` | WatchAgent | 1 scan, 2 rewrites; F = 1 | | finding 1 |
| `AppSetup` | MCAppLifecycle | 1 call, 1 file; F = 1 | | finding 2 |
| `UpdaterRollback` | MCUpdater | the same feeds, Windows, 2 changes of promotion, no fault | | finding 3 |
| `AppRequeue` | AppLifecycle | 1 call, 2 tokens, 1 file; F = 2 | | finding 4 |

### The properties, and why the bounds are enough

**ScanUpload.** `UploadedIsAccepted`: uploaded means the server has it.
`OneAttemptOnDisk`: the attempt is in the file before its request leaves, and it
is the only one. `MemoryMatchesDisk`: the copy ProcessDue writes back is the file,
whichever way it goes on, gives up or fails to write. That nobody else writes the
file meanwhile is `OneWatcher` and `QueueIsQuiet`. `ScheduleCoversQueue`: NextDueAt, ProcessDue's selection
and its recovery agree, though they are three loops in the code.
`FinalRecordsStay`: what is settled is not touched. Two uploadable scans make
one that waits while the other is uploaded; the third is truncated and shows
that it is never queued. The back-off of 2 with a maximum of 3 is clamped on the
second attempt, so `AttemptCap` 2 has both cases. The three codes are one that
is refused for good, one that a new token cures and one that is retried. The
theorems below do away with these bounds.

**WatchAgent.** `SkippedFileIsArchived`: a file that will be skipped was read whole and holds nothing new.
`ScheduleIsCurrent`: the schedule kept between cycles is the queue's. Two
rewrites are the file that is looked at and the one that replaces it before it
is read. `ImplementsPipeline`: archive and queue together are the abstract pipeline,
so upload can open what is queued.
`ShownIsCurrent`: during an upload, between cycles and after a stop the overview
agrees with the files, though recoveries, resets and interrupted attempts change
the queue without an event. `SavedScanSettles` runs through everything, from the
file or from a pending record; that run has no failure of Queue and no failed
read of the archive's records, because of finding 1. With its one rewrite the game
cannot replace a file that is just looked at and then leave it; that race is
`SkippedFileIsArchived`'s, in the run before. A maximal back-off of 1 is
below the base of 2, so the first attempt is clamped already.

**AppLifecycle.** `OneWatcher`, `QueueIsQuiet`, `WatcherHasToken`,
`QuitStopsWatcher`, `OnlyCallsChangeToken` (a token that was replaced or forgotten
never comes back), `SettingsAreSaved`, `CopyIsCurrent` for safety, `ReadyRuns`
and `SetupCompletes` for progress. Two calls are enough for any pair of them to
overlap beside the monitor and Quit; two watcher goroutines are one that is slow
to end and its successor. `AppTokens` has the calls that set and forget the
token, with a watcher that fails by itself, a refused scan, an inspection that fails
and a credential store that fails at any of its uses, `AppSettings` the failed, torn and interrupted writes; their
operations divide the calls by what they change. In `AppLive` neither inspections
nor writes fail, because of finding 2.

**Updater.** `ReadyMeansStaged`, `StagedIsNewer` (no installer can downgrade, or
be for another platform), `SettledOnChannel` and `CheckingMeansChecking` (both
for Windows, see the observations), and `PromotedUpdateArrives` for progress. Two versions beyond the one that runs are
one that is staged and one that replaces it; at first both channels promote the
same, and a change replaces it by the other, an older one included, or withdraws
it. The versions are 1.0.0-beta.2, beta.10, 1.0.0, and 2.0.0 for another platform.
Installations are one at a time, and SetUpdateChannel leaves one check behind
(`Spawned`), beside the ticker's and the window's: three checks that ask for
`updateMu`. `CompareIsPrecedence` compares them with 168 versions: the core
numbers 0 and 1, and up to two identifiers of two numbers and two names, which
has each kind of difference at each place.

**AddonCapture and ScanExport.** `StoredScansAreWhole` and `WarnedBeforeLoss` of
the addon; `CompleteScansLoad` (nothing the addon does keeps
a file from loading when the client knew what the companion requires) and
`DecodedAsDelivered` (each row comes back with the item of the first listing of
its key) of the two together; `FileReadWholeOrNot` of the file between them. Three rows in batches of two are a full batch and a
rest; three scans overflow a queue of two. The listings are one item with and
without its link, the link before its name is known, and an empty entry; the
places are a faction's city, a neutral house told by its map, its zone or its
subzone only, and three where something is not known; one scan has a negative
duration. The parser depends on the
number of scans, rows and items and not on what they say, so `Readings` is a table
over these numbers: up to two scans of up to three rows and items, in both
styles, cut off at every token.

Deadlock is checked in every run.

## Fairness

- `WatchAgent`: the goroutine runs, the ticker ticks, each request ends (the HTTP
  client has a timeout), a stopped watcher is started again (a stop that is for
  good ends the obligation), and for each scan, if the client keeps asking, the
  server accepts it and its result gets back again and again. The last is an
  assumption about the environment; without it a scan is retried for ever, which
  is what the code is meant to do. Accepting and delivering are per scan, because
  a server that always fails one and the same scan must not hold up the others.
  Nothing obliges the game to write.
- `AppLifecycle`: goroutines run and `setupMu` starves nobody (Go's mutex goes
  into its starvation mode after a millisecond), so acquiring is strongly fair; a
  cancelled watcher returns. No call, no time-out, no failure and no Quit is fair.
- `Updater`: the ticker ticks, `updateMu` as above, and requests, downloads and
  installations end by their deadlines. No button is fair, and neither is Sparkle.

## Proofs

What is proved holds for every value of the constants: any scans, clients, tokens,
files, versions, feeds, listings and sizes, and any number and kinds of faults and
of whatever else a constant bounds.

| theorem | module | states |
|---|---|---|
| `TypeCorrect` | ScanUpload_proofs | `Spec => []TypeOK` |
| `UploadedOnServer` | ScanUpload_proofs | `Spec => []UploadedIsAccepted` |
| `SingleAttempt` | ScanUpload_proofs | `Spec => []OneAttemptOnDisk` |
| `NoLostUpdate` | ScanUpload_proofs | `Spec => []MemoryMatchesDisk` |
| `FinalRecords` | ScanUpload_proofs | `Spec => FinalRecordsStay` |
| `Schedule` | ScanUpload_proofs | `Spec => []ScheduleCoversQueue` |
| `Refinement` | ScanUpload_proofs | `Spec => ImplementsLedger` |
| `WatchTypeCorrect` | WatchAgent_proofs | `WatchSpec => []WatchTypeOK` |
| `NoScanSkipped` | WatchAgent_proofs | `WatchSpec => []SkippedFileIsArchived` |
| `ScheduleKept` | WatchAgent_proofs | `WatchSpec => []ScheduleIsCurrent` |
| `PipelineRefinement` | WatchAgent_proofs | `WatchSpec => ImplementsPipeline` |
| `ShowsTheFiles` | WatchAgent_proofs | `ActivitySpec => []ShownIsCurrent` |
| `ActivityWatches` | WatchAgent_proofs | `ActivitySpec => WatchSpec` |
| `AppTypeCorrect` | AppLifecycle_proofs | `AppSpec => []AppTypeOK` |
| `WatcherIsAlone` | AppLifecycle_proofs | `AppSpec => []OneWatcher` |
| `ResetIsQuiet` | AppLifecycle_proofs | `AppSpec => []QueueIsQuiet` |
| `WatcherUsesToken` | AppLifecycle_proofs | `AppSpec => []WatcherHasToken` |
| `QuitIsFinal` | AppLifecycle_proofs | `AppSpec => []QuitStopsWatcher` |
| `SettingsSurvive` | AppLifecycle_proofs | `AppSpec => []SettingsAreSaved` |
| `CopyStaysCurrent` | AppLifecycle_proofs | `AppSpec => []CopyIsCurrent` |
| `TokenChangesByCalls` | AppLifecycle_proofs | `AppSpec => OnlyCallsChangeToken` |
| `ComparisonIsPrecedence` | Updater_proofs | `Compare` is `Order`, for versions that fit |
| `SelectedFits` | Updater_proofs | what `Select` returns is in the feed and fits |
| `SelectedIsNewest` | Updater_proofs | it is the newest update, for versions that fit |
| `UpdaterTypeCorrect` | Updater_proofs | `UpdaterSpec => []UpdaterTypeOK` |
| `ReadyIsStaged` | Updater_proofs | `UpdaterSpec => []ReadyMeansStaged` |
| `NeverDowngrades` | Updater_proofs | `UpdaterSpec => []StagedIsNewer`, for versions that fit |
| `ChannelIsSettled` | Updater_proofs | `UpdaterSpec => []SettledOnChannel` |
| `CheckingIsChecking` | Updater_proofs | `UpdaterSpec => []CheckingMeansChecking` |
| `RunningIsPlaced` | Updater_proofs | `UpdaterSpec => []CompareIsPrecedence`, for versions that fit |
| `AddonTypeCorrect` | AddonCapture_proofs | `AddonSpec => []AddonTypeOK` |
| `StoredScansWhole` | AddonCapture_proofs | `AddonSpec => []StoredScansAreWhole` |
| `LossIsAnnounced` | AddonCapture_proofs | `AddonSpec => WarnedBeforeLoss` |
| `CompleteScansAreRead` | ScanExport_proofs | `AddonSpec => []CompleteScansLoad` |
| `ReadAsDelivered` | ScanExport_proofs | `AddonSpec => []DecodedAsDelivered` |
| `UnclosedIsRefused` | SavedVariables_proofs | a document with a table left open is refused |
| `TornIsRefused` | SavedVariables_proofs | so is one of nested tables that is cut off at any token |
| `DocumentIsRead` | SavedVariables_proofs | a document that spells a table is parsed as that table |
| `WholeIsRead` | ScanExport_proofs | `Load` of a whole file returns the scans written, any scans |
| `TornIsNothing` | ScanExport_proofs | `Load` of a file cut off anywhere returns none |
| `ReadWholeOrNot` | ScanExport_proofs | `AddonSpec => []FileReadWholeOrNot` |

Each module also has the theorem that its inductive invariant holds (`Invariant`,
`WatchInvariance`, `ActivityInvariance`, `AppInvariance`, `UpdaterInvariance`,
`AddonInvariance`).

**Assumptions.** Those stated in the modules, which TLC evaluates in every run.
`ScanUpload`: checksums are positive numbers (their order is the sort order, 0 is
"none"), codes are numbers other than 0, 200 and 201, the base delay is positive.
`AppLifecycle`: `None` and the monitor's name are no client, token, path or watcher.
`UpdateFeed`: releases are positive numbers, and the core numbers of their versions
fit into 64 bits, which ParseVersion demands. None of the sets need be finite. Four
theorems of `Updater_proofs` have a hypothesis besides. "For versions that fit" is
`ReleasesFit`, and for `RunningIsPlaced` the same of `Samples`: the numeric
identifiers of pre-releases are at most `MaxUint` too. ParseVersion does not demand
that, and without it the statements are false (see the observation on `Compare`).
What `Select` and the updater do with whatever order `Compare` gives, `SelectedFits`
and `InstallerFits`, is proved without it.

**Argument.** None of the invariants that matter is inductive alone. TLC checked
each conjunct of the invariants below before it was proved.

*Upload queue (`IInv`).* `UploadedIsAccepted`
breaks when a success is written that the server never gave, so it needs
`HonestOutcome`: a result for the active scan that was received, and an outcome
that says so, come from a server that holds it. `FinalRecordsStay` needs
`DueIsOpen` (what the loop has still to try is neither uploaded nor refused in
the copy it works on) and `MemoryMatchesDisk` (the copy is the file).
`ScheduleCoversQueue` needs `RetryIsScheduled`: a next attempt is set exactly on
retryable failures. `InvInit` and `InvStep` show `IInv` inductive, one step per
action. Actions that leave the file alone share `FileUntouched`, those that give up
share `ReturnUnsaved`, and the one-step operations share `IdleRewrite`. The
refinement adds `LateIsKnown` (a request on the wire is for a scan that has a
record) and shows in `LedgerStep` that every step is one of the ledger's or a
stutter. `Schedule` picks the least waiting time of a possibly infinite set
(`LeastNumber`).

*Watcher (`WatchInv`).* The queue's invariant is kept by every step of the watcher
because a step of the watcher is one of the queue's or leaves the queue alone
(`QueueStep`), so nothing about the queue is proved twice. `SkippedFileIsArchived`
needs to know, from the moment the signature is taken, that an unchanged file is the
one that was read (`SignatureIsOlder`), and on the way to `state.json` that every scan
of the file is named, written or still to write (`ArchiveIsComplete`).
`ScheduleIsCurrent` needs where it may be out of date (`ScheduleFollows`).
For `PipelineRefinement`, `HandlingSettles` narrows `LedgerStep`: ProcessDue and the
server never enqueue (`AbsentStays`), so only the watcher's `Queue` has to show that
what it enqueues was archived.

*Overview (`ActivityInv`).* `StaleOnly` names the moments in which the view may lag:
in the loop of ProcessDue while an event is still to come, and after a stop until the
watcher has said so. As `ActivitySpec => WatchSpec`, the theorems about the watcher
hold of it too.

*Application (`AppInv`).* `OneWatcher` follows from `HandleIsOfRunning`: the handle is
that of the one goroutine that has not cleared it. `QueueIsQuiet` needs that a call
which stopped the watcher finds none until it returns (`StoppedStays`), and for that
what it waits for is still the current one (`AwaitsCurrent`), that the monitor starts
watchers under `setupMu` only (`MonitorHolds`), and that each call is only where its
operation goes (`CallsFitOperations`). `QuitStopsWatcher` needs `QuitHasStopped`,
since Quit does not take `setupMu`. `SettingsAreSaved` needs `ConfigOnDisk`, and
`WatcherHasToken` that a call replaces the token only where no watcher is current.

*Updater (`UpdaterInv`).* `OneHolds` (updateMu) makes `ChecksFollow` inductive: what a
check found, showed and downloaded so far is still so when it goes on. With it a check
that publishes finds its own release in the staged file, although deferrals, changes
of channel and installations interleave with it. `InstallerFits` covers the file for
which an installation is about to start, whose path may be forgotten meanwhile.
`ChannelSettles` says who will bring the shown channel in line with the chosen one
(a check that is due, one that began with it, or the call that is about to leave
one behind), also while a check of the former channel is under way.

*Versions.* `Compare` is a list of comparisons and `Newer` a relation on lists of
places, independently written. `Comparisons` shows that the one is the other's
comparison place by place, `Decision` that the first that is not 0 decides, and
`IdentifierOrder` is where numbers must fit. `SelectedIsNewest` goes through the loop
of `Select` by `LoopInduction` and needs that `Newer` is transitive and irreflexive
(`NewerIsTransitive`, `NewerIsStrict`).

*Addon (`AddonInv`).* A stored scan is whole (`Stored`) because a scan in the making
is so far (`Partial`): rows in place, keys of the dictionary all different, each item
as in its first row. Copying a batch keeps this for each row, by `LoopInduction`.
`WarnedBeforeLoss` needs the session's scans to be the newest of the queue
(`SessionOK`) and the numbers of scans to grow (`IdsOK`).

*Export.* `CompleteScansAreRead` and `ReadAsDelivered` use of the addon only that what
is on disk is `Stored`. No condition of `exportfmt` refuses such a scan when the
client knew what was asked for, and decoding undoes the dictionary.

*Parser.* `Parser` is recursive, so its equations have to be proved before they can be
used (`ParserParses`): every call asks for a later token only, the definition is therefore
determined from the last token back to the first (`BackwardInduction`), and an error is
position 0, which nothing leaves. A document goes from variable to variable in the same
way (`DocumentParses`).

A file that is cut off: `Depths` counts the open tables behind each token. A value that
is parsed leaves as many open as there were, and the rest of a table one less (`Closes`),
so a file that ends with a table open leads to an error (`UnclosedIsRefused`). The brackets of what the game writes match (`Balanced`) and do so
nowhere before the last one (`Nested`), so each beginning of it has a table open
(`CutIsTorn`, `TornIsRefused`). It is enough that the remnant of the last token is no
bracket (`RemnantsOf`).

A file that is whole: a text spells a value when the parser, wherever it meets the text,
returns that value and the position behind it (`Spells`). The entries of a table are read
from the last to the first (`TableSpells`), which gives lists, records, scans and the
database one after the other, and `Decode` gets from them the scans written.

Both hold for any scans. For `FileReadWholeOrNot` it remains that what the addon leaves
has one of the `Shapes`: each stored scan has as many rows as a delivery (`ShapesInv`) and
no more items than rows, since its items are first rows of different keys (`FewerItems`).

**Model-checked only.** Liveness throughout (`SavedScanSettles`, `ReadyRuns`,
`SetupCompletes`, `PromotedUpdateArrives`), which the prover does not handle under
fairness, and the four findings, which are counterexamples. Every other property of a
passing run is a theorem.

## Findings

Each is a run that ends in a counterexample.

1. `WatchAgentQueued`, `HealthyMeansQueued`. The watcher remembers a file's
   signature (agent.go:90) before it queues the scans (agent.go:112). When Queue
   cannot write `uploads.json`, or `Records` cannot be read in the first cycle, the
   next cycle skips the unchanged file and reports that it recovered. The archived
   scans stay unqueued until the file changes or the watcher is restarted, whose
   first cycle queues everything in the archive.
2. `AppSetup`, `SetupCompletes`. The setup monitor remembers the fingerprint of
   the SavedVariables files (app.go:843) before the refresh it stands for
   (app.go:845). After one failed inspection or save it never looks at the same
   files again, although companion/README.md:42 has incomplete setup rechecked
   every three seconds.
3. `UpdaterRollback`, `InstallsDeferred`. When a channel is pointed back
   (docs/releasing.md:131) to a release the user had deferred, the check shows that
   one as deferred and keeps the path of the newer, withdrawn installer, and
   "deferred" may be installed.
4. `AppRequeue`, `SameTokenLeavesNoneRefused`. A new token is in use
   (app.go:495-503) before the configuration is saved (app.go:513) and the refused
   scans are requeued (app.go:517). After a failed save, or an exit in between, they
   stay refused, although companion/README.md:55 has them requeued; setting the
   same token again goes past the reset, as it is no longer a replacement.

## Observations

Seen while modelling, with no run of their own: the code is as the model has it,
and a reader can compare the two places.

- HTTP 425 is retryable by contracts/upload-api/v1/responses.md:22 and is not
  in the client's list (upload.go:610): such a scan is refused for good.
- A refresh can select another SavedVariables file; the running watcher goes on
  with the path it was started with (app.go:350, 622, 764-773) until something
  restarts it.
- `config.json` is rewritten in place (config.go:134), unlike the other files.
  After a torn write the next start has the defaults and refuses every change.
- A deferral is checked, saved and shown in three critical sections
  (updater.go:220-236): a mandatory release announced in between is shown as
  deferred.
- docs/updater-architecture.md:61 has the watcher stopped before the installer
  starts; the code launches it first (updater.go:263-268).
- If Sparkle refuses the feed of a new channel (updater.go:199-201), the status
  stays "checking" with no check under way, which keeps the window's check button
  disabled (view-model.mjs:42). The ticker's next check ends it.
- If Sparkle does not start (updater.go:88-92) there is no ticker. A check by
  hand then downloads a release and shows "ready", but installing it always fails
  for want of a platform updater (updater.go:250).
- `Compare` (version.go:84-89) ignores the error of ParseUint: two different
  numeric pre-release identifiers beyond 64 bits both become the largest number,
  and each version then compares as newer than the other. The runs have no such
  version (`MaxUint` is their largest number).
- The addon stores a listing without an item id or a stack as 0 (Capture.lua:69),
  and a scan begun while zone, faction or character is unknown as "". The
  companion refuses both (export.go:187-213, 498, 569-574) and with them the
  whole file (export.go:127-130), until the queue is cleared or has dropped the
  scan. `CompleteScansLoad` has these cases as its exception.
- The addon measures a scan by debugprofilestop (Capture.lua:201), a clock that any
  addon sets to zero with debugprofilestart. A scan during which that happens has a
  negative duration, which the companion refuses (export.go:175) with the whole
  file, as above. `CompleteScansLoad` has this as its exception too.
- SetInstallationToken and RemoveInstallationToken change the token's prefix in
  memory before they save (app.go:504-513). After a failed save the prefix on disk is
  that of the former token, until another save; a start computes it anew
  only when there is a token (app.go:274-276).
- An item takes its name from the first listing with its link (Capture.lua:104),
  even when the client did not know the name of that one yet.

## What is not modelled

- Of the Lua parser, the escapes in strings and the characters of words. In
  `WatchAgent` the effect of parser and decoder, a file that loads or fails whole, is
  `readable`; `FileReadWholeOrNot` is what justifies it. Load opens the file once for
  each of its two variables (load.go:21, 25); `SavedFile` has one reading, since a
  file that changes in between has a later time than the signature the watcher
  remembers and is read again.
- Of the export format: column names, versions, source and truncated, which the addon
  writes as constants; the region, which it has checked (Capture.lua:299); the columns
  that are copied like the stack; and the realm, times and columns of money, for which
  the game is trusted: that it knows its realm, that its server's clock does not go back
  during a scan, and that prices are not negative.
- Of the settings, the folder of the game and the prefix of the token (see the
  observations), which no start or stop of the watcher depends on.
- A data directory that cannot be found: no watcher ever starts then
  (app.go:632). `AppLifecycle` begins where it was found.
- The fingerprint of the files is a count of changes; a change that restores all
  sizes and times is not one.
- A change of channel leaves a goroutine behind for its check. Each has a name from
  `Spawned`, and the call waits for a free one: a bound of the run, which has one.
  The theorems hold for any set of names.
- Signatures, XML, the text of a version and the length and host checks of a
  download: what they refuse is a failure to fetch or download in `Updater`.
- Checksums, gzip and canonical JSON: a scan is its checksum.
- The migration of former configuration and data directories (config.go), the relaunch
  marker, start at login, rendering, texts and events, which no other part
  depends on.
- Of the activity overview, times and what depends on them: the order of recent
  scans, the latest ones, and the limit of the list.
- The token's format, and the walk over the file system in discovery: their
  results are inputs of `AppLifecycle`.
- The registration of the addon with Auctionator and its commands other than
  clear.

## Plan

Done, in this order, by how much depends on it: the upload queue with its ledger
and proofs; the watcher over it; the application; the updater with its feed; the
addon, and the decoding of what it stores; the parser and the file it reads; the
abstract pipeline that the watcher implements; the overview shown.

All safety properties and all refinements the runs check are proved.

Next:

1. An abstract specification of the updater (a release is offered, staged, installed)
   and that `Updater` implements it.
2. The migration of former directories, against the next start; the order of
   candidates that discovery returns.
