# A verification of GO_V2rayCollector_V2 in TLA+

The collector fetches pages of Telegram channels and subscription sources,
extracts proxy configs from them, keeps the configs and the newly discovered
channels and sources in JSON files, and publishes snapshots of what it has. It
is a Go program; the commands `collect`, `scan-channels`, `check-sources`,
`test-configs`, `web`, `update`, `compare` and `upload-cdn` of
`src/cmd/v2collector/main.go` each call one package of `src/internal`.

This directory holds TLA+ modules of its stateful parts, the TLC configurations
that check them, and proofs that TLAPS checks. Paths below are relative to `src/`.

## 1. Inventory

| Part | State | Operations | What is hard, and what makes it correct |
|---|---|---|---|
| Worker pool, `internal/concurrency` | buffered channel, `stopped`, `stopChan`, wait group | `Start`, `Submit`, `SubmitWithContext`, `Wait`, `Stop`; `BatchProcessor` on top | selects with two ready cases, callers racing with `Stop`; nothing runs twice, what was taken is finished, `Stop` returns |
| Collection run, `internal/app` | two result slices, the stores, error variables | `Collect`: load, rollover, fetch channels, discover, fetch sources, validate candidates, save, publish, report | fetches append while the run reads; every step can fail or crash after earlier ones have written files |
| Candidates, `internal/state/candidates.go` | map of candidates, `candidates.json` | `Observe`, `Eligible(All)`, `Result`, `Prune`, `Save` | promotion needs independent successes over many runs; workers write the map without a lock |
| Config store, `internal/state/store.go` | map of entries with the last time of each observation, the current day | `Open`, `Upsert`, `Prune`, `SetCurrentDay`, `Save` | later runs overwrite the times that the archive of a day is made from |
| Snapshots, `internal/output` | directories `output/temporary`, `archive/all`, `archive/daily/<day>` and their `.next` | `Publish`, `PublishDaily`, `PublishRolling`, `PruneDaily` | replaced by remove and rename; windows and cutoffs off by one; a day must be archived exactly once and stay |
| Repository files, `internal/repository` | `channels.csv`, `sources.json`, `collector.json` | load, `AddChannel`, `AddSource` | a promoted candidate must end up in them |
| Fetch client, `internal/fetch` | token bucket | `Get` with retries, `Limiter.Wait`, `Close` | retry against cancellation; waiting on a closed limiter |
| Providers and parser | none | one request and one parse | text processing |
| Health, `internal/health` | record per channel and source, `health.json` | `CheckChannels`, `CheckSources`, revive | a dormant target is never checked again, not even by the revival; a cancelled scan saves nothing; the record must tell what saved scans saw |
| Updater, `internal/updater` | state per subscription, ticker | `Start`, `Stop`, check, update on demand | mutex across network calls, state saved without it, hash stored before the content, flags that outlive their cycle |
| Cache, `internal/cache` | map with expiry, file | `Get`, `Set`, `Delete`, `Clear`, `Cleanup`, save and load, the loads of `CachedFetcher` and `ContextCache` | `Get` writes an entry back after releasing the lock, saves share a temporary file; no command uses the package |
| Tester and watcher, `internal/tester` | semaphore, results; ticker, last report, files of reports | `TestConfigs`, `GenerateReport`, `Start`, `Stop`, the commands that test and save | cancelled tests are reported like complete ones, results are kept per name of a site, `latest` is a link once and a copy elsewhere |
| Proxy protocols, `internal/proxy` | a connection, its deadline; counters and buffers of a tunnel | links and handshakes of HTTP, SOCKS, Trojan, VLESS, VMess, Shadowsocks, WebSocket; `Read` and `Write` of each layer | `withContextIO` against a late answer; cut reads and writes; pongs between the two writes of a frame |
| Web server, `internal/web` | cache of statistics | HTTP handlers, `Start`, `Stop` | handlers share a map without a lock; the cache never expires; pages of a list that changes |
| Log writer, `internal/logging` | open file, its size | `Write`, rotation, `Close` | file names with a resolution of a second, failing rotations, the files of earlier processes |
| Comparison, `internal/compare` | none but the files of reports | `CompareReports`, `CompareLatest`, `CompareAll`, trend | the numbers must add up over many reports |
| CDN upload, notifications, reports, errors, commands | none, or only the files they are given | one pass | ordinary sequential code |

How they interact: `main` calls `Collect` with a context that a signal cancels.
`Collect` owns everything else of a run. It gives functions to four worker pools,
one after the other (channels, sources, channel candidates, source candidates);
these functions call the providers, which take a token from a limiter and use the
fetch client. Their results come back through slices under a mutex (fetches) or
are applied by the workers themselves (candidates). Runs talk to each other
through files only: `configs.json` and `candidates.json`, replaced by a rename,
`channels.csv` and `sources.json`, and the directories of the snapshots. The
other packages do not share state with a run, except for these files.

The hazards, each at its line and with the properties that cover it, are in
`PROJECT.json`.

## 2. Modules

| Module | Models | Relation |
|---|---|---|
| `JobService` | what a pool promises: functions are accepted, begun in that order and at most once, and finished; a service that has closed runs nothing and begins nothing | abstract specification |
| `WorkerPool` | `internal/concurrency/worker_pool.go` | implements `JobService` |
| `WorkerPoolProofs` | | theorems of `WorkerPool` |
| `FetchPhase` | the two fetch phases of `Collect` | EXTENDS `WorkerPool`, whose actions its own are made of |
| `FetchPhaseProofs` | | theorems of `FetchPhase`, from those of `WorkerPool` |
| `CandidateStore` | the operations on one candidate, as operators | used by `Promotion` |
| `CandidateRegister` | what the runs promise of the candidates: each is a transaction, in which a candidate gains at most one success; it is listed only with its last one, and recorded as promoted only when listed | abstract specification |
| `Promotion` | `validateCandidates` and the saving of the candidates, over many runs | EXTENDS `CandidateStore`; implements `CandidateRegister` |
| `PromotionProofs` | | theorems of `Promotion` |
| `DayArchive` | what the runs promise of the archive: a day is collected while it is today, archived with all that was seen on it before another is collected, and final from then on until the retention lets it go | abstract specification |
| `DailyArchive` | store, rollover and publishing, over many runs | stands alone: no candidate matters to it; implements `DayArchive` |
| `ArchiveProofs` | | theorems of `DailyArchive` |
| `FetchClient` | `Get` of `internal/fetch/client.go` and the limiter | stands alone; used by `HealthScan` |
| `RecordBook` | what the scans promise of the records: each is a transaction, and a record goes from check to check until its target is dormant | abstract specification |
| `HealthScan` | `internal/health`: the scans of channels and sources | EXTENDS `FetchClient`, whose steps a check is made of; implements `RecordBook` |
| `HealthScanProofs` | | theorems of `FetchClient` and, from them, of `HealthScan` |
| `Updater` | `internal/updater` | stands alone |
| `UpdaterProofs` | | theorems of `Updater` |
| `ProxyDial` | the dialers of `internal/proxy`: links, handshakes, `withContextIO` | |
| `OrderedStream` | what the reader of a tunnel may rely on: units in order, none missing before the stream is damaged, none made up before it is garbled | abstract specification |
| `ProxyStream` | the tunnels that they return | EXTENDS `ProxyDial`; implements `OrderedStream` |
| `ProxyProofs` | | theorems of `ProxyStream` |
| `ConfigTester` | `internal/tester/config.go` | |
| `TestReports` | who calls the tester and what becomes of its reports: watcher, commands, files | EXTENDS `ConfigTester` |
| `Cache` | `internal/cache` | stands alone |
| `RotatingLog` | `RotatingFileWriter` of `internal/logging` | stands alone |
| `Dashboard` | statistics and pages of `internal/web`, beside a collector that publishes | stands alone |
| `Comparison` | `internal/compare` | stands alone |
| `ServicesProofs` | | theorems of `Cache`, `TestReports`, `RotatingLog`, `Dashboard` and `Comparison` |
| `MCServices` | `ConfigTester` to `Comparison` above, one per behaviour (`subject`) | EXTENDS them for one run |
| `MCStores` | `Promotion` or `DailyArchive`, one per behaviour (`subject`) | EXTENDS both for one run |
| `MCNetwork` | `FetchPhase`, `FetchClient` or `ProxyStream`, one per behaviour (`subject`) | EXTENDS them for one run |
| `MCUpdaterCycles` | a history of the update cycles | EXTENDS `MCUpdater` for one violation |
| `MCDashboard` | the age of the statistics that are served | EXTENDS `Dashboard` for one violation |
| `MCPromotion`, `MCHealthScan`, `MCUpdater` | symmetry and function-valued constants for TLC | |

### WorkerPool

The channel `jobs` is two cursors: the n-th function sent is ticket n, tickets
`recv+1..sent` are in the buffer. A goroutine is a value of `pc` (a caller) or
`worker`; a `select` is a disjunction of actions, so when both cases are ready
either may be taken, as in Go. `Enqueue`, `Refuse` and `SendOnClosed` are the
ways the `select` of `Submit` can go; the last ends the process. `stopped` stands
for both the flag and the closing of `stopChan`, which change in one critical
section. `Stop` has two steps, before and after `wg.Wait`. The branch of the
worker for a closed `jobs` channel (lines 109-111) has no action: `jobs` is closed
only after every worker has left and no worker starts later.

### FetchPhase

The main goroutine is the only client of the pool; ticket k is the k-th fetch and
the ticket after the last is the sentinel of `Wait`. `append` is split in two
(`AppendLength`, `AppendElement`) because the range over `channelResults` takes no
lock: the slice has the capacity for all results, so append stores the new length
and then the element. The range reads the length once and then, for each slot, the
item, a blank or a part of it (`Readings`). `RestOfCollect` stands for everything
after the phase, which ends in the deferred `Stop`, by whatever return.

### CandidateStore and Promotion

A candidate is a record of its status, first sighting, last counted success and
number of successes; `counted`, a history field, keeps the times that were
counted. `Promotion` has one candidate map in memory and one on disk. `Select`
starts a pool, `Take`, `Check` and `Add` are the steps of a worker, `WaitReturns`
happens when no job is queued and a worker is free, which is what
`WaitLeavesFewerThanWorkers` of the pool allows, and the checks still under way
go on. `Crash` may happen at any step and takes the memory with it. The two
kinds of candidates have their own pools and are validated one after the other.
Writing the shared map from two workers makes the Go runtime stop the process
when it notices; that is a `Crash`. When it does not, the writes are to different
existing keys.

Seen from its register (`Register`: the record of a candidate is `Entry` of what is on
disk, with its counted times in place of the number and the last of its successes), a run
is a transaction: the saving of the memory is the `Commit` of `CandidateRegister`, a
failing save, a failing run and a `Crash` are its `Abort`, and what `Add` does to the
lists is `List`. Observing, checking and waiting are invisible. `Commit` and `List` say
from the saved record and the time alone what a run may do, however many workers it had.
A listing that failed after its error was read is in `unlisted`, the one way in which a
record may tell of a promotion that is in no list.

### DailyArchive

Time is a number of units, `DayLength` of them a day; a run uses the time it
started at throughout, as `Collect` uses `now`. `WriteNext`, `RemoveOld` and
`RenameNext` are the steps of `Publish`, each of which may fail or be the last of
the process; a directory whose removal was interrupted is `Partial`. A snapshot
is the set of its lines. `CollectAndSave` upserts what a run saw, prunes, sets the
day and saves. History: `observed` (what saved runs saw and when), `ranOn`,
`published`.

Seen as an archive of days (`Archive`), only whole snapshots count: a day that is over
is archived by `RenameNext` (`Fill`), may be taken away by `RemoveOld` when an earlier
run got that far but did not save (`Remove`), and goes with `PruneOne`. `Collect` of
`DayArchive`, the one step that moves the store to another day, has the condition that
the order of `Collect` in the code is for.

### FetchClient

A goroutine is in `Get` at one of four places: waiting for a token, before a
request, in it, or in the delay between two. `Answers` are the ends a request can
have, as far as the loop tells them apart: a page, HTTP 404, what is not worth a
retry (`refused`: other 4xx, a body that is too long, an invalid URL), what is
(`busy`: 429, 5xx, 3xx; `broken`: transport errors and timeouts) and the error of a
context that is done. Two selects may have both cases ready: the token against the
end of the context, and the delay against it. The ticker's channel holds one tick;
`Close` stops the ticker and leaves a tick that is there. `Get` takes one token,
then sends up to `Retries + 1` requests: `RequestsPerToken` is the rate that the
limiter gives, not one request per token.

### HealthScan

The records of `health.json` as the file has them (`file`) and as a process has
them (`store`); one process runs at a time, as the workflows do. `Begin` loads the
lists and the records, the loop takes the listed targets in any order (the order of
a file that users edit), and each check is a `Get` of `FetchClient` by the goroutine
`Scan`, whose result `Classified` turns into a status as `recordError` and
`classify` do. `Cancelled` and `Crash` end the process without a save; a failing
`Save` leaves the file as a crash does, because it writes a second file first. The
history `saved` keeps what saved scans saw of each target, and the properties
compare the file with it. `SkipDormant` comes before the test for the revival in
`CheckChannels`, so `DormantForEver` holds of `revive-channels` too. The scans of a
dormant target still renew its `LastCheckedAt`.

Seen from its records (`Book`: the book is the file, a scan is running while there is a
process), a scan has a beginning and an end: `Save` is the `Commit` of `RecordBook`,
`Cancelled` and `Crash` its `Abort`, and the requests, retries, skips and updates between
are invisible. `Commit` says what may become of a record, from that record and the time
alone, and so that nothing which the scan went through can make it do more.

### Updater

Three goroutines: `main` (`Start`, `Stop`), the loop, and a caller of the other
methods (`api`). `updateSubscription` holds `u.mu` from before the fetch to the end,
so its steps are those that others can see: the attempts, the new state, the new
content. Waiting for the mutex is not a step of its own. `saveState` takes no lock;
it is split into opening and truncating the temporary file, writing it, and the
rename, so that two saves (the loop's and one of `AddSubscription`) may overlap on
one file. A file descriptor follows the file it was opened on when that is renamed
(`Moved`). `HashOf` is any function of the contents, since `hashContent` adds up
bytes and two contents may agree. `lost` is the history of what `ContentFollowsHash`
must except: a content whose save failed, which no later cycle repeats, a content that
was overwritten, and a hash that a process did not save. `FileOf` is any function of the
URLs, since `sanitizeFilename` replaces characters and cuts the name, and two URLs may
get one file. The numbers of configs are left out; the assignment to
`LastConfigs` at line 340 changes a local copy after the state was stored, so it is
never stored, and nothing but notifications reads it. A `Get` that begins after the
end of the context is allowed to end in any way, as one under way is. `StopAgain` is
a second `Stop` by another owner: it closes a closed channel, which ends the process
wherever its goroutines are.

### ProxyDial and ProxyStream

A link is a record of what the constructors tell apart, `Script` the list of steps
of the dialer it gets; a good reply may put further steps in front (`Further`: SOCKS
authentication, a domain behind a reply, more header lines). A step of `Guarded`
runs through `withContextIO`: `BeginIO` starts the helper goroutine, which is
answered, fails, or is struck by a deadline; `select` takes its result or
`ctx.Done()`, also when both are there, and then waits for it (`Drained`). The
server may never answer, so only `Dialing` is fair. `Fail` panics in the upgrade of
a WebSocket, because `conn` has been overwritten with nil; `WriteXAEAD` panics on a
nonce that is too short.

The tunnel carries numbered units. Each layer makes pieces of them, with the nonce
that seals each; WebSocket frames come in two parts, whole or in two fragments with a
ping between. `Read` and `Write` proceed piece by piece and part by part, a deadline
may cut either between any two (`CutRead`, `CutWrite`), and the caller may go on
afterwards: what a reader remembers of a cut `Read` (`headerRead`, `once`, `count`,
`pending`, `fragments`) and what it forgets (the frame's head) is the state of the
module. `wire` records who wrote which part, for the frames that a pong tears.

`Stream` maps this to `OrderedStream`: what the server sent and what the reader got are
the stream, which is whole until a `Read` was cut or the answer to CONNECT brought
payload with it. After that a sealed or unframed tunnel has gaps, and plain units in
frames are garbled.

### ConfigTester and TestReports

A config's goroutine goes from the semaphore through the sites, with the retries and
backoffs of each; the context may end anywhere. Two of the configured sites have the
same name, as two of `DefaultTargetSites` do. `TestReports` adds the seven callers: each
has a script of saving steps (`Script`), and a step is a file written under the time
of the test, a copy to `latest`, or a symbolic link that later copies go through. The
watcher, `TestAndWatchSubscription` and `SaveSubscriptionResults` write to one
directory (`Sharing`), one process after the other (`NextProcess`): a link that the
second has made is there for all of them. It leads nowhere if the directory was given
by a relative path, which a link takes to be below its own directory (`Nowhere`). A
file is known by the test whose report it holds, and `told` is the history of the last
report that was written to `latest`. A watcher tests at once and at each
tick; `Begin` may come before `Quit` although `StopChan` is closed, as the `select`
may choose. A save may fail (`SaveFails`) and the process may die in the middle of a
file (`Torn`), except in JSON reports, which are renamed into place.

### Cache

`Get` is two steps: the look under the read lock (`GetHit`), and the entry stored
again under the write lock (`Touch`), with any call between them. A save holds the
read lock from begin to end, so it excludes writers and not other saves; it
truncates the temporary file, writes it or fails to (`WriteFails`), and renames it, and a
descriptor follows its file through a rename (`fd`). Times are in half seconds, of which
the file keeps whole seconds. History: `due` (when each value was to expire), `crowd`
(several saves at once) and `spoiled` (one of those ended before it had written), from
when `SavedFileIsWhole` gives way until a save that runs alone.

### RotatingLog, Dashboard, Comparison

A log file is known by the second in its name, the lines in it and its `size`; `opened`
counts how often it was opened, which is what bounds its size. `Write` is one step under
the lock. It may fail in the middle of a line (`WriteShort`): those bytes stay in the file
(`torn`) and the writer does not count them. A rotation may fail, and a new process goes on
with the files of the last.

`Dashboard` has the requests for statistics, whose four accesses to the map take no
lock (`Racing`: the Go runtime may end the program), and a client that pages through
a list that is read and sorted again for every page while the collector publishes. The
sorted list is the configs by how many come before each (`Rank`).

`Comparison` has no concurrency: its state is the directory of reports, and the
functions of the package are operators on it.

## 3. Runs

All passing runs explore every reachable state of their instance.

| Run | Instance | Shows |
|---|---|---|
| `pool_safety` | 2 clients, a pool asked for 0 workers (it takes 1, with a buffer of 2), `Start` up to twice, 4 calls | `WaitLeavesFewerThanWorkers`, `StopFinishesBegun`, `NilMeansRanOrStopped`, that the pool is a `JobService`, and that `Stop` and (unless stopped) `Wait` return |
| `pool_submit_never_panics` | 1 client, 2 workers | the comment of `Submit` is not what it does after `Stop` (violation) |
| `stores` | candidates: 1 channel with 2 workers, 1 source with 1, 2 successes 2 apart, expiry 2, time to 8 | `PromotionIsEarned`, and that the runs are transactions on the candidates (`ImplementsCandidateRegister`) |
| | archive: 2 configs (one VPN), 1 origin, 3 days of 2 units, retentions of 2 days | `DaysAreArchived`, `CompleteRunPublishes`, `NothingIsLeftBehind`, and that the runs keep a `DayArchive` |
| `promotion_errors_are_seen` | `MCPromotion` with 1 success | a listing may fail after its error was read (violation) |
| `network` | fetches: 6, 2 workers, buffer 4 | `LateResultsAreFew` (at most one result is missed or torn), `NoFetchOutlivesCollect`, `FetchesEnd` |
| | client: 2 goroutines, 2 retries, 3 calls | `LastAnswerReturned`, `GetReturns` |
| | proxies: every link, 2 units each way, one cut | `HandshakeEndsClean`, `ContextEndsDial`, and that a tunnel is an `OrderedStream` |
| `health` | 2 channels and 1 source, 1 retry, dormant after 1, time to 4, symmetry of channels | `RecordsTellWhatWasSaved`, `DormancyIsEarned`, `OneResultIsCut`, and that the scans are transactions (`ImplementsRecordBook`) |
| `updater` | 2 URLs with one file, 3 contents with 2 hashes, 1 retry, 2 processes with a tick or a call, symmetry of URLs | `ContentFollowsHash`, `TornByOverlapOnly`, `StopKeepsStates` |
| `updater_updated_means_last_cycle` | 1 URL, 1 tick, 1 process | the comment of `GetUpdatedSubscriptions` is not what it does (violation) |
| `services` | cache: 1 key, 2 goroutines, lifetime 1, 2 values, time to 2 | `NothingOutlivesItsTTL`, `SavedFileIsWhole` |
| | log: 2 files of size 2, lines of 1 and 3, 6 writes or restarts, 4 seconds | `NewestLinesAreKept`, `LogFilesAreShort` |
| | web: 3 configs in pages of 2, 2 requests, 3 publications | `PagesShowTheList` |
| | comparison: 2 links, 3 reports | `TrendAddsUp` |
| | tester: 2 configs, 2 sites of one name, one with a bad URL, semaphore of 1, 1 retry, 2 tests in 2 seconds, every caller and, where they share a directory, every two of them in turn | `CompleteUnlessCancelled`, `ReportAddsUp`, `SavedReportsStay`, `LatestTellsTheLast`, `StopEnds` |
| `proxy_frames_are_whole` | `ProxyStream` with 1 unit | a pong comes between the two writes of a frame (violation) |
| `reports_link_to_newest` | the tester of `services` | the link `latest` goes on to point to the first report (violation) |
| `dashboard_stats_expire` | 2 requests, 6 minutes | the statistics outlive the five minutes of `cacheTTL` (violation) |

Bounds. The pool's four calls are more than its buffer and its worker's hand can
hold: one caller blocks in `Submit` while the other stops the pool; a second `Start`
gives the two workers that a `Wait` needs to leave one running. Six
fetches are more than the four in the buffer, so that the submission loop blocks
too. Times: a candidate can be forgotten from time 7 on (three times the expiry
after time 1), and the clock goes to 8. Two days of retention with three days make
the first leave it. A target that succeeded at time 1 may be dormant from time 3 on
and be scanned once more at 4. One retry makes a first, a last and no middle attempt;
the client of `network` has a middle one. One tick or call after the first cycle of a process
is enough for a second look at each subscription, for an overlap with `Stop` or with
the first cycle, and for a start from saved states. Two units of payload and one cut
make a second `Read` after a cut and a second `Write`, without its header, after the
first. A line of 3 is longer than a log file of 2, and six writes fill two files and
drop a third. Three configs make two pages; three publications let the list change
before, between and after them. Three reports make two neighbouring pairs. One
second more than the first lets two tests have the same name or not. Each bound is a constant of its
module (`MaxCalls`, `MaxStarts`, `MaxClock`, `MaxTime`, `MaxGets`, `MaxEvents`,
`MaxUnits`, `MaxFails`, `MaxSets`, `MaxLines`, `LastSecond`, `MaxPublish`, `MaxReports`,
`MaxTests`) and a guard.

Deadlock is not checked where the system may stop: the bounds on calls and time
end every behaviour, and `Wait` on a stopped pool blocks for ever (line 130 of
`worker_pool.go`), which is why `WaitReturnsUnlessStopped` has its proviso.

Fairness. `FairSpec` and `FetchFairSpec` assume weak fairness of every goroutine:
the Go scheduler runs what can run, and the functions given to the pool return,
because the fetch client bounds its requests, retries and delays. No caller is
assumed to make a call, and no context to be cancelled. The submissions after a
`Stop` are finitely many here; in the code too, each of the pool's owners submits
from one loop. `ClientFairSpec` assumes weak fairness of every goroutine in `Get`
(requests end because the HTTP client has a timeout, delays because they are finite)
and of the ticker of an open limiter. It assumes no fairness in the choice between
goroutines that wait for the same tick: the calls are bounded, so the others run out.
`TunnelSpec` assumes weak fairness of `Dialing`: of the caller, of deadlines, and of
`crypto/tls`, which obeys its context, and not of the server. For `StopEnds` the
goroutines of the tester are fair (`Goroutine`): a request ends by the timeout of its
client, and a file is written or fails; ticks and calls need not come. The other
services have no liveness to show, so nothing is assumed of them. `NetworkSpec` states the
fairness of `FetchFairSpec`, `ClientFairSpec` and `TunnelSpec` again, for the part that a
behaviour is about (`FetchesEnd` is `CollectEnds` where that is the phase of fetches).

Mutants. Each property of a passing run is paired in `PROJECT.json` with a
changed definition (marked "Mutant" in the modules) under which it fails.

### What the violations mean

* `Wait` of the pool, whose comment says that it "waits for all submitted jobs to
  complete", may return with up to `workers - 1` functions still running. So
  `validateCandidates` can read `candidateErr` before the last `AddChannel` has failed. The candidate is saved as promoted, is never
  checked again and is in no list. For the same reason `Collect` ranges over a slice that
  is being appended to; `LateResultsAreFew` bounds the loss to fewer results than
  workers (4 of the channels, 9 of the sources). The remaining results are fetched,
  appended, and never processed.
* `GetUpdatedSubscriptions` returns a subscription that changed in an earlier cycle
  and could not be fetched since, because a failed fetch keeps the flag.
* After `Stop` has returned, `Submit` may panic. Nothing in the repository
  submits after `Stop`.
* A pong may come between the two writes of a frame by the goroutine that writes, and the
  server then takes the pong for the frame's body.
* `TestAndWatchSubscription` makes `latest` a link the first time. A later test cannot
  make it again and copies its report through that link, over the report of the first; so
  do the watcher and `SaveSubscriptionResults`. `latest` shows the last report all the same
  (`LatestTellsTheLast`), under the name of the first.
* The web server serves the first statistics it counted for as long as it runs; its
  `cacheTTL` is never read.

Seen in the models that pass, and worth knowing:

* `COMMANDS.md` says of `scan-channels` that it "Tests each Telegram channel" (line
  90), while dormant ones are skipped for ever; the record of the target that is being
  checked when a scan is cancelled is saved as a failure if it was the last.
* A content that the updater could not write is not fetched into its file again
  before it changes, and two URLs that differ in `/`, `?`, `=`, `&`, `#` or `_` only, or
  behind the hundredth byte, overwrite each other's. A second `Stop` panics.
* A WebSocket upgrade that is rejected panics instead of failing (`trojan.go:80`,
  `vless.go:117`, `vmess.go:168`), and so does the first `Write` with an xchacha20
  cipher (`shadowsocks.go:369`).
* A `Read` that was cut
  loses its place: sealed layers then fail for ever, and an unsealed one in frames may
  return what is not payload. What follows the reply to CONNECT at once is dropped.
* A SOCKS reply's bound address is read past `withContextIO`, so that a dial may
  outlive its context there (`socks.go:152`).
* `CompareLatest` tells what `CompareAll` tells of the same two reports, backwards.
* A cancelled test saves a report that nothing distinguishes from a complete one.
* Of several saves of the cache at once, one may put into place what another failed to
  write, and the saved file then stays cut until the next save.
* A `Write` to the log that fails in the middle of a line leaves bytes that are not counted.
* A deleted or replaced value of the cache can come back (`Get`, `LoadFromDisk`), but
  never beyond the lifetime it was set with.

## 4. Proofs

`WorkerPoolProofs`, for every number of workers, clients, calls and starts:
`PoolInvariant` shows that `PoolInv` is inductive. `RunsOnce` alone is not: it needs
that done functions were received, that workers are spawned in blocks and that a
stopping client implies `stopped`. The step that is not obvious is `Wait`: the
functions still running when a sentinel has run are on other workers than one that
is past it, so they inject into a set smaller than the spawned workers; that is
why `PoolInv` says that for each finished ticket some spawned worker runs nothing
older. `PoolWait` turns the injection into the bound on cardinalities.
`PoolImplementsService` maps each action to a step of `JobService` or a stutter.

`FetchPhaseProofs`, for every number of fetches and workers: every step of the
phase is a step of the pool or leaves it alone (`FetchRunsThePool`), so `PoolInv`
holds of it. `FetchInv` adds what `Collect` knows of the pool at each of its steps
(`CollectIsOrdered`), that each slot belongs to one fetch and is full once that
fetch is past its append (`SlotsAreFilled`), and that the items the range has not
read and will not read whole are fewer than the workers (`RangeIsOrdered`). That
last part is established when the range begins, by the pool's bound on what a
`Wait` leaves unfinished, and only shrinks afterwards; it gives `FetchMissesFew`.
`FetchProcessesOnce` and `FetchOutlivesNothing` follow from the same invariant.

`PromotionProofs`, for every set of candidates, pool size and setting:
`PromotionInvariant` shows that `PromotionInv` is inductive. Its parts: the fields
of each record agree with the counted times (`RecordsAreSound`, from which
`PromotionEarned` follows), what each phase implies about the jobs
(`RunIsOrdered`), where the listing of each promoted candidate is
(`ListingIsKnown`, for `PromotionListed`), and that the memory agrees with the disk
on candidates whose status is final (`FinalAreKept`, for `PromotionFinal`). `PromotionIsTransactional`
maps every step to `CandidateRegister`. `RegisterInv` adds two parts for it: the fields by
which `Result` decides tell what the counted times would (`FieldsTell`), and so far the run
has treated each candidate as a transaction may (`RunIsOneStep`), with what is known of a
candidate that was only met, that waits for its check, or that is about to be listed. At
the save the second part is `Commit`; `ListingIsKnown` gives that what is promoted is
listed by then.

`HealthScanProofs`, for every number of goroutines and retries of the client: `ClientInv`
adds to the type what a goroutine knows where it is (no attempt was made while it waits
for a token; in a delay, attempts are left and the last answer can be retried) and, for
each limited goroutine, that the requests it may still send are paid for
(`Unsent`). `RequestsPerToken` alone is not inductive: it does not say how many
requests the `Get` under way still has. Then, for every list and every
`DormantAfterDays`: `HealthInv` contains `ClientInv` for the check under way. Its central
part, `TargetIsOrdered`, says of each target what the scan has made of its record (`Made`)
and why; since the store is that function of the file, a save replaces each record
by one that agrees with the history (lemma `SavedAgree`). `DormancyIsEarned` needs
the order of times (`TimeIsOrdered`: what was saved lies before a scan that has
begun). `HealthCut` rests on `LastAnswerReturned` of the client: a Get that reports
its context does so because the context is done. `HealthDormantForEver` and
`HealthCoversItsList` follow from the invariant at the step that saves, the only one
that changes the file. `HealthIsTransactional` maps every step to `RecordBook`: at the
save, `TargetIsOrdered` gives for each target the one check, or the fall into dormancy,
that leads from its record in the file to the one in the store (`MadeIsOneCheck`).

`ArchiveProofs`, for every set of configs and origins, every length of a day and both
retentions: `DaysAreArchived` compares an archive with what was ever observed on its
day, but the archive is made from entries that keep one time each. The invariant
therefore says how much the entries still tell (`Tells`: each observation is in an
entry, at its time or later, or was forgotten after its day and before the horizon)
and, with the order of times and days (`Clocked`), that an entry of the store's day
can only have moved to a later day after that day was published (`Flow`: a run that
finds the day of the store over publishes it, whole, before it collects). The
arithmetic of days and of the horizon is in lemmas (`DayUnique`, `BeforeHorizon`).
`Leftovers` tells whose `.next` directories may be left, for `NothingIsLeftBehind`, and
`Publishes` what the outputs hold between their publication and the end of the run.
`ArchiveIsFinal` (an archived day is never changed while it is retained) is a property
of steps, proved from the same invariant. `DaysAreKept` maps every step to `DayArchive`: what a run does to the
snapshot of the day that is over is `Remove` or `Fill`, with `DailyContent` for what it
writes, `PruneOne` is `Prune`, and `Flow` gives the condition of `Collect`.

`UpdaterProofs`, for all subscriptions, contents, hashes and numbers of retries, calls
and restarts: `Locking` says that the mutex makes updates exclude each other and that
what an update has fetched and not written is the content of the stored hash;
`Contented`, that the file of each subscription has the content of its hash, unless that is
being replaced or was lost, to a failed save or to another URL with the same file, for the states in memory while a process runs and for those on
disk while none does; from these follows `HashesTellContents`. `OneSaver` gives
`OneSaveNeverTears`: without an overlap of two saves the file is never torn, wherever the
process dies. `Stopping` gives `StopSavesAll`: without calls from elsewhere the loop
has left before the last save, so `Stop` returns with the states on disk.

`ServicesProofs` begins with what the prover lacks for data. The library's theorems of
induction take an operator and cannot be used, but that `<` on the naturals has no infinite
descent is a fact about sets: from it follow `LeastNumber`, induction over the parts of a
finite set (`FiniteInduction`, about a set of parts instead of a predicate), and the sums
of `SumFunction` over any finite domain (`SumCountsPairs`: a sum of cardinalities is the
cardinality of a set of pairs). Then:

* the cache, for every number of keys and goroutines: every copy of an entry, in the map, in
  a call or in a file, is in time (`Ages`), so `NothingLivesLonger`; a file that is not whole
  has a writer, or a crowd of saves has spoiled it, so `SavedIsWhole`: a save that is alone
  owns the temporary file from its beginning to its rename;
* the tester, for every list of configs and of sites: `Progress` ties the place of a config's
  goroutine to its result, so `TestsAreComplete`; `FilesInv` says which test's report a file may hold and where a
  link leads, which gives `ReportsStay` and `LatestIsTold`.
  `ReportsAddUp` counts each test made once per site: the tests of all results and the
  statistics of all names are sums over the same pairs of a config and a name;
* the log, for every size, number of files, length of lines and number of openings: `Keep`
  is what `NewestLinesAreKept` says, for any sequence of files, so that it can be carried
  through the opening, the writing and the removal one by one; `Dated` orders the files'
  seconds, without which a second opening might hit any of them; and `Fit` says of the
  last file how much of it the writer has counted and how much failed writes have left
  there, so `LogKeepsFilesShort`;
* the web pages, for every set of configs and size of a page: while nothing is published,
  the pages so far are the beginning of the list (`Unchanged`). While no config leaves, a
  config that was not seen again is on a page or its rank is not below the next offset
  (`NoneMissed`), because what is published can only raise that rank (`RanksRise`). So
  `DashPagesShowTheList`;
* the comparison, for every number of reports and configs: each config is in one line of a
  report (`IsReport`), so the numbers of a comparison are those of its lists
  (`LinesPerConfig`), and the sum over the neighbours telescopes. So `TrendsAddUp`.

`ProxyProofs`, for every number of units and cuts: each script connects, and
upgrades only in WebSocket routes (`ScriptsAreGood`, with lemmas on concatenation),
which replies preserve (`FurtherSteps`); `DialInv` ties the phase of `withContextIO` to
the helper and the deadline, and the tunnel leaves them alone, so `DialEndsClean`.

What the reader gets (`UnitsInOrder`) rests on `StreamInv`. All that a server sends is one
line of pieces, in which the n-th is known (`Nth`) and the unit u ends at a known place
(`EndOf`). While nothing was cut or lost the reader is in step (`InStep`): what it has used
is the beginning of that line, and what it will find, in `pending`, in the fragments, in
the frame it is in and in the inbox, read in this order, is the rest. After a cut only
weaker facts remain, of three kinds. A sealed layer counts its nonces up, and a piece opens
only with its own, so units come in order if they come (`SealedOrder`). An unframed layer
reads the inbox from its head, so what it reads is further on in the line (`RawOrder`).
Plain payload in frames has no such fact, and `OrderedStream` calls it garbled.
`TunnelIsAStream` maps each step to the stream: a unit is read in a step of `Read` that
appends to `got` (`Deliver`, or `Misread` when garbled), and the steps of the dialer, the
writer and the frames are invisible.

Several theorems state more than the runs check: the types (`PoolTypes`, `FetchTypes`,
`PromotionTypes`, `HealthTypes`, `UpdaterTypes`), `RunsOnce`, `NoneLostOnTheWay`,
`EachResultOnce`, `RequestsPerToken`, `PromotedIsListed`, `FinalStatusesStay`,
`ArchivedDaysStay`, `DormantForEver`, `ScanCoversItsList` and `DeliveredInOrder`.

The assumptions are those named in the modules: the number of workers asked for
is an integer, bounds are naturals, settings are what `LoadCollectorSettings`
accepts.

Every invariant, action property and refinement of the passing runs is proved. Only
model-checked: liveness (`StopReturns`, `WaitReturnsUnlessStopped`, `FetchesEnd`,
`GetReturns`, `StopEnds`, `ContextEndsDial`), since liveness under fairness is beyond the
prover.

## 5. Plan

Done, in this order: `WorkerPool`, `CandidateStore` and `Promotion`, `FetchPhase`,
`DailyArchive`, the proofs of the first four, `FetchClient` and `HealthScan` with their
proofs, `Updater`, `Cache`, `ConfigTester` and `TestReports`, `RotatingLog`, `Dashboard`,
`Comparison`, `ProxyDial` and `ProxyStream`, the proofs of the archive, the updater,
the cache, the tester and the dialers, of the log, the web pages, the reports and the trend,
and the refinements of `OrderedStream`, `RecordBook`, `CandidateRegister` and `DayArchive`.

What would come next: the CDN upload, whose providers are called one after the other with
the failures of each. It keeps no state that a later call reads, so there is little to
relate.

## 6. Not modelled

* `BatchProcessor` of `internal/concurrency`: nothing in the repository uses it.
* Parser, providers, domain types, errors, reports, notifications: text in, text out,
  with no state; a model would be as long as the code.
* CDN upload: a sequence of requests to external services that leaves a list of results.
* Byte codecs, key derivation and the ciphers (`internal/proxy`, and the vendored code):
  abstracted to which nonce opens which piece.
* The levels and formats of `Logger`; the handlers of the web server that read one
  file each; the web page; the workflows and scripts.
* Loading and normalising `channels.csv`, `sources.json` and `collector.json`; what
  `LoadCollectorSettings` accepts appears as assumptions.
* Notifications and counts of configs of the updater; site statistics and latencies of
  the comparison.
* Two processes that save test reports in one directory at a time: they follow each other.
* WebSocket frames that are too long, and those that close the connection (`ws.go:191`).
* The commands that only parse flags and call one package.
* Two collector processes at once: the workflows run one at a time.

`PROJECT.json` gives the reason for each part.
