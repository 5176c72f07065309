# A TLA+ model of mockzilla

mockzilla serves mock APIs: it reads OpenAPI specifications or plain files,
mounts each as a service on one HTTP router, and answers requests with
generated, cached, recorded ("replayed") or upstream responses. It can be
edited while it runs. The single-request behaviour is well covered by the
repository's tests. What tests hardly reach is what this project is about:
requests that meet in the same tables, reloads that run under traffic, lazily
started builds, rings and indexes that overflow while they are read, services
that claim one name, one path or one directory, goroutines that outlive the
work they were started for.

All paths below are relative to the repository. `PROJECT.json` maps every
definition that models code to its lines.

## 1. Inventory

| Part | State it keeps | Operations | Talks to |
|---|---|---|---|
| Request pipeline (`pkg/middleware`, chain built in `pkg/api/router.go` register) | none of its own; the service's tables `replay`, `cache`, `sticky-source` and its history; per request: context values, a response writer | validation, latency and simulated errors, replay read, replay write, cache read, upstream, cache write, handler | tables (`pkg/db`), upstream over HTTP, handler |
| Swappable handler (`internal/portable/handler.go`) | handler, build function, validator, `buildStarted`, `buildDone`, an RWMutex | `handleRequest`, `EnsureValidator`, `WaitForValidator`, `swap` | the reloads, the builder goroutine |
| Portable watcher (`internal/portable/watcher.go`) | pending set, one debounce timer | event loop, timer callback, `reloadService`, routing of a file to services | fsnotify, swappable handler |
| In-memory history (`pkg/db/memory_history.go`) | ring, write index, size, index by ID | `Set`, `GetByID`, `Recent`, `Clear` | pipeline, history API |
| In-memory tables (`pkg/db/memory_table.go`, `memory_storage.go`) | map of entries with expiry; map of tables | `Get` with lazy deletion, `Set`, `Delete`, `Data`, `Clear`, table look-up or creation | pipeline, replay API |
| Redis tables and history (`pkg/db/redis_*.go`) | keys in Redis: entries, an index list per service | the same, as Redis commands and pipelines | a Redis server |
| Storage opening (`pkg/db/storage.go`, `registry.go`) | driver registry | open, install, fall back to memory | drivers |
| Router and loader (`pkg/api/router.go`, `pkg/loader`) | services, databases, mounted prefixes | register, discover, `LoadAll` in parallel | chi, storage |
| Portable runner (`internal/portable/runner.go`, `resolve.go`, `config.go`, `pkg/pack`) | list of services, synthesized specs, handlers by name, directories to services | resolve arguments, pack and unpack a directory, register, route a file event to services, reload | swappable handler, router, fsnotify |
| Application watcher (`cmd/mockzilla`) | pending restart, timer, restart channel | events, code generation, rebuild, re-exec | fsnotify, `go build`, the main loop |
| Management API (`pkg/api/*.go`) | none | history and replay pages and their clearing, health, config | tables, services map |
| Integration harness (`internal/integrationtest`) | abort flags, failure count, channel of prepared batches, batch servers and binaries | pack specs into batches, prepare concurrently, test, stop | `go build`, child processes |
| Configuration (`pkg/config`) | parsed values | defaults, percentiles, status matcher, endpoint look-up | everything |
| Generation (`pkg/generator`, `pkg/factory`, `internal/replacer`, `internal/contexts`, `pkg/schema`, `pkg/typedef`) | none | build a value for a schema | handler |
| Tools (`pkg/lint`, `pkg/pack`, `internal/simplify`, `internal/overlay`, `internal/inspect`, `cmd/api`) | none | read files, write files | |

Interaction. A request enters the router, passes the service's chain and, in
portable mode, ends in the swappable handler, which answers under its read
lock. Every middleware reads or writes one of the service's tables through
`pkg/db`; a table access is the only point at which two requests meet. The
watcher's timer callback runs on a goroutine of its own, loads the file and
takes the handler's write lock to swap. The builder goroutine of a validator
takes the same lock to store its result and closes a channel that waiters
read. The history API reads the ring while requests append to it.

What is hard, and what each part owes:

- *Pipeline*: look-up and store are apart, with the whole chain between
  them. It owes: a true source tag, recordings that are first-hand, a
  recording that wins over the cache and the cache over the upstream, one
  history entry per answer made, a sticky marker that keeps the upstream quiet.
- *Swappable handler*: a lock-free claim (compare-and-swap), a channel and a
  lock that a swap resets together. It owes: one builder per channel, waiters
  that come back, a handler that never changes under a request, requests that
  never wait for a build, reloads that get their turn.
- *Watcher*: an edit can arrive in front of, during and behind the timer. It
  owes: the last good file ends up served.
- *History*: records enter in another order than they are created, expire
  while a page is read, and are evicted. It owes: the bounded newest-first log
  of its interface, an ID index that agrees with it, pages without holes.
- *Redis history*: the server carries out a pipeline command by command, it can
  break off anywhere and is sent again; keys run out. It owes: what is listed
  can be opened, and nothing young falls off the list before its turn.
- *Application watcher*: three goroutines build into one binary, each build ends
  in a restart that forgets the others' work, and what is built lies in watched
  directories. It owes: no edit is lost, the restarts end, a shutdown ends.
- *Registration*: a check and the act it allows are apart, on a tree without a
  lock, while other services register. It owes: serially, what the services map
  lists is what is mounted; whatever panics has a conflict behind it; a storage
  that is what the configuration asked for.
- *Portable runner*: three functions tell a service from a folder of services,
  one when it is served, two when it is packed; what an edited file belongs to
  is found by directory and by name. It owes: a package that serves what its
  directory serves, a root that is reached, a last version that is served.
- *Integration harness*: preparations that run on after a timeout, an abort seen
  by three goroutines at different times, panics. It owes: every result once,
  nothing left running, an end.

## 2. Plan

Order, most important first; all of it is done.

1. `SwappableHandler`: reload under traffic, lazy validator build.
2. `RequestPipeline`: the chain over shared tables, and the replay API's clear.
3. `HistoryLog`, `MemoryHistory`: abstract log and the ring that implements it.
4. `MemoryTable`: `Get` split at its two locks, lazy deletion, double-checked
   creation of a table.
5. `RedisHistory`: the pipeline command by command, cut short or repeated, the
   two-step `Clear`, the expiry of the index; against `HistoryLog`.
6. `Registration`: storage, services map, prefix check, mount and insertion as
   separate steps of a loop or of concurrent goroutines.
7. `Discovery`: directories to services, at run time and when packed.
8. `PortableServer`: `Registration` and `Discovery` composed with the watcher's
   routing of files to services.
9. `AppWatcher`: debounce, generation, rebuild under `restartMu`, restart
   channel, `stop`, exec.
10. `BatchPipeline`: packing, preparation, test loop and abort of the harness.

`MemoryHistory` and `RedisHistory` compose with `HistoryLog` by refinement,
`PortableServer` extends `Registration` and `Discovery`: its steps contain
theirs, so what is proved of them is proved of it.
`RequestPipeline` uses the tables' contract, so 4 justifies its one-step reads
and writes, and the single commands of the Redis table its constant `Lossy`.
`SwappableHandler` has the inside of one reload, which is two steps in
`PortableServer`.

The theorems of section 5 state every safety property that a run checks. What is
left to wish for is an abstract specification of a table (a map that forgets) that
`MemoryTable` implements, as `HistoryLog` is one of the histories.

## 3. What is modelled

### SwappableHandler

One service in portable mode. A specification is its version number, a handler
or a validator the version it was built from. `disk`, `events`, `pending`,
`timer`, `rpc` are the editor, fsnotify, the event loop and the timer
callbacks; `handler`, `validator`, `buildStarted`, `done` are the fields of
`swappableHandler`; `closes` counts the closes of each channel, `builders` are
the builder goroutines; `readers`, `waiting`, `writer` are the RWMutex with
Go's rule that an announced writer keeps new readers out. One action per step
between two synchronisation points: `ReadValidator`, `TryStartBuild` (the
compare-and-swap), `LaunchBuild` (reads `buildDone` under the lock),
`ProceedAfterEnsure`, `EnterHandle`/`LeaveHandle` (the answer is made under the
read lock), `ReadDone`/`WakeUp` (`WaitForValidator`), `BuildReturns`,
`LockSetValidator`/`SetValidator`, `CloseDone`, `EditSpec`, `HandleEvent`,
`TimerFires`, `TakePending`, `LoadSpec`, `KeepValidator`, `LockSwap`/`Swap`.
`time.AfterFunc` runs each callback on a goroutine of its own, so several may be
at work at once. Two history variables say what a callback that was overtaken has
done: `late` holds the reloads since whose look at the validator somebody stored
one, `newest` is the newest version of the file that was ever swapped in.
Constants choose versions that do not parse (`Unparsable`) and versions for
which no validator can be built (`NoBuild`).

Left out: several services in one process (they share only the timer) and the
routing of a file to its services, both of which `PortableServer` has; static
fallbacks.

### RequestPipeline

The chain of one service. A request's `shape` is what the chain reads of it
after the override headers: method, URL, and which of replay, cache, upstream,
sticky and validation apply. `Pattern` gives the replay pattern and matched
values of a URL, so two URLs may share a recording but not a cache entry. One
action per table access, upstream call or handler call; which action follows is
computed by the operators named after the point of the chain (`EnterReplay`,
`EnterCacheRead`, `AfterSuccess`, ...). A body is named by the request it was
made for and by its maker, which is what provenance properties need.
`known` is an observer: what the tables held when a request arrived, minus what
expired since. An entry can expire at any time (`ExpireReplay`, `ExpireCache`,
`ExpireSticky`), which is also what deleting one recording does; `ClearReplay`
is the replay API's clear, which takes all of them, or over a lossy store some.
`Lossy` lets a store be lost and a read miss, as with Redis.

Abstracted: replay patterns that overlap (each URL has one pattern and the same
one whenever it is looked up, section 6), headers, the choice of replay match
fields, the size of a body
(`WriteCache` may or may not store), the verdicts of the validators, and the
way generation works (fine, an error, or a panic).

### HistoryLog and MemoryHistory

`HistoryLog` is what the comments of the `HistoryTable` interface promise: a
sequence, newest first, that grows at its head, keeps the newest `Keep`
records and is emptied only as a whole. Its constant `Once` says whether a
record enters once only, as `history_table.go` has it: always in memory, in
Redis unless pipelines are repeated. `MemoryHistory` is the ring: `Create`
is the part of `Set` in front of the lock (ID and time), `Insert` the part
under it, `OpenPage`/`ScanEntry`/`ClosePage` are `Recent`, one record per step
under the read lock while the clock runs on, `GetByID` is an operator because
it is one look under the lock, `Clear` empties. `Contents` is the refinement
mapping: the ring read from its write index backwards. What a record holds
beside ID and time is left out.

### MemoryTable

One named table of one service. `table` is what the storage's map holds under
its name, `data` the entries of every table made so far: a table that is made
twice leaves one that nobody reads. A call is `Call`, then `OpenTable` and
perhaps `CreateTable` (the two halves of `getOrCreateTable`), then the
operation: `ReadEntry`, `CheckEntry`, `Purge` or `Return` for `Get`, which
holds no lock between them; `StampEntry` and `StoreEntry` for `Set`, whose
expiry is computed in front of the lock; `Delete`; `Clear`. `promised` is an
observer, what the calls so far leave under each key; `seen` is another, what
was alive under a caller's key since it called. `Data` is one read under the
lock and is left out. A `Get` that finds an expired entry answers "missing"
even if a fresh value was stored before it took the write lock: the code never
promises otherwise, callers treat a miss as work to do again, and no property
says it cannot happen.

### RedisHistory

The history of one service in Redis. `Set` takes an ID and the time and sends a
pipeline; a pipeline in `pipes` is a record, which attempt it is, and the
command the server does next: `SetRecord`, `PushSummary`, `TrimIndex`,
`ExpireIndex` (which is sent only with a TTL). Pipelines of different clients
interleave command by command, and one that nobody serves any further has
broken off. `Retry` is go-redis sending a pipeline again after an error on the
network; the server may have done none, some or all of the earlier attempt, and
may still do the rest later, so finished pipelines stay in `pipes`.
`ListForClear` is the `LRANGE` of `Clear`, `DeleteCleared` its `DEL` of the list
and of the records it read, which may be repeated, `FailClear` a `DEL` that never
arrives. `Tick` moves the one clock that client and server share and drops the
keys it has run out for: `indexEnds` and `records` hold the deadlines. `Aged` is
the filter of `Recent`, `Complete` names the records whose pipeline came to its
end.

Left out: clocks of client and server that differ, two `Clear`s at once, what a
summary holds beside ID and time, JSON that does not parse.

### AppWatcher

App mode: the server is compiled from its services. Every edit has a number;
`spec` holds, for each service, the edit that wrote its source, `code` the edit
its directory is made from (or is, after `EditCode`), `listed` the imports of
`services_gen.go`, `binary` the built program and `running` the program that
runs. These survive an `Exec`, except that `running` becomes `binary`; the
watcher's fields (`registered`, `watched`, `events`, `pending`, `timer`,
`locked`), the restart channel (`tokens`) and what each goroutine was doing
(`work`) do not. `Boot` and `GenerateExisting` are the start-up scan, the
`Handle...` actions the event loop, one event each up to the first long call;
then `StartGenerate`/`FinishGenerate` (the configuration is written before the
code, so a directory can be one of `husks`: counted as a service, not one yet),
`Discover`, `Compile` (the compiler reads), `Link` (the binary is replaced) and
`RequestRestart`, which is enabled only when the channel has room. `RunCallback`
takes `restartMu` and keeps it until its `RequestRestart` or a failed build.
`BadSpec` and `BadCode` name edits that generation or the compiler refuses. A
directory's events reach the watcher only if it is watched, which a new one is
from when its own event is handled (`HandleNewDir`). Both ways out of a shutdown,
the restart and `GiveUp` with an error, go through `Stop`, which is deferred.
`Regenerate` is `regenerateStaticService`. Edits come at any time, also during
builds and restarts. The code loses some of them for good; the history variable
`forgotten` holds the services of which it has lost track, and an edit that is told,
or a build that takes a service in, makes it remembered again (section 4).

Left out: signals, file operations that fail, nested and flat names of sources,
several files of one static service (so `HandleDelete` finds its directory empty
unless it was written again), what the code generator writes.

### Registration

`register` called for a list of services. `confs` are their names and mounts,
`limit` how many may register at a time: one in `BuildSetup`'s loop, the
semaphore of `LoadAll` otherwise (`MayStart`, `Start`). `OpenStorage` is
`NewRouter`'s: memory, a driver that opens or not and installs or not, and the
fall-back, or the panic of a strict storage. Then, for each service, the steps
between two lock sections: `CheckName` (services map, read lock), `CheckMount`
(`mountOwner`), `MountRoot` for a service at /, else `MountBegin` and `MountEnd`,
`Store` (services map, write lock). The router compares prefixes as strings, chi
without their last slash, which is why a prefix is a path and a slash. chi's
tree has no lock: `snap` is what an insertion saw when it began, and `MountEnd`
may overwrite what was inserted meanwhile. `shared` are the paths of the server's
own pages, which are on the tree before the first service: chi finds them (`Taken`),
`mountOwner` does not. `GiveUp` is a service that fails in front of `register`.

### Discovery

Pure operators, no state. A folder is what these functions ask of it: the stems
of its spec files, `config.yml`, static files at its top or below, `meta.json`; a
tree is a top folder and its subfolders. `Resolve` is `resolveDir`: one service
(`Single`), a folder of services (`ImplicitRoot`, `ResolveRoot`) or a flat folder
of specs (`FlatRoot`). `Discover` is the packer's, with an index file where the
runtime looks for a root endpoint and a line of `config.yml` where the runtime
parses it. `Packed` is the tree as an archive holds it: without its noise folders,
and with the manifest, whose stem is one more spec file at the top, because to
`FindSpecs` it is one. `Resolve` starts with `FromManifest` where there is a manifest,
in an archive or in a directory that was unpacked from one; each entry is a spec
taken at its word or a folder resolved again (`FromEntry`). `AsPacked` is what a
service becomes in its package: itself, except that static files at the root may be
merged into the manifest.

### PortableServer

The portable server from its arguments to its edits. `Init` resolves the
arguments (`ResolveArg`, `Listed`), decides whether there is a UI and where it goes
(`ClaimsRoot`), mounts the server's own pages (`PagesWith`) and
loads the configurations that decide the mounts (`MountOf`). `ReadService`,
`FailService` and `Registering` are `registerService`, the last one around a step
of `Registration`; `StartGenerated` is generated code under `LoadAll`.
`WatchStart` builds `dirToServices` and adds the watches; an argument is spelled as
`filepath.Clean` would spell it or not (`clean`), and the service of one that is not
is listed twice for its directory (`ListedTwice`). `Edit` writes a file,
which may no longer parse; inotify tells of it if the directory is watched.
`HandleEvent` routes the event (`Matches`, and `Wanted` which filters the list of
a shared directory in place), `TimerFires` takes the pending names, and each name
is reloaded: `NoHandler` for one that never registered, otherwise `Resynthesize`
(the synthesized spec of a static service, found by its name) and `Rebuild`
(handler, by its name). `content` is what a service's handler was built from:
the version of every file that went into it.

Left out: URLs and their downloads, single static files, archives as files,
`app.yml`, the convenience flags except `--mount`, shutdown.

### BatchPipeline

The integration harness. `Split` and `PlaceSpec` are `SplitIntoBatches`, one spec
a step: the first batch with room, or a new one. `Produce` is the producer (a
semaphore slot for each batch, then the wait for its builders and the close of
the channel), `StartBuilder`, `TimeOut` and `Send` a builder, `Prepare` the
goroutine it runs `prepareBatch` in (generate, build, launch, health), which goes
on after its builder has given up, and may hang. `Receive`, `SeeInterrupt`,
`SeeClosed` and `Test` are the loop of `processBatches`; `Interrupt` closes
`InterruptCh` at any time. A spec may fail to generate, a batch in each of its
steps, an endpoint in its test, and a panic in a preparation or in a route's test
(`PanicInTest`), which both run on goroutines of their own, ends the process.

Left out: the cache of results, statistics, what a test asks of a service.

## 4. The runs

| Run | Instance | States | Question |
|---|---|---|---|
| `swap_builds` | 2 requests, 1 waiter, 1 edit whose validator cannot be built | 23 000 | does everybody racing to the first build come back with its result, and are requests and reloads always served? |
| `swap_reload` | 1 request, 3 edits, the second does not parse, the third has no validator, up to two callbacks at a time | 650 000 | does reloading under traffic converge without losing a validator? |
| `swap_panic` | 2 requests, 1 edit | violation | one builder per channel, also across a swap? |
| `pipe_chain` | 2 requests of every shape, 2 URLs with one replay pattern, history on, upstream-only, recordings cleared at any time | 1.8 M | history, stickiness, provenance and priority of the tables, for every combination of middlewares |
| `pipe_unwrapped` | 2 replay requests, upstream-only | violation | is every answer tested against upstream-only? |
| `mem_table` | 2 callers, 2 keys, 1 value, lifetimes 1 and for ever, 3 instants | 1.3 M | do readers find what was stored, whoever creates the table and deletes expired entries? |
| `redis_history` | list of 2, 2 records each sent up to twice, TTL 1, 3 instants | 1.3 M | does the history survive broken and repeated pipelines, `Clear` and expiry? |
| `mem_history` | 2 writers, 1 reader, ring of 3, TTL 1, 5 records, 4 instants | 305 000 | is the ring the promised log, also while it is read? |
| `app_restart` | an OpenAPI and a static service, there from the start or not, up to 3 edits at any time, the first not generated, the second not compiled | 938 000 | is what is on disk served in the end, and do the restarts end? |
| `app_stuck` | one OpenAPI service, there from the start or not, 2 edits | violation | does a shutdown end? |
| `portable` | 1 617 deployments: every small directory, and what is unpacked from its package, started; 17 of one or two arguments, spelled either way, edited up to 3 times; services on the server's own paths, with and without UI; 3 generated services on every mount, 1 or 2 at a time; every storage | 332 000 | is what is mounted reached, what panics explained, what is packed what is served, and what is on disk served in the end? |
| `batch` | one corpus for each way to pack up to 3 specs, 1 or 2 batches at a time, abort after 2 failures | 750 000 | is every result reported once, is nothing left behind, does the run return? |

Why the bounds are enough. The swap races need one swap between two steps of a caller,
so one or two callers of each kind and one or two swaps show each of them; three edits
give a good file, one that does not load and one whose validator does not build. Two
requests of every shape show every race over a single table, and the two URLs of one
pattern that a wrong key shows; a body that travels from its maker through the cache
into the recording of a third request is covered by the proofs, which know no bound. A
ring of three filled with five records turns over and has a slot that is neither first
nor last; TTL 1 over four instants lets records expire while a page is read, and two
writers let an older record enter in front of a younger one. Three instants let an
entry be stored, expire, and be stored again between a reader's look and its deletion;
two callers are enough for that race and for two creations of one table. Two records
sent twice each push up to four summaries on a list of two, so trimming has work to
do; a record may be set, listed and run out while an attempt of the other stands still
between any two commands. Three edits write, rewrite, delete and hand-edit services,
at every point of the builds and restarts that the earlier ones cost, a broken one
followed by a good one (edits are numbered from 2, the sources that are there at the
start are edit 1); the loop's and the callback's builds overlap and the restart
channel fills. The directories of `portable` combine every answer that discovery's
questions can have, with a generic and a telling file name, a noise folder, and a
`config.yml` that names, does not name or names on another line; two edits in front of
a timer and one behind it reach every order of event, timer and reload. The corpora of
`batch` have one member for each result of packing with two files to a batch: a spec
too large for any batch, one that fills a batch with a small one, two small ones, and
the next that opens a batch. Requests are interchangeable in the invariants of
`pipe_chain`, callers and keys in those of `mem_table`, hence the symmetry; the runs
with liveness use none.

`MaxEdits`, `MaxTime` and `MaxEntries` bound the runs; they appear in the guards of
`EditSpec`, of `MayEdit` in `AppWatcher`, of the three `Tick`s, of `Create` and of `Set`
in `RedisHistory` only; `PortableServer` has its `edits` with the deployment, and
`BatchPipeline` needs no bound but the corpus. Deadlock is checked except where the
system may stop: in the reload runs the panic that `swap_panic` shows ends the process;
in the `app` runs and in `portable` everything has a right to be at rest once the edits
are used up, and registration may panic; the harness of `batch` returns or panics.
`Lossy` is FALSE in the runs, because the priorities, the sticky marker and the
exact history need a reliable store; what holds over a lossy one is proved
(`ProvenanceHolds`, `RecordingsFirstHand`).

These properties are stated with their exemptions. `WaiterGetsValidator`,
`WaiterReturns` and `PanicNeedsSwap` speak of the time up to the first swap, because
of the races in section 6. `QuiescentFresh` exempts an older file that an overtaken
callback swapped in after the file on disk (`handler < newest`), and `KeepsValidator`
a validator that was stored between a reload's look and its swap (`late`); nothing
else. `PanicNeedsConflict` names all that panics: a strict storage, two services on
one path, a service on a path of the server's own pages (`shared`). `MirrorsRaw`
speaks of directories that are no unpacked packages and that the packer reads as the
runtime does (`ReadAlike`), and of a root service's static files it says where they
end up (`AsPacked`). `IdleServesDisk` speaks of services whose name is their own,
whose directory is listed once for them or whose spec goes by their name, and whose
directory is shared, if at all, by the specs of a flat folder or by other bare specs
(`Undisturbed`), not of files whose last edit no watch reported (`unseen`), and not of
a service with such a `meta.json` in a subfolder: broken, it may have cost the service
a reload that its repair does not bring back. `SettledServes` leaves out what the code
itself loses (`forgotten`), service by service and until the next edit of it that is
told or the next build that takes it in: work for a service with a directory that is
in hand when the process replaces itself (`Exec`) or that `Stop` finds pending; what a
failed build would have brought in; what a build overwrites that ends after a newer
one; edits nobody is told of, because the process is between two watchers or the
directory is not watched yet, which static files that are generated anew can be
without any edit of their code. And it leaves out static files that no discovery has
listed. Everything else that the interleaving of loop, callback, main goroutine and
restarts could lose breaks it.

Fairness. `ProgressFairness` gives weak fairness to every goroutine that is
runnable, to the lock steps (Go's RWMutex is fair to an announced writer and
only finitely many writers come), and to the end of a request (generation
ends and the server has a write timeout). Nothing is assumed of edits. How long
a validator build takes is not assumed either: `RequestNeverHangs` and
`ReloadCompletes` hold of builds that never end. A waiter waits for as long as
the build takes, so `WaiterReturns` has `BuildsReturn` as its premise.

In `BatchPipeline` the fairness is weak for the producer, each builder, its
timer, and the loop with its tests. None is assumed of a preparation: it may hang,
and `RunReturns` rests on the builder's timeout.

In `AppWatcher` the fairness is weak for the main goroutine, the event loop, the
timer, its callback and each goroutine's builds: each is a goroutine that Go runs
when it can, and generation and builds are commands that end. `GiveUp`, a
shutdown that outlasts 30 seconds, is never assumed.

Every property of a passing run has a mutant of the code, in the module beside
the definition it changes (a name ending in what it breaks, e.g.
`ClaimsRoot_First`), under which TLC finds the property violated.

## 5. What is proved

TLAPS checks eight proof modules; nothing is assumed but the named constant
assumptions of the modules (bounds are naturals, `Size` is positive, the
`Nil`/`None` values differ from the data, a corpus is listed by size).

`SwappableHandler_proofs`
- `TypeCorrect`: `TypeOK` under every schedule, one lemma for each kind of
  process.
- `StartupCannotPanic`, `WaitersServed`: up to the first swap, under every
  schedule of requests, waiters, edits and reloads, `PanicNeedsSwap` and
  `WaiterGetsValidator`. Neither is inductive. `StartupInv` adds who holds the
  right to build: at most one caller is
  between its compare-and-swap and the launch, while it is there no builder
  exists, and the channel is closed by the builder's last step, after the
  validator is stored. That a swap breaks it is what `swap_panic` shows.
- `ReloadFresh`: `QuiescentFresh`, for any number of callbacks at a time. `FreshInv`
  says where an edit not yet served can be: undelivered, pending with a timer or a
  callback to come, or in a reload's hands; and that a reload holding an old file has
  a successor that holds a newer one, or is going to take one. Once the newest file was
  swapped in, only an overtaken callback that swaps after it leaves an older one served.
- `ValidatorsKept`: `KeepsValidator`, for any number of callbacks at a time.
  `EmptyHanded` says that a reload on its way to the lock without a validator finds
  none there, unless one was stored since it looked (`late`).

`RequestPipeline_proofs`
- `TypeCorrect`: `TypeOK`, and an answer is in flight exactly between the
  step that makes or finds it and the end of the request (`InFlight`).
- `ProvenanceHolds`, `RecordingsFirstHand`: `SourceTruthful` and
  `RecordedFirstHand`, for any
  requests, shapes and configuration, over a reliable or a lossy store.
  Inductive with `Route` (a request is only at steps of middlewares that apply
  to it), `CachedFrom` (whoever filled a cache entry was a GET of that URL) and
  `RecordedFrom` (whoever filled a recording captured it and was not refused).
- `ReplayFirst`, `CacheFirst`, `MarkerKept`, `HistoryKept`: `ReplayPriority`,
  `CachePriority`, `StickyHolds` and `HistoryExact`, over a reliable store.
  `ReplayKnown` and `CacheKnown` say that what a request found on arrival is still
  in the table, unless it expired, while the request is in front of its look-up;
  `CallsAgree` that only a call leads to the steps behind it, and only a failed
  one to the handler; `MarkerHolds` that the marker a request arrived under waits
  for it; `HistoryAgree` which entries a request has made, by where it is.

`MemoryHistory_proofs`
- `TypeCorrect`: the write index stays in the ring, the size within it.
- `IndexCorrect`: `IndexAgrees`, for every ring size and any number of
  writers. `IInv` adds the shape of the ring (the slots in use are the first
  `size` ones and the write index is the size until the ring is full), that
  IDs are fresh and distinct across pending and stored records (else evicting
  one would drop another's index entry), and that the index is exact.
- `Refinement`: `Spec => IsBoundedLog`, the ring implements `HistoryLog`. The
  key lemma, `SlotOfAfterInsert`, says that inserting shifts every record one
  place back and never overwrites one that is kept.
- `PagesMissNothing`: `PageExact`. `PagesExact` adds that a page was opened in the
  past, so what is alive now was alive then, and rests on `ContentsDistinct`: no
  record is listed twice, so the order on a page is the order of the ring.

`MemoryTable_proofs`
- `TypeCorrect`: `TypeOK`, a caller holds a table exactly while it works on it.
- `StoresAreRead`: `StoresReachReaders`, for any callers, keys and lifetimes.
  Not inductive alone: `OneTable` says that whoever was given a table was given
  the one readers use, `Faithful` that it holds what was promised unless that
  expired and was deleted. An expired entry stays expired (`ExpiryIsFinal`).
- `HitsAreAlive`: `HitWasAlive`. `Witnessed` adds that the entry a reader is
  about to test was seen alive in its call or was expired when it was read.

`RedisHistory_proofs`, for any list length, TTL, number of records and of repeats
- `TypeCorrect`: `TypeOK`, and with it that deadlines are where they can be.
- `ListedOpens`: `ListedCanBeOpened`. `Lone` says that a record sent once has one
  pipeline and that nothing lists it, and no `Clear` has read it, in front of
  that pipeline's push; `RecordsKept` that a record lives as long as its summary
  is young. `Dated` and `Known` (nothing is from the future, nothing is unknown)
  carry both.
- `YoungStay`: `YoungStayListed`. `Outlives` says that the list's one deadline
  lies behind the age limit of every summary whose pipeline was finished.
- `Refinement`: `Spec => IsBoundedLog`: the newest `Keep` summaries implement
  `HistoryLog`, also while the list is longer than `Keep` between a push and its
  trim. Without repeats each record enters once.

`PortableServer_proofs`, for any deployment
- `RegistrationSafe`: `RegInv`, which is `RegTypeOK`, `StorageAsConfigured`,
  `SerialMounts`, `PanicNeedsConflict` and what they rest on: `EntriesOK` (the map
  and the tree hold services that are past the step that enters them) and `Serial`
  (with one slot at most one service is under way, and the ones behind it have not
  started). Stated of `RegNext`, whatever calls the router.
- `StorageHolds`, `SerialMountsHold`, `PanicExplained`: the same three properties of
  the whole server: each of its steps is a step of `Registration` or leaves its
  variables alone.
- `PackageMirrorsDirectory`: `MirrorsRaw` for every directory, by the three
  kinds of root, with the manifest in the package; `PackagesMirror` carries it to
  `PackedMirrorsRaw`.
- `RootIsServed`: `RootServed`. `RootInv` says that the service at / was
  mounted there by its own configuration, and that the place of the UI was chosen
  from the same list and flag.
- `PortableTypes`: `TypeOK`. The list of services, a directory's list of names and
  what a filter leaves of it all have "the one with k others in front of it" as
  their k-th member. `Ranked` proves that there is one in every finite set with a
  strict order (by the pigeonhole `FS_Injection`: ranks are different, so they are
  all), `FoundOrder` that what arguments resolve to has such an order, `ListFacts`
  what each listed service then is. `InputInv` ties the list to the arguments,
  `Phases` says that nothing is told or reloaded before the watcher runs.
- `IdleServerServesDisk`: `IdleServesDisk`. For every undisturbed service `ServiceInv`
  has three parts. `Routed`: its directory's list keeps its name, as often as it was
  listed, however often it is filtered in place (`StaysRouted`), so that an edit of
  any of its files reaches it (`EventReaches`). `Made`: a synthesized spec from which
  its handler is about to be built is fresh, unless another reload is still to come or
  cannot succeed. `Served`: the handler is fresh, or its reload is under way or
  pending or an event is in the channel (`Told`), or it cannot be built (`Blocked`,
  `Lost`).

`AppWatcher_proofs`, for any services, edits and failing edits
- `TypeCorrect`: `TypeOK`, with it that the loop generates for services only and
  the restart channel holds at most its one token.
- `EditsAreServed`: `SettledServes`, for edits at any time. `Course` is its inductive
  invariant. `Shapes` says who may be at work at the same time and where, `Ongoing`
  that a binary which is not what runs is on its way to it. For each service, `Tidy`
  relates its directory, its husk and its registration; `Queue` says that the last
  event queued for a source tells what is true of it; `Tracked` that, unless it is
  forgotten, its directory was made from its source or is about to be (`Made`), that
  what its code is will be in the binary, in the process or in a build that is under
  way or to come (`Carried`), and that it is listed where it must be (`Listing`). Each
  step lemma shows for one action that a service either stays tracked or enters
  `forgotten`.

`BatchPipeline_proofs`, for any corpora and bounds
- `EverySpecOnce`: `ReportedOnce`. `StepPacking` shows that placing a spec keeps
  every spec in exactly one batch; `Passing` that a batch comes out of the
  channel once and that the loop ends with every batch seen or an abort;
  `Reporting` counts a spec's reports by where its batch is.
- `MachineIsClean`: `NothingLeft`. `Hosting` says who will stop each server: its
  preparation, the loop, or nobody once its builder has given up.
- `TypeCorrect`: `TypeOK`, with it that the channel never holds more than
  `concurrency` batches (`Bounded`).
- The seven parts form `BatchInv`, which the step lemmas preserve one by one.

Only model-checked:
- liveness (`RequestNeverHangs`, `ReloadCompletes`, `WaiterReturns`,
  `RestartsEnd`, `RunReturns`), which is out of the prover's reach.

A proof that did not go through at first showed what a property had left out: the
broken `meta.json` of a subfolder, which `IdleServesDisk` had not exempted because no
deployment of the run had one. It is exempted by name now and listed in section 6.

## 6. Disagreements between code and documentation

Shown by a run:

- `swap_panic`: `startBuild` claims the build by compare-and-swap and reads
  `buildDone` afterwards (`handler.go:222`). A swap in between resets both, a
  second claimant gets the same channel, and the second close panics. The
  comment at `handler.go:157-159` promises one builder per guard.
- `pipe_unwrapped`: the replay writer lets a request through uncaptured when a
  recording appeared since the reader's look-up (`replay_write.go:48`); the
  answer is then never tested against upstream-only, which
  `docs/replay.md:281` says is refused with 502.
- `app_stuck`: a callback that blocks on the full restart channel holds
  `restartMu` (`watcher.go:366`, `main.go:253`), for which `stop` waits
  (`watcher.go:99`) after the channel's only reader has left. It takes three
  builds: one whose token is taken, one that fills the channel, one that blocks.
  They fit into a shutdown that waits for slow requests. `main.go:279` announces a
  graceful shutdown with timeout; the timeout covers the HTTP server only.

Known races of the reload path, seen while modelling and reproducible by
small changes to the instances:

- a waiter can read `buildDone` after a swap replaced it and park on a channel
  no builder closes (`handler.go:200`): `WaiterReturns` and
  `WaiterGetsValidator` speak of the time up to the first swap;
- a builder from before a swap stores its older validator over the newer one
  (`handler.go:307`; the comment at 147-150 speaks of the most recently built
  validator);
- with two timer callbacks at work on one service the older file may be
  swapped in last (`watcher.go:103`; `docs/usage/portable.md:292-294`):
  `QuiescentFresh` is checked and proved with overlapping callbacks and exempts
  exactly such an inversion;
- `reloadService` reads the validator it means to keep outside the lock, so a
  validator stored in between is lost (`watcher.go:283`; comment at 276-278):
  `KeepsValidator` exempts a validator stored between the reload's look and its
  swap, and nothing else.

Of the application watcher, from counterexamples that led to `forgotten` or from
reading:

- an exec throws away what is in hand: code edited between the compiler's reading
  and the exec is not built, since the restart forgets the pending one
  (`watcher.go:104`) and the new process takes what it finds for registered
  (`watcher.go:622`); a source edited then is not generated again if its service has
  a directory, and one deleted then keeps its service;
- an exec that cuts a generation short leaves a directory with a configuration,
  which the next process counts as registered (`watcher.go:622`) and never
  generates again;
- a build that read older code and links last stays in place (the callback,
  `watcher.go:378`, and the event loop, `:310`, build into one file, the second without
  `restartMu`);
- a failed build is not repeated when what made it fail goes away without an event
  of its own, as a directory generated anew while it is not watched;
- a static service that appears while the server runs is generated, but neither
  discovered nor built: `regenerateStaticService` registers it (`watcher.go:594`)
  in front of the call that would (`watcher.go:597`, comment at 562). It is
  served after the next discovery, which is why `SettledServes` speaks of the
  listed services;
- later edits of static files are built only because their old directory's files are
  removed under a watch; if the directory is not watched yet, because the event of its
  creation is still queued, nobody is told, and nothing is built (`watcher.go:575-600`);
- deleting an OpenAPI service schedules a rebuild without a discovery
  (`watcher.go:466`), so `services_gen.go` imports a package that is gone and
  builds fail until another service is discovered or its source comes back.

Of the portable runner (the files are in `internal/portable` unless named), by
reading or from counterexamples that led to an exemption:

- static endpoint files in subfolders are not watched, because fsnotify watches
  one level (`watcher.go:62`): their edits are not served, although
  `docs/usage/portable.md:292-294` has edits reloaded (`unseen`);
- one of them that is read and checked, `meta.json`, can cost more: broken, it
  fails the reload of an edit that was seen, and its repair is not seen, so the edit
  stays unserved until the next one (`resolve.go:334-370`); `IdleServesDisk` exempts
  services with such a file;
- a service that fails to register stays out: a reload of it ends at "No handler
  to reload" (`watcher.go:249-253`), while `runner.go:178-180` says that operators
  can fix specs without restarting the process;
- `mount: /` in a `config.yml` does not move the UI (`runner.go:435-445` looks at
  names and flags), so `/*` hides the service, against `docs/config/app.md:38-39`;
  `RootServed` speaks of the other two ways to the root;
- services of `LoadAll` register concurrently on chi's tree (`pkg/api/router.go:172`,
  `:252`; `pkg/loader/loader.go:74-100`): one path twice panics, overlapping
  insertions can lose a route; the comment at `router.go:90-94` has the guard
  prevent the panic. "pets" and "pets/" pass the guard and panic even serially;
- a service on a path of the server's own pages panics chi at start-up: one named
  `docs` while the UI is at /, or with `mount: .services`, `.history`, `.replay` or,
  where the UI has moved, `.ui`. `runner.go:140-144` mounts the pages first,
  `mountOwner` (`pkg/api/router.go:282-292`) looks at services only, and the comment
  at `router.go:90-94` has the guard prevent the panic;
- a package's root holds `.mockzilla.json`, which `FindSpecs` (`internal/files/spec.go`)
  takes for a spec and sorts first. A root service with static files is resolved
  from its folder (`resolve.go:428`), so the files are merged into the manifest
  instead of the spec, and what results is no OpenAPI document: the service does not
  load. `pkg/pack/manifest.go:15-16` has the manifest never collide with content, and
  `pkg/pack/discover.go:26-27` the package yield the directory's services. Packing a
  directory that was unpacked takes the manifest for a spec in the same way;
- `mockzilla ./pets/` lists the service twice for its directory, because
  `dirsToWatch` compares "./pets/" with the "pets" of the spec file
  (`watcher.go:130-161`) before the paths are made absolute (`watcher.go:55-68`). The
  directory then looks shared, and an edit of `openapi.yml`, which is no service's
  name, reaches nobody (`watcher.go:196-204`; `docs/usage/portable.md:292-294`);
- a lone `meta.json` at the root counts as an endpoint at run time and not for
  the packer, the packer reads `name:` from the first line that has it, and it
  fails on an unusable subfolder the runtime skips (`pkg/pack/discover.go:251-262`,
  "Keep the two in sync"): `MirrorsRaw` says of which directories it speaks;
- of two services with one name the second is not mounted, but takes over the
  handler, the synthesized spec and the reloads (`runner.go:509`,
  `resolve.go:440`, `watcher.go:72`);
- spec files given one by one beside their directory: `filterBareSpecs` filters the
  shared list in place (`watcher.go:222`), so later events may reach nobody;
- an edit during start-up, in front of the watch, raises no event; an edit of
  `config.yml` reloads the handler, with the old mount and middleware.

Of the integration harness (`internal/integrationtest/pipeline.go`), by reading:

- the builder's recover (`:157-168`, "Recover from panics in batch preparation")
  cannot catch them, since `prepareBatch` and its set-ups run on goroutines of
  their own (`:195`, `:508`): the process dies, which is `Panic` in the model;
- neither can the recover around a service's test catch a panic of a route's test,
  which runs on its own goroutine (`tester.go:126`): `PanicInTest`;
- skipped batches are sent "so the main loop can report skipped services"
  (`:172`), but once aborted the loop drops them (`:252-261`), so `ReportedOnce`
  asks for all results only of runs that were not aborted;
- a preparation that timed out goes on (`:203`), and nobody stops its server;
- a batch that fails after its build leaves its binary (`:263-299`; the comment at
  `:425-428` says it is deleted), which `NothingLeft` exempts;
- on an interrupt the loop returns at once (`:234-237`) and leaves builders blocked
  on a full channel and servers running;
- small specs are packed into a large spec's batch (`batch.go`), although the
  comment at `batch.go:23-26` gives large files a batch of their own.

Further observations, each visible from one request or by reading:

- replay patterns, or endpoints, that overlap: `GetEndpoint` and
  `GetEndpointConfig` walk a Go map (`pkg/config/service.go:388`, `:624`), whose
  order changes, so the reader and the writer of one request may use different
  keys (`docs/replay.md:3` says record once, replay on match);

- two first requests of one key both record, the later overwrites the earlier
  (`replay_write.go:134`; `docs/replay.md:3` says record once);
- upstream-only passes answers read from the cache (`replay_write.go:67`;
  `docs/replay.md:281` says cached answers are refused), and the model's
  `Refuses` follows the code;
- errors that fail-on names are cached (`upstream.go:108`;
  `docs/how-it-works.md:314` says successful responses are);
- the cache works with history off (`cache_write.go:49`); `docs/storage.md:171`
  agrees, `docs/config/service.md:235` does not;
- `cleanUpstreamHeaders` thins the request's own headers, so the fallback
  handler does not see them (`upstream.go:191`);
- a history page of exactly 100 records is reported as truncated
  (`pkg/api/history.go:111`), although its comment takes a full page to mean
  that records were dropped;
- two records created in one order may be listed in the other, because ID and
  time are taken before the lock (`memory_history.go:34-42`); newest first
  means newest inserted, and that is what `PageExact` states;
- Redis `Clear` leaves records the index has trimmed (`redis_history.go:111`);
  the code says so, `history_table.go:33` says all records are removed;
- go-redis repeats a pipeline whose answer is lost, so Redis can list a record
  twice, although `history_table.go:21` has entries written once: `HistoryLog`
  with `Once` is implemented only for `Retries = 0`. With a `Clear` between the
  two attempts a listed record may not open until it is set again, which
  `ListedCanBeOpened` exempts.

## 7. What is not modelled

`PROJECT.json` gives the reason for each component. In short:

- response generation, value replacement, OpenAPI parsing, code generation, the
  specification tools and the utilities are pure transformations of large data, or
  file I/O, with no state that several actors share; a model of them would be
  their text again, and table-driven tests reach what they compute;
- configuration is a parser with defaults; its values are inputs of the modules;
- the management API is modelled where it changes the tables; its listing,
  sorting and rendering are not;
- connecting to Redis and the scan of a Redis table's keys are single calls of a
  client;
- the harness's set-up of a sandbox and its reports are process and file I/O.

The share of the code that the map covers is small for that reason. About 26 000
lines of the repository are Go code that is neither test, nor generated, nor
example (two generated example services alone have 48 000 lines). Of these the
stateful part, about a tenth, is what the modules stand for; the rest is the list
above.
