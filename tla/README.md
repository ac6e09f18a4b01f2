# pgxporter in TLA+

A verification development for pgxporter, a Prometheus exporter for PostgreSQL
(`src/`). It models the parts of the program in which something can go wrong
that a test hardly reaches, checks them with TLC on small instances, and proves
the central properties with TLAPS for every value of the constants.

## The system

An *exporter* (`exporter/exporter.go`) is a Prometheus collector. It has one
*client* (`exporter/db`: a connection pool and a cached server version) per
database server and a list of *collectors* (`exporter/collectors`), each of
which knows one PostgreSQL statistics view. A scrape is a call of
`Exporter.Collect`: it runs all collectors in parallel, each collector runs one
goroutine per client, each goroutine runs one Select function of the client and
writes what it got to the metric vectors of the collector; when a collector's
goroutines have succeeded it hands all the children of its vectors to the
registry, through a counting channel.

| Component | State | Operations | Hard behaviour | What makes it correct |
|---|---|---|---|---|
| Exporter (`exporter.go`) | mutex, collectors, pools, self-metrics | Collect, Shutdown, HealthCheck | scrapes, shutdowns and pings at once; a deadline; sibling cancellation; a Shutdown that gives up | no pool closed under a scrape, no goroutine outlives its scrape, `up` and the error counters are true, everything ends |
| countingChan (`exporter.go`) | one buffered channel, forwarder and count per collector | write, close, forward, count | three kinds of goroutines over bounded channels | the count is exact, all metrics are delivered before Collect returns, no deadlock |
| counterDelta (`vec.go`) | mutex, last values, children | Observe, Collect | concurrent Observe, counter resets, children read after the mutex is released | the child always shows the last absolute value; a decrease is shown only for a reset |
| Gauge vectors (each collector) | children | Set, Collect | rows that come and go, NULLs, failed clients, readers of an earlier page | a page shows what its scrape read |
| Version gates (`db/db.go`, `db/pg_*.go`) | cached version, probe mutex, pool | AtLeast, probeServerVersion, the Select functions | probes that fail or succeed between two questions, one pool for probes and queries, upgrades | the statement suits the server; one probe at a time; no hang |
| Construction (`registry.go`, `collector.go`, `exporter.go`, `spec.go`) | package-level prefixes, exporters, the registry | SetMetricPrefix, New, WithCustomCollectors, ExtendFromYAMLFile, Register | global variables shared by exporters; any order of calls | the asked-for collectors run, with one prefix, distinct names and no clash of metrics |
| Spec collectors (`spec.go`, `spec_yaml.go`) | vectors made from a user's spec | ParseSpecs, NewSpecCollector, Scrape, coerceFloat | errors between two rows, columns of any type and sign, a file with one bad spec | a page shows what was read, only bad data (a negative counter, a label that is not UTF-8) panics, a file is loaded whole or not at all |
| db.New, DSN, auth (`db/`) | pool configuration | make a lazy pool, probe once, mint passwords | a server that is down at the start; failure for one of several databases | the client learns the version later |
| Command (`cmd/main.go`) | the signal's context, an HTTP server, one deadline | New, serve, drain, shut down, exit | requests whose timeout has passed, a scrape that outlives its request, a deadline shared by two shutdowns | a clean exit within the deadline, no waiting client served from closing pools, the process ends |
| Row models, logging, test support, dashboards | | | | not modelled |

Interactions: `Collect` calls `instrument` for each collector under an errgroup,
`instrument` calls `Scrape` and wraps the registry's channel; `Scrape` calls the
Select functions, these call `AtLeast` and the pool; `emit` calls `Observe` or
`Set`. The registry calls `Describe` at registration, `Collect` for every HTTP
request, and reads the metric pointers after `Collect` has returned.
`Shutdown` shares the mutex with `Collect` and the pools with everything. The
command calls `New` and `Register` and, after a signal, `srv.Shutdown` and
`Exporter.Shutdown`, in this order.

## The modules

| Module | Models | State and actions in the code's terms |
|---|---|---|
| `AbsoluteSeries` | what a counter promises | a goroutine asks to report a value, and the series takes it in one step |
| `CounterDelta` | `vec.go` in a collector | `Observe` in the steps Lock, First/Drop+Readd/Advance, Store under `mu`; `last` and `vec` are the fields; `held` are the pointers the registry has, which keep showing a deleted child |
| `ScrapeGate` | what Collect and Shutdown promise each other | a scrape or a close runs, never both; after a completed close no scrape reports up, if some collector needs a pool |
| `Exporter` | `Collect`, `instrument`, `Shutdown`, `HealthCheck` | `task[w][i]` is the goroutine of collector (or ping) w for client i; the context is `ctx`, `failed` and the errors of siblings; `locker[t]` the goroutine Shutdown starts to take the mutex; collectors in `MaySkip` may succeed without a connection (`Skip`), as those behind a version gate and custom ones do |
| `Queries` | the thirteen Select functions that ask AtLeast | each is a sequence of gates: columns from a major version on, up to one, or no statement at all below one |
| `VersionGate` | `Client.AtLeast`, `probeServerVersion`, the Select functions over one pool | the first read without `probeMu`, the re-check under it, the probe on a pooled connection with its timeout |
| `Catalog` | the constructors of all 27 collectors | the vectors each creates: namespace, subsystem, names, labels |
| `Setup` | the registry of collectors, prefixes, `New` and the later additions, YAML files, `Register` | `prefix` and `self` are the two package variables called `namespace`; an exporter is its options and its list of named collectors; a spec is its vectors and its flaws, a custom collector the descriptors of its Describe |
| `Series` | the gauge vectors of a collector | `vec[k]` is the scrape whose value the child of k has; `page[r]` the children Gather r was given |
| `SpecScrape` | `SpecCollector.Scrape` and `scrape`, on the vectors of `Series` | rows are read and emitted one by one (`cell`), `last` is that of `counterDelta`, `scale` the metric's Scale, `alive` turns false when `Counter.Add` or `WithLabelValues` panics |
| `Process` | `main`, over `Exporter` | `phase` is where main is, `expired` the end of the 30 seconds of `shutdownCtx`, `req[s]` the HTTP request that Collect call s is made for |
| `CountingChan` | `countingChan`, `instrument` | `in`, `done` and the registry's channel with their capacities; a forwarder per collector; Scrape returns when its `total` metrics are written, and a write waits for room |

The `MC*` modules give the constants values that a `.cfg` cannot express. The
`*Proofs` modules hold the theorems. Operators marked "variant" in a comment are
plausible bugs: each property of a passing run is violated when a definition is
replaced by such a variant, which shows that the property depends on the code.

`Exporter` and `CountingChan` look at one Collect call from two sides: the first
abstracts what a collector writes, the second what makes it stop writing. `Series`
and `CounterDelta` look inside one collector, with the serialisation of scrapes
that `Exporter` establishes as their assumption (`scraper`). `VersionGate` looks
inside one client, and the order and timing of the calls are arbitrary there.
`SpecScrape` extends `Series` (its vectors, readers and pages are those), and
`Process` extends `Exporter`: its steps are the steps of that module which main's
phase allows, so that what is proved of `Exporter` holds in the process.

## The runs

Passing:

| Run | Instance | Shows |
|---|---|---|
| `CounterDelta` | two clients whose rows have one label combination, counters up to 2, two readers | deltas sum up, a pointer never shows a value nobody reported, a client that reports alone sees real resets only, Observe is atomic (refinement of `AbsoluteSeries`) |
| `Exporter` | two Collects, two Shutdowns (one may give up), one ping, two collectors of which one may skip, two pools of one connection | no close under a scrape, no stray goroutine, drained shutdown, no circle of waits through the mutex (`HolderGoesOn`), truth of `up` and of the error counters, refinement of `ScrapeGate` |
| `ExporterLive` | the same without a second client, a patient Shutdown, a deadline | every scrape and every shutdown ends though queries may hang |
| `Process` | two requests, two collectors, one pool of one connection, a signal or a failing listener at any time, requests that time out before or during their scrape | an exit within the deadline is clean, no waiting client is served from closing pools, after a signal the process ends though queries hang |
| `VersionGate` | two goroutines, all thirteen Select functions, one connection, versions on both sides of every gate, upgrades | one probe at a time and `probeMu` held by nobody else, the columns sent are those of the version the client knows, functions that only add columns are never rejected, no hang on the probe mutex, the pool or the server, and a client that started without the version learns it |
| `Setup` | two exporters, three sets of options that include every collector under each prefix, a good YAML file and one with a bad second spec, two custom collectors of which one clashes with a self-metric, two additions | resolution, each collector once, one prefix, no metric name twice in the catalogue under either prefix or in an exporter, files loaded whole or not at all |
| `SpecScrape` | three scrapes, two clients that overlap in one row, two readers; the metric is a built-in gauge, or the gauge or counter of a spec, its scale absent or negative, any of its labels not valid UTF-8 | a page is fresh, a NULL is never reported as a number, only such a label or a counter that is negative once it is scaled panics |
| `CountingChan` | two collectors, up to four metrics each, channels of two and one | exact counts, complete delivery, nothing left behind, nobody stuck whatever the other collectors do, Collect returns |

Each violation run checks one sentence of the repository's documentation, comments
or tests that the code does not live up to; TLC shows how.

| Run | The sentence | What happens |
|---|---|---|
| `ExporterAbort` | `instrumentation_test.go:86-87` | a Shutdown that gave up leaves a goroutine that takes the mutex for good |
| `VersionGateClean` | `db/doc.go:8-10` | with an unknown version a PG 17 server is asked for columns it has lost |
| `SetupCustom` | `exporter.go:158-159` and `180-181` | two custom collectors get one name and share their self-metrics |
| `SeriesGhosts` | `pg_stat_progress_vacuum.go:15-16` | a vacuum that has ended is reported for ever |

Reading the code for the models brought up some smaller things no run is
devoted to:

- `vec.go:37-41` says that two goroutines never observe one label combination at
  once; two servers with equally named databases do. The run `CounterDelta` is that
  case: the mutex keeps it safe, though resets are then invented.
- `dashboards/README.md:47` takes `scrape_errors_total` of a collector as a sign of
  schema drift or permissions; a collector cancelled because a sibling failed is
  counted as well. `ErrorsHaveCause` states what does hold: some collector failed for
  a reason of its own.
- `exporter.go:174` creates the zero series of `scrape_errors_total` for the
  collectors of `New` only; one added later has none until it fails.
- `SetMetricPrefix` called by the program moves the built-in collectors and not the
  self-metrics, and an `Opts` without prefix (`exporter.go:41-42`) keeps what
  an earlier exporter asked for. `OnePrefix` is what remains.
- `cmd/main.go:105-107` says that every format libpq accepts works, including
  `sslmode` and lists of hosts; `parseDSN` keeps host, port, user, password, database
  and application name of the first host, and `addParametersToDSN` writes no `sslmode`.
- `Opts.ConnectTimeout` is never read. `MaxConnectionRetries` (`opts.go:19`) retries
  nothing: `pgxpool.NewWithConfig` of pgx v5 does not connect, so the loop in `db.New`
  runs once and returns a client also for a server that is down; below -1 it does not
  run at all, and `New` returns neither a client nor an error.
- The probe of `AtLeast` waits at most five seconds for a connection. Queries of the
  same client compete for it, so that a busy pool alone can keep a version unknown;
  `SelfHeals` names what is assumed of the pool.
- A spec's column of type `numeric` or `smallint` gives no metric and no error
  (`coerceFloat`), although `numeric` is what `sum(bigint)` returns.
- Two specs of one file may have one metric name and the same labels: they register, as
  descriptors of one collector, and a Gather that gets the same row from both fails.
- After a completed Shutdown an exporter still reports `up` 1 if none of its collectors
  needs a connection: the Select functions of views that came with a later PostgreSQL
  return nil below it (`pg_stat_io.go:20-22`), and so they do while the version is
  unknown, as it stays on a closed pool; and an `EnabledCollectors` of unknown names
  only leaves no collector at all. `GateSpec` and `ShutdownIsFinal` except these.
- A spec with a negative `Scale` on a counter, a negative column, or a label (from a
  `bytea`, say) that is not valid UTF-8 panics in a goroutine nobody recovers
  (`spec.go:240-247`). `OnlyBadDataKills` says that nothing else does.
- Exporters with different `Name`s (`exporter.go:29-31`) have distinct self-metrics,
  but the same descriptors for built-in collectors, and cannot be registered together.

### Bounds

- `MaxStat` (2) bounds a server's counter: a reset needs a value above 0, and a
  value that grows after the reset past, to and below the old one needs 2.
- `Scrapes`, `Stops`, `Pings` are calls, each made at most once: two of a kind
  are needed for one to run while another waits. Two collectors and two clients
  are needed for cancellation within a collector and between collectors; pools
  of one connection are the tightest.
- `Versions` in `MCVersionGate` has one version per interval between gates, so a
  further version behaves as one of them.
- `MaxRounds` (3): a page of scrape 1 can be read while scrape 2 sets it, and a
  row can be gone in 2 and back in 3. `round` only counts scrapes.
- `MaxMetrics`, `Buffer`, `Capacity` (4, 2, 1; the code has 64 for a collector, the client library 1000 for the registry; neither is 0, which would be a
  rendezvous and not a queue): a
  collector writes more than its channel and its forwarder can hold, so that each
  blocks on the next.
- `SomeAmounts`, `SomeScales` in `MCSpecScrape`: a counter's column is missing with its
  row, NULL, negative, or one of two positive numbers, so that it can grow, stay and
  decrease; its scale is 0 (absent) or -1, which turns every sign and order round. A
  positive scale but 1 changes neither sign nor order. The number and the scale of a gauge
  are left out, since no step looks at them.
- `MaySkip`: one of the two collectors in `Exporter`, `ExporterLive` and `Process`, so
  that a scrape can end well in part without a connection.
- `Process` has one pool of one connection and two requests: one can hold it while the
  other waits for the mutex, has timed out, or comes in on an open connection during
  the drain. Two collectors show cancellation. `Pings` is empty: main makes none.
- `MaxBatch`, `MaxAdded`: collectors added in one call, and in total over all
  exporters. In `Setup` collectors come one per call, where names are distinct; the
  names of `SetupCustom` collide as soon as two come in one call and a third after.
- `AllOptions` in `MCSetup`: all collectors under `pg`, the defaults under `pg_stat`
  and a list of unknown names with no prefix. `MetricsApart` looks at the whole catalogue
  under both prefixes, whatever the options. The first spec of the bad file is good, so that loading
  it spec by spec would leave one behind.
- Symmetry is used for interchangeable goroutines, Collect calls and exporters only, and
  not where a liveness property is checked (`ExporterLive`, `Process`, `VersionGate`,
  `CountingChan`).
- `CHECK_DEADLOCK FALSE` where the system may stop: every call of the instance has been
  made, or the process has exited or panicked. `CounterDelta`, `VersionGate` and
  `SeriesGhosts`, whose servers and goroutines go on for ever, are checked for deadlock.

### Fairness

Go runs every goroutine that can run, and `sync.Mutex` hands itself to a waiter
that has waited for a millisecond (starvation mode), hence weak fairness of the
steps of the code, and strong fairness of taking a mutex or a channel slot others
compete for (`VersionGate`'s Lock, `CountingChan`'s Pass).
Timers fire (`Deadline`, the five seconds of `reprobeTimeout`) and pgx returns when
its context is done (`Cancel`). Nothing is assumed of PostgreSQL: no connection
need be established, no query need end. `HealthCheck` has only the caller's
context, which is assumed to end; without that `Shutdown` can wait for its
connection for ever, since `Pool.Close` looks at no context. In `CountingChan` the
queries of a collector end (`Queried`), by the same timers and contexts as in `Exporter`.
Its writes have no such help: the send in `vec.Collect(ch)` looks at no context, and
waits for as long as the channel is full. That they end is what `CollectReturns` shows,
from the forwarder that reads the channel, and from the registry, which reads its own
until Collect has returned.

`Process` assumes weak fairness of main, of the 30 seconds' timer and of
`exp.Shutdown`, each only while the process lives. It assumes nothing of the scrapes:
a query may hang, a scrape need not have a deadline. `ProcessEnds` holds since both
shutdowns look at `shutdownCtx` while they wait for others, and pools are only
waited for once no scrape uses them.

`SelfHeals` is an implication: if gates are asked again and again, whoever waits for a
connection again and again gets one some day, and a probe that is repeated for ever is
answered some day, then the version becomes known. These are conditions on the
scrapes, on pgxpool and on the server that the code cannot guarantee; what the code
contributes is that a failed probe leaves nothing behind that stops the next one.

## The proofs

`tlapm` checks, for every value of the constants that satisfies the named
assumption of the module:

- `CounterDeltaProofs`. The inductive invariant is the type invariant,
  *Serialised* (a goroutine inside `Observe` holds `mu`), *DeltasSumUp* (the child
  equals `last`, except for the key whose holder is between Drop or Advance and
  Store, where it equals what the pending steps expect), and *Sourced* (every value
  in `last`, in a goroutine's argument and under a pointer was read from a server).
  The type invariant needs DeltasSumUp: `Add(value - last)` is a natural number only
  because the switch has compared them. Theorems `CounterCorrect`, `ReportedValues`;
  `ObserveIsAtomic` maps the step that completes the addition to the abstract
  report and all others to stuttering; `ResetsReal` follows from *Climbing*: the value
  a client stored last, as long as no other has reported for the same labels, never
  exceeds its server's counter unless a reset is on record.
- `ExporterProofs`. *Owners* (a running Collect, and a closing Shutdown, is the
  mutex's holder), *Closers* (a pool that is closing belongs to a closing
  Shutdown, `done` implies all closed), *Joined* (a goroutine at work belongs to a
  collector that has not returned), *Drained* (a closed pool has no connection in
  use), *Refused* (with all pools
  closed, no goroutine of a collector that needs a connection can end well).
  They give `ScrapeKeepsPools`, `WorkersJoined`, `ShutdownDrained` and the
  refinement `ImplementsGate`. `ErrorsCaused` needs *Caused* (an error of a collector,
  returned or not yet, has a culprit), and `UpComplete` *Accounted*: the errors of a
  running scrape are those of the collectors that have returned and failed somewhere.
  - `ErrorsExplained` relates the counters over all scrapes: *Explained* pays for every
    scrape with `up` 0, and for a running one that has failed, with a count of its own
    (*Owed*), and bounds each collector's count by those scrapes (*OwedBy*). The sets
    are shown to be finite, for their number of elements to mean anything.
  - `NoCircle` needs *Underway* (the goroutines of a running collector have started; a
    Shutdown that has returned nil has no goroutine left that would take the mutex) and the
    least pool that is not closed (*LeastOf*), since Shutdown closes them in order.
  - `ScrapeUndisturbed`: whatever the other calls do, a running scrape's context stays
    expired, its failures stay counted and its goroutines only go forward.
    With `NoCircle` these are the two safety halves of `EveryScrapeEnds`: it is not
    stuck, and no step is undone. What is left to TLC is that Go takes the steps.
  - `AbortedHoldsOn` is the other side of the finding `CleanAbort`: by *Owners* and
    *Closers* nobody but the goroutine that has gone could give the mutex back, so the
    exporter does nothing any more, for good.
  - `ShutdownIsFinal` follows from the refinement and from *Owners* and *Refused*: with all
    pools closed, for good, no connection is acquired, nothing ends well but collectors that may
    skip, and every `up` that is set is 0 unless all collectors are of that kind.
- `ProcessProofs`. `RunsExporter` shows that each step of the process is a step of
  `Exporter` or leaves its variables alone, so the invariants of `ExporterProofs` carry
  over. *Ordered* relates main's phase to the exporter: no Shutdown before
  `ServerDown`, after it no open request within the deadline, and pools open until
  Shutdown has the mutex. It gives `ExitsClean` (with `ShutdownDrained`) and
  `ServesFromOpenPools`. `ExporterKept` states what the process inherits. `ExitNotHeldUp`:
  main makes no HealthCheck, so that every pool Shutdown comes to is idle, and closing
  never waits; what can delay the exit is the wait for the mutex, which has the deadline.
- `VersionGateProofs`. *Base*: types, a goroutine past the re-check is `probeMu`'s
  holder, and the positions within a sequence of gates are inside it. `OneProbe`
  follows. For `AdditiveSafe`, *AddsHeld*: each group of columns a goroutine has
  added belongs to a version the server had reached, and servers only get newer.
  For `GatesExact`, *Exact*: the columns a goroutine has collected so far are those of
  the gates behind it, evaluated at the cached version, unless one of its questions
  was answered while the version was unknown. The version is set once, so the answers
  of one Select function agree with each other (`VersionLearntOnce`, which needs that the
  holder of `probeMu` has seen no version). `OnlyBgwriter` is about the thirteen concrete
  functions: by *Exact*, `GateCorrect` leaves only those that got a blind answer; one that
  begins with a skip gives up on it (*Sighted*), one whose gates only add columns is safe
  by *AddsHeld*, and what remains is `SelectPgStatBgwriter`.
  `SelectRunsOut` is the safety half of `SelectsReturn`: five steps for each question
  still to be asked, at most two questions for a gate, and the steps to the answer, are a
  measure that each step of the function lowers and nobody else's touches; it cannot go round
  in a circle over failed probes. With `OneProbe` (whoever has `probeMu` is in a probe, and
  so under its timeout) nobody waits for one who waits in turn.
- `SeriesProofs`. *Past* (no child and no page is newer than the last scrape),
  *Sourced* (what a goroutine still has to emit was returned in this scrape) and
  *Pending*: a row that was returned has its child set by this scrape or is still in
  the hands of a goroutine. `Collect` waits for those hands to be empty, which gives
  `PagesFresh`; later scrapes only raise the value of a child. `ValuesReported`
  follows from *Sourced*. `GhostsExplained` says what the finding `NoGhosts` leaves of
  "only appear while a worker is active": what a page shows beyond its rows an earlier
  scrape returned (*Known*: the last scrape reported no other keys than those it
  returned, so a child with another value is older), and once shown it is on every
  later page.
- `SpecScrapeProofs`. The steps of a spec's scrape keep the invariant of `SeriesProofs`
  too (*Pending* excepts scrapes in which a client has failed), which gives
  `SpecPagesFresh` and `SpecValuesReported`. For counters, *Rest*: what `last` holds is
  never negative, so a decrease adds the new value and an increase the difference, both
  negative only if the scaled column is (*AddedSign*). With the labels that are not valid
  UTF-8 this is all that can end the process: `OnlyBadData`, for any integers as columns
  and scales.
- `SetupProofs`. `PrefixKept`: both prefixes are baked in at one moment, in `New`.
  `AsAsked` needs what the loop of `ResolveCollectors` returns: after n entries the
  slice has exactly the wanted ones among the first n, and none of them twice, as the
  registry's names differ. The library's induction
  theorems take an operator as a parameter, so this induction goes by the least
  counterexample (*LeastOf*, from the well-foundedness of the naturals), with the set of
  the n for which the claim holds. `TypeCorrect` types every exporter's options, files and
  collectors. `FilesLoadedWhole` is proved of the positions at which the specs of a file
  begin (*Whole*): appending leaves the pieces where they are, and a file that is loaded is
  a new piece behind them; that no spec of it panics is what `toInternal` has checked.
  `NeverClash` is the argument from the catalogue to every exporter: its built-in
  collectors are entries of the catalogue under *one* supported prefix, each once
  (*BuiltInsAre*, from the invariant), so two that claimed one metric name would be two
  entries, or an entry and the self-metrics, that do. Its hypothesis `MetricsApart` speaks of
  constants only; the run `Setup` evaluates it, as a part of `BuiltInsNeverClash`.
  `FirstRegisters` goes on to what the registry asks: finitely many descriptors, of
  which no two built-in ones share a name. Collectors that were added, by the program or
  from a YAML file, may have any metric names; the hypothesis *AddedFit* is that they use
  a name of the exporter again only with the same labels. So these are the only cause of a
  panic in the first `Register`. Further exporters, which the registry does refuse (see
  above), are left out. `DistinctOneByOne` shows where the finding of
  `SetupCustom` ends: by *Placed*, a custom collector that is added alone is named for its
  place, so `MaxBatch <= 1` leaves all names different.
  Assumed: a file is a sequence, an option's prefix is empty or one of the two,
  a collector has finitely many vectors or descriptors, the bounds are numbers, and `None` is not an
  exporter. TLC evaluates these in every run of `Setup`.
- `CountingChanProofs`. *Conserved*: the metrics a collector wrote are in its channel,
  in its forwarder's hand, or passed on and counted. *ClosedAfter*, *EndedDry* and
  *CountedLast* order the hand-over: closed after the last write, ended when closed
  and empty, counted when ended. With them nothing is between writer and registry at the time
  the count is read: `CountExact`, `NothingLeft`. `NoneStuck` adds *Handed* (the count that is
  waited for has been asked for by a close, and a forwarder that has ended has left it);
  `WorkRunsOut` gives a measure: each metric is worth a unit for each hand it still
  has to pass through, and every step takes a unit off one collector.

Every invariant and every action property that a passing run checks is stated by a
theorem. Only model-checked: the liveness properties (`EveryScrapeEnds`,
`ShutdownCompletes`, `SelectsReturn`, `SelfHeals`, `CollectReturns`, `ProcessEnds`), as
liveness under fairness is outside what the prover can do here. Their safety ingredients
are proved, that nobody is stuck and that the work is bounded or never undone, for
`CollectReturns`, `EveryScrapeEnds`, `SelectsReturn` and the process's exit (see above).
And `MetricsApart`, the hypothesis of `NeverClash`: the metric names are strings put
together from parts, of which the provers know nothing, and the catalogue is concrete
data that TLC enumerates completely. The four violations are TLC's as well; the theorems
`AbortedHoldsOn`, `OnlyBgwriter`, `DistinctOneByOne` and `GhostsExplained` say for every
instance how far each of them goes.

## Not modelled, and why

- What a column means, SQL text, formatting, help strings, logging: no control
  depends on them.
- Floating-point values: a counter's value is a natural number, a gauge's value is
  the number of the scrape that read it, a spec's column its sign and size. NaN and
  infinities do not reach `Observe` from the views the built-in collectors read;
  a NaN of a spec's column does not make `Add` panic, and an infinity behaves as a
  number of its sign. Rounding and `TimestampAsUnix` are not modelled.
- Labels that are not valid UTF-8 from the built-in collectors: theirs are texts, which
  PostgreSQL converts to UTF-8 (but for `SQL_ASCII` databases, which are left out).
- Help strings and malformed descriptors, which the registry looks at too.
- Data races of callers that extend an exporter while it is scraped
  (`exporter.go:184`), and custom collectors that write after Scrape has returned.
  One that writes between its queries is taken to write after them.
- The pools a failed `exporter.New` leaves open: no later call can observe them.
- DSN text, flags, cloud password providers, the test support and the dashboards.
- The row models are declarations of scan targets; which column feeds which vector is
  straight-line code without state of its own.

## The plan

Done, in this order: `CounterDelta`, `Exporter`, `VersionGate`, `Setup`, `Series`,
`CountingChan` and the proofs about them; then `Process` over `Exporter`, `SpecScrape`
over `Series`, YAML files in `Setup`, the self-healing of the version, and the proofs of
`Process`, `SpecScrape` and `Setup`; then the proofs that nothing waits in a circle, that
work is bounded and that errors, versions and files add up; then those that no metric
names clash, and of what the findings amount to.

What would come next:

1. That `CountingChan` with the collectors of `Series` implements an abstract scrape.
2. The mapping from rows to vectors of the collectors with conditional columns
   (`pg_stat_io`, `pg_locks`, `pg_settings`).
3. The download cache of `testutil`, which two test processes share.
4. An abstract registry over several exporters, to say which sets of exporters and
   specs it accepts together.
