# A verification of mtracer in TLA+

mtracer runs system tests against a distributed application: it prepares an
environment, fires a trigger with a trace ID of its own, polls an observability
backend for the trace, compares the trace with what the test expects, and cleans
up. This directory holds TLA+ modules translated from its Go code, TLC
configurations that check them on small instances, and TLAPS proofs for every
value of the constants.

Run `tlc -config X.cfg MCX.tla` for a check and `tlapm XProofs.tla` for a proof.

## 1. Inventory

State is per process unless said otherwise; nothing is persisted.

| Part | Source | State | Operations | What makes it correct | Model |
|---|---|---|---|---|---|
| Orchestrator | `cmd/run.go`, `test/` | loop indexes, defer stack, results, suites | run a test `--count` times, export, analyse | cleanups mirror setup; nothing runs after a failed stage; the blamed item is the first that failed; reports are complete | `Lifecycle`, `TestRun` |
| Fetching | `configuration/*/adapter.go` | trace so far, timer, ticker | `Fetch` | nothing received is lost but what a later search had to leave out; ends early only for a reason; ends | `FetchContract`, `TraceFetch` |
| Repositories | `configuration/*/repository.go` | none | `Get` over HTTP | what a search leaves out began before its window or are the latest spans | as a slow, failing call in `TraceFetch`; its search in `SpanSearch` |
| Trace building | `configuration/*/adapter.go`, `configuration/openobserve/repository.go`, `domain/otelHelpers.go` | none | `newTraceFrom…`, `getSpanStatus`, `int64Value` | rounding keeps the order of spans; a cut trace has no orphans | `TraceBuild` |
| Trace order | `trace/sort.go` | visited set, result | `SortSpansHierarchically` | each subtree in one piece and siblings by start time, nothing lost but by cycles; ends and repeats nothing on any input | `SpanSort`, called by `TraceBuild` |
| Comparison | `trace/comparator.go`, `span/comparator.go` | indexes, used flags | `Compare` ×4, `Equal`, `CompareProperties` | yes exactly when an assignment of spans exists | `SpanMatch`, `TraceComparator` |
| Container setup commands | `setupCommand/docker/{kill,stop,start,pause,unpause}Container.go`, `composeUp.go` | in the Docker daemon | `Execute`, `Cleanup` | environment restored | `ContainerFaults` |
| Network setup commands | `throttle.go`, `delay…`, `packetLoss…`, `customQdisc…`, `execContainer.go` | helper id, kept across runs; helper container; queueing rule | `Throttle`, `Unthrottle` | no target stays slowed, no helper stays | `Throttle` |
| Shell setup commands | `setupCommand/shell`, `domain/shellCmd.go` | none | `Execute`, `Cleanup` | — | outcomes in `TestRun` |
| Playwright trigger | `trigger/playwright.go` | local server, its handlers, one-slot channel | `Init`, `Trigger`, the handler | the ID returned is one the browser asked for in this run; it returns | `PlaywrightTrigger` |
| Other triggers | `trigger/` | trigger object, kept across runs; connections of a call | `Init`, `Trigger` | runs do not mix; what is returned was received; no connection stays in use; calls return | `Triggers` |
| ID generator | `idGenerator/` | none | `Generate` | IDs do not repeat | outcomes in `PlaywrightTrigger`, `Triggers` |
| Assertions, checks | `assertion/`, `postExecChecks/` | none | `New…`, `Assert`, `Check` | — | creation in `Commands`, outcomes in `TestRun` |
| Parser | `parser/` | none | parse, validate, default | what passes can be run | `Commands` |
| check, file lookup | `cmd/check.go`, `cmd/testPathsGetter.go` | none | `CheckTestCase`, `getTestPaths` | nothing runs if anything of the call is wrong | `Commands` |
| Exporters | `export/` | none | `Export` | all reports tell the same, and all of it | calls in `TestRun`, contents in `Commands` |
| Analytics | `analytics/` | none | `Build`, `Export` | right percentiles and rates; the same input gives the same report | `Analytics` |
| create, root, protobuf copies, conversions | `cmd/`, `trace/proto.go`, `domain/`, … | none | — | — | not modelled: sequential input and output, generated code |

### Interactions

`RunTests` looks up and parses the files, makes adapter, exporters and the Docker
client, and then calls `NewTraceTest` once per test and `Run` once per `--count`;
the test object, and with it the trigger and each throttler's helper id, is shared
by the runs of a test. `Run` calls setup commands, the trigger, the adapter, the
comparators, assertions and checks one after the other, in one goroutine. What is
concurrent is outside: the target serves requests of this run and of earlier ones
and leaves spans, the backend ingests them while `Fetch` polls, the Docker daemon
runs helper containers and detached execs beside the test, the NATS client loses
its connection and gets it back, signals arrive, and inside `Fetch` a timer and a
ticker fire. The only goroutines mtracer starts itself are those of the Playwright
trigger's HTTP server and its handlers.

### What is hard

* Partial failure: a setup command, a cleanup, a request, an exporter fails while
  the rest has to go on (or must not).
* Ordering: cleanups in reverse; spans that arrive late and out of order; a
  helper that installs its rule during or after the test.
* Timeouts: the random choice of a `select` with two ready channels; a request
  that is served after its trigger has given it up, in the next run.
* Delivery: a message on a connection that breaks and comes back; a traceparent
  that the test file writes itself.
* State kept too long: the helper id of an earlier run; an environment left
  dirty by a cleanup whose error is only logged at debug level.
* Data a backend may send: missing, repeated and cyclic span IDs, more spans than
  a search returns, times that float64 cannot tell apart, a status in upper case.
* Order that comes from a map: exporters and analytics walk Go maps.

`PROJECT.json` lists each hazard at its line with the properties aimed at it.

## 2. Modules

```
Commands  (from the call to the reports)  <- MCCommands, CommandsProofs
  creates and runs
Lifecycle  <--refines--  TestRun      <- MCTestRun,  TestRunProofs
  whose stages are
ContainerFaults                       <- MCContainerFaults, ContainerFaultsProofs
Throttle                              <- MCThrottle, ThrottleProofs
PlaywrightTrigger                     <- MCPlaywrightTrigger, PlaywrightTriggerProofs
Triggers                              <- MCTriggers, TriggersProofs
FetchContract <--refines-- TraceFetch <- MCTraceFetch, TraceProofs
TraceComparator (Equal is a constant) <- MCTraceComparator (Equal of SpanMatch),
                                         TraceComparatorProofs
and whose traces come from
SpanSort <--extends-- TraceBuild <--extends-- Analytics <- MCTraces, TraceProofs
SpanSearch, extended by FetchContract, TraceFetch and TraceBuild
```

Operators named `…Once`, `…InOrder`, `…Forgets` and so on, marked "a mutant for
the model checker", are wrong versions of the definition after them. No
specification uses them; putting one in the place of its definition shows that a
property can fail.

**TestRun.** `pc` is the stage of the pipeline (`setup`, `fetch`, `properties`,
`traces`, `assertions`, `checks`), `cleanup` while deferred calls run, `create`
between tests, `export` and `analytics` at the end. `deferred` is Go's defer
stack, `verdict` the result `Run` returns, `results` and `suites` the slices of
`RunTests`. The environment decides each stage's answer: one action per stage,
with `ok` for its outcome. A setup command is deferred before its error is looked
at, as in the code, and not at all if `Execute` panics. A panic runs the
deferred calls and ends the process, with all results. `Interrupt` models a
signal: mtracer installs no handler, so nothing is cleaned. `executed`, `cleaned`,
`confirmed` and `delivered` are history variables.

**Lifecycle** is the promise seen from outside: changes are made only while the
environment is open, undone in reverse, and the environment is opened again or
left only when everything was undone. `deferred` refines `held`.

**SpanSearch** is what OpenObserve is asked for: the spans of the trace in a window
that ends when the request is made (`Window`), and the earliest of them, up to the
size of the search (`Earliest`). It also names the two ways to be missing later:
all that is found began after a span (`Outlived`), or the trace is full and all of
it began no later (`CutOff`).

**TraceFetch** has the two loops. They differ in that Jaeger's conversion may fail
and that OpenObserve's answer is a search (`backend`, `Findable`): it slides with
`asked`, the time of the last request, and has room for `MaxHits` spans, so an
answer may lack spans of the one before, and it replaces the trace all the same.
`clock` counts units from the call as far as a search can tell them apart; `left`
is what remains until the deadline and `phase` the place between two ticks; the
channels of the timer and ticker hold one value each; the `select` is the choice
between `Retry` and `Expire`. A request is served from what is ingested at some
moment between being sent and being answered. A `lastSpan` that the test does not
give is a `Matches` that is false everywhere, as `Equal(nil)` is in the code. Spans
with the same start time are taken to keep their order from answer to answer.

**FetchContract** leaves out timer, ticker and requests: a caller sees a trace that
is handed over when it ends with the awaited span, at the end, or never. In Jaeger
the trace only grows; in OpenObserve it may lose spans at its two ends, never one
in between (`MayDrop`). `tr` refines `seen`.

**SpanSort.** The recursive `dfs` is a stack of sibling lists. `SortByStart` is
the stable sort; `Roots` and `ChildrenOf` are the index by parent. The module has
the call for any list; TraceBuild says which lists there are. A pre-order is
said in two ways: `WalksInPreorder` by the places of spans and their parents, on
any list and at every moment of the walk, and `MatchesPreorder` by comparison with
a recursive definition, on a finished walk of a proper trace.

**TraceBuild** goes from what a backend has `stored` to a trace. `JaegerSpan` and
`OpenObserveSpan` are the conversions, field by field where a field decides
something: the first `CHILD_OF` reference, the process, the kind and the status
from the tags; the hits of OpenObserve's search, in order (`Hits`), and its
numbers after float64 (`Int64Value`). The steps are those of SpanSort on the spans
so made, and `Trace` is the record that results: its counts and bounds are of all
spans, its list is of those the sort kept. Only an answer that `Found` accepts
gets here; TraceFetch has the others.

**Analytics** is pure: operators on the trace just built and on those of other
runs (`OtherRuns`). `TracesData` is what `getTracesData` collects: the traces that
are not nil, their durations in ascending order and, for each key, the spans that
have it. `TestData` has the data of every test. `SpanTables` is the set of tables
the exporters may write, as the rows come out of a map and the sort is not stable;
averages, rates and squares of deviations are pairs of integers, where the code
divides in float64. `Rank` is the place of each name in the order of strings.

**TraceComparator** has the early returns of `NewExpectedTrace` and `Compare`,
the length guards and segments of the four comparators, and their three loops,
one iteration per step. **SpanMatch** is `Span.Equal`.

**ContainerFaults** has the six commands that change the state of a container.
`Execute` may fail with or without effect (`compose up` may leave its containers
started); `Cleanup` is the inverse call, also for a command that failed. The
daemon's answers (`Accepts`, `Refuses`, `Target`) are external.

**Throttle** has the helper containers. `Throttle` returns after the helper is
started; `Install` and `InstallFails` are steps of the helper's own shell, which
interleave with the test. `attached` is the log level: above Info an exec is
detached and `ExecRuns` is a later step of the daemon. `id` outlives a run.

**PlaywrightTrigger** has `Trigger`, the handlers of its local server and the npx
process, which interleave. `handler[r]` is where the handler of request `r` is: it
generates IDs, offers one to the channel without waiting, answers. `Read` is the
`select` with a default after npx has ended; `Shutdown` is deferred and waits for
the handlers at work. An ID is the run and the request it was generated for, so
random IDs are taken never to repeat.

**Triggers** has the http, grpc, nats, jetstream and traceId triggers of one test
over several runs. `dto` is the trigger section; `Usable` is the error path of
`NewTrigger` and the `Init`s. `pc` is the place in `Trigger`: `generated` (it has
its ID), `reflecting` and `described` (gRPC), `connected` (NATS), `sent`. What is
sent goes to `net` and from there, in any order and at any later time, to
`accepted`; a target that reads the ID puts the run into `work[id]`, and `fetched`
is what the test finds there. `conns` has the connections: closed when the call
ends, but that of an HTTP answer goes back to the pool of the default transport
(`idle`), from where the next run may take it and the transport or the server may
close it at any time (`IdleClosed`). The NATS client keeps messages in `buffer`
while its connection is `lost`, and goes on with it `again`. Which ID a reader
finds beside a traceparent of the test file is `Readable`.

**Commands** has `run` and `check` around the tests. `ValidTest`, `WithDefaults`
and `Created` are the validators, defaults and factories as predicates on the DTO;
one action per loop step or early return of the command: names, files, adapter,
exporters, client, tests, reports, analytics. `RunTest` is one `Run` of TestRun
with its verdict. `JsonReport`, `JunitReport`, `StdoutReport` and `MarkdownReport`
give the rows, counts and verdicts of each format, each by the walk of its own
exporter; `Outcome` is what the rows of all runs add up to, and what
`ReportsAgree` compares them with.

## 3. Runs

| Run | Instance | Shows |
|---|---|---|
| `testrun` | 2 tests × 2 runs; setups 2/1, traces 1/2, assertions 2/0, checks 1/1; 2 exporters, 1 analytics exporter | `CleanupMirrorsSetup`, `NothingSkipped`, `VerdictJustified`, `ReportComplete`, `ResultAfterCleanup`, `Lifecycle` as a refinement, termination under fairness |
| `tracefetch` | both backends; 4 spans in a tree whose last span is not its latest, started from 1 before to 2 after the call; a search of 3 units back with room for 3 spans; timeout 4, retry 2, request limit 3 | `NothingLost` but for what the search left out, `NoEarlyEnd`, `FetchContract` as a refinement, termination |
| `comparator` | ≤2 of 5 expected spans against ≤3 of 4 spans for all comparators, 3 against 3 for contains | answers against the definition by assignments |
| `comparator_greedy` | same | the greedy loop misses a set that is there (finding) |
| `containerfaults` | lists of ≤3 commands, 2 containers, any initial states, 2 runs | `Restored` |
| `throttle` | 3 throttles, two on one container, 2 runs | `Unthrottled`, `OwnRuleOnly` |
| `throttle_atend` | 1 throttle, 1 run | a rule may outlive the test (finding) |
| `playwright` | 3 requests, 2 runs | `IdIsOfThisRun`, `AnsweredIsReturned`, termination |
| `triggers` | complete sections of every type, each with one argument less, unknown options; 3 kinds of header; 3 runs | `NoCrossTalk`, `ReturnedWasReceived`, `ConnectionsClosed`, `OwnWorkIsFetched`, `Returns` |
| `traces` | lists of 3 Jaeger spans over 3 ids, 4 parents, 2 times; of 4 distinct spans, all parent choices, 4 orders; pairs with every status, service and operation; 4 OpenObserve spans at 5 times, searched for 3; 0, 3 or 10 other runs | `ParentFirstAndOnce`, `LossExplained`, `WalksInPreorder` (cycles and repeated IDs too), `MatchesPreorder` (proper traces), cut, rounding, percentiles, one report, `SortTerminates` |
| `traces_errorrate` | pairs of Jaeger spans with and without `ERROR` | a trace with an error counts as one without (finding) |
| `commands` | 116 test files beside a plain one, run once, twice or checked; all combinations of flags; names and directories | `CreatedIsRunnable`, `NothingRunsUnlessAllValid`, `ReportsAgree` |

*Why the bounds are enough.* Two commands, two runs and two tests are the least
with an order to get wrong, a second run to dirty and a test to forget. Fetch
needs a deadline that leaves time for two ticks, a request longer than a tick and
one that lasts beyond the deadline. A search with room for three of four spans,
ingested in any order, lets a late span push out one that was received; one of
three units back, asked again up to the sixth, finds all of them, some and none. A
cycle, a repeated and an unknown ID fit in three spans; a subtree between two
siblings needs four. Two expected spans can overlap in a third span. Two throttles
on one interface and a second run are needed for a helper to meet another's rule
and for an old id to be used. Three requests are one in the channel, one dropped
and one late; a second run could find what the first one left. Three runs of a
trigger let a late request skip one. A search of three among four spans cuts one,
and a grain of four makes two neighbouring times equal and leaves others apart; of
eleven durations the nearest rank of 90 per cent is the tenth, neither the last
nor the one rounded down, while of one and three it is the last. A test file has
one mistake at a time, in any part of it: files, flags and parts are dealt with
one after the other and do not look at each other.

*Fairness.* `TestRun` and `TraceBuild` are sequential code in which every step
returns: weak fairness of the program's steps. Calls are assumed to return (HTTP
clients have timeouts; a shell command or a Playwright test that hangs for ever
makes mtracer hang). `TraceFetch` has weak fairness of time, of the loop's own
steps and of the end of a request (the HTTP client limits it to 30 s), and strong
fairness of taking the timeout: after the deadline every `select` finds the timer
ready, and Go picks among ready channels at random, so a loop that came back for
ever would pick it some day. Spans need not arrive: `Ingest` has no fairness.
`PlaywrightTrigger` has weak fairness of `Trigger` (a Playwright test has a time
limit of its own, so npx ends) and of each handler's goroutine; a browser need not
ask. `Triggers` has weak fairness of the steps of an HTTP or NATS
call: `net/http` has a timeout of 10 s, `Flush` one of 10 s and a JetStream publish
one of 5 s, after which the call goes on; the network, the target, the NATS client
and RPCs have none (an RPC has no deadline, and `Returns` leaves gRPC out). No
other run needs fairness, for they check safety only. `triggers` is the one run
that does not check for deadlock: a section that is refused, or the end of the
last run, really is the end.

### Findings

1. An unordered comparison can fail although each expected span has a span of
   its own: `matchUnorderedSubset` is greedy. `UnorderedCompleteIfDisjoint` shows
   when it cannot: expected spans that match the same spans, or none in common.
2. A delay may outlive the test: `Unthrottle` gives up when its exec fails and
   leaves the helper, which goes on to add its rule. `Unthrottled` shows when it
   cannot: no cleanup begins while a helper is installing, no call is lost, and
   no detached delete is cut off by the stop.
3. The error rate of traces does not count a Jaeger trace whose span has the
   status `ERROR` (`adapter.go:111`), though the error rate of that span does
   (`analytics/domain.go:30`). OpenObserve's status is compared exactly as well.

Remarks, visible in the models and without a run of their own:

* `lastSpan` ends the polling only when it matches the span at the end of the
  depth-first order (`adapter.go:44`), not wherever it is in the trace; the guard
  of `GetSucceeds` says so, and `NoEarlyEnd` is stated for it.
* A trace in OpenObserve may lose spans between two answers
  (`openobserve/adapter.go:37` replaces it): a span ingested late pushes the last
  of a full trace out, and the window of the search leaves the first behind. The
  trace that `Fetch` returns is the last answer, not the largest.
* The cleanup of a failed or ineffective container command changes the
  environment instead of restoring it. `Restored` shows when it cannot: each
  command found its container in the state it is written for.
* A delay may not be in force while the test runs: `Throttle` does not wait for
  the helper's `tc qdisc add`, nor learn that it failed.
* A gRPC trigger has no deadline and drops the error of the call; a NATS message
  written just before the connection broke is lost although `Flush` succeeds on
  the next one; after a reconnect an NKey cannot sign in, for it was wiped.
* A traceparent in the test file's headers stays in front of mtracer's for HTTP
  and gRPC: the trace that is fetched is not the one the target wrote to.
* An unknown `checker` passes validation and `check`, and the test always fails;
  an expected exit code other than 0 can never be met; a CEL query that is no
  string is dropped without a word; a YAML document `null` panics in `Validate`;
  a span key of analytics may join two kinds of span whose names differ only in
  where a blank is.

## 4. Proofs

Each proof module extends the modules it is about. Every theorem holds for all
values of the constants that satisfy the named `ASSUME`s, which TLC evaluates on
the instances of the runs:

* counts are natural numbers, and one where the validators or flags refuse less
  (`CountsAssumption`, `StageSizesAssumption`, `RunCountAssumption`,
  `TriggersAssumption`, `TriggerAssumption`, `ThrottleAssumption`); timeout and
  retry delay are at least one unit (`TimesAssumption`);
* lists are lists of what they are said to hold (`SetupsAssumption`,
  `QuestionsAssumption`, `CallsAssumption`), and markers for "not there" are no
  values (`NilAssumption`, `MissingAssumption`);
* an answer of a backend is a list of spans with start times and durations, which
  OpenObserve may leave out (`AnswersAssumption`); its search has a window and a
  size (`SearchAssumption`), its numbers a grain (`GrainAssumption`). Nothing is
  assumed of IDs and parents;
* the spans that `Fetch` may receive are finitely many and have start times
  (`SpansAssumption`), and the clock goes on until no search finds one
  (`HorizonAssumption`);
* for the analytics, a millisecond has units, names are in a total order that has
  every name a backend gives, and traces of other runs have durations
  (`UnitAssumption`, `RankAssumption`, `NamesAssumption`, `OtherRunsAssumption`).

The arguments:

* **CommandsProofs.** `CommandsInv` says what each place of the command has
  already refused (`CallInv`); that the files are those of the suites, then those
  of the DTOs, then those still to be parsed, and that all but the last are valid
  (`FilesInv`); that the test under way is the first DTO's (`TestInv`); and that a
  report is what its format makes of the suites, which no longer change while it
  is written (`ReportInv`). `NothingRunsUnlessAllValid` needs the first two parts,
  for a test may run long after the file that could have stopped it was read.
  `CreatedIsRunnable` is the walk from the validators through the defaults to the
  factories. `ReportsAgree` needs, for each walk, that it
  counts what the rows add up to: a test has one row for each of its runs
  (`RowsOfTest`), all tests together one for each pair of test and run
  (`RowsOfAll`), both by counting through a one-to-one map (`ImageSize`); a verdict
  told from a count is that told from the rows (`VerdictByCount`). `SuitesInv`, one
  result per suite when there is one run, makes the walks that look at the first
  result alone the same as the others (`OneRunEach`, `FirstIsAll`).
* **TestRunProofs.** `StackInv` = types, `CleanupMirrorsSetup` and
  `PendingByPlace`. `CleanupMirrorsSetup` is not inductive alone: the end of a run
  forgets the histories, and only `PendingByPlace` says that nothing is pending
  then. Under it `Execute` pushes and `Cleanup` pops, and `PopLemma` says what a
  pop leaves. `CleanupCorrect`, `ResultIsLast` and the refinement of `Lifecycle`
  (`Implements`) follow, for any number of tests, runs and items. `RunInv` adds
  two parts. `ConfirmedByPlace`: what has said yes is exactly what comes before
  the current place of the pipeline; each stage adds its own item, and an empty
  stage is passed over because nothing lies between. That gives `NothingSkipped`
  and `VerdictJustified`. `ReportByPlace`: the suites are those of the tests
  before the current one, and exporters are called after the last. That gives
  `ReportComplete`.
* **ThrottleProofs.** `ThrottleInv` ties the network to the throttlers.
  `HelpersByRun`: a helper of the run under way was created by the command whose
  `id` it is. `RulesAndHelpers`, as long as nothing disturbs a cleanup: helpers are
  alive only for commands of this run that are still to be cleaned up, and the
  rules are those of the helpers that are ready and not deleted. It is an
  invariant only under the condition, but the condition, once lost, stays
  lost; so it is preserved. `Unthrottled` and the action property `OwnRuleOnly`
  follow for any list of throttles, containers and runs.
* **TraceProofs**, in three parts. *Fetch*: `FetchInv` has the types; `Timely`,
  that OpenObserve gives no span that had not started when it was asked; and
  `Recency`: the answer under way and the trace kept lack a received span only
  with an excuse (`Excused`). `SearchExcuses` is the lemma about one search: what
  it finds but leaves out was cut off; so a received span that an answer lacks
  began before the window or was cut off (`ServeExcuses`). Ingestion never takes a
  span away, and the window only moves on, so an excuse stays one (`ExcusesStay`).
  That gives `NothingLost`, `NoEarlyEnd` and the refinement of `FetchContract`,
  for either backend, any spans, start times, window and size. `HitsAreEarliest`
  ties the two uses of the search together: the hits of which TraceBuild makes a
  trace are an outcome of `Earliest`. *Order*: `BuildInv` = `WalkInv` and
  `SpansFromAnswer`. `Frontier` is the part of `WalkInv` that carries the walk:
  what was visited is the result so far, whatever waits on the stack is a root or
  has a visited parent, and of those spans none is forgotten. It gives
  `ParentFirstAndOnce` and, with an empty stack, `LossExplained`, for answers of
  any length with any IDs, parents and cycles. `PreorderInv` says how what waits
  fits with what was walked: everything after the parent of a waiting span is
  below that parent, siblings wait together and in their order, and levels of the
  stack further in have later parents (`LevelsNested`). So a visit may put its
  span at the end of the result without breaking a subtree or overtaking a sibling
  (`PreorderCorrect`, for cyclic answers too). That no ID is left out without a
  cycle follows from a span of least depth among those left out: its parent was
  walked, so `LossExplained` has it. Two pre-orders of one list would part at a
  first place, where each had to come before the other (`WherePreordersPart`): so
  there is one, and it is the result (`TheOnlyPreorder`). Spans that do not start
  together have their place by the number of earlier ones, in whatever order the
  backend sends them (`ReplyOrderIsNoMatter`). Each step of the walk takes an ID
  from those not walked, or leaves these alone and takes a place from the stack
  (`WalkIsBounded`); both are finite, which leaves to `SortTerminates` only that
  steps are taken. `RoundingKeepsOrder` and `CutKeepsParents` rest on three
  lemmas: a sort by start time puts a span at the place that its rank gives it
  (`Ranks`, `Arranged`), rounding is monotone, and a cut is a beginning of that
  order, so what it drops did not start earlier than what it keeps. *Analytics*:
  of numbers in ascending order, the one at place `r` has at least `r` numbers up
  to it, and every smaller number has fewer; the index of the code is the least
  rank that is enough (`IndexIsLeast`). So `PercentilesAreNearestRank`. Two keys
  differ, hence the names of their rows, hence `Before` is a total order
  (positions compare as fractions, by cross products); in a sorted list of a set
  without ties each element has its rank, so there is one (`OneSorting`), and
  `ReportIsUnique`.
* **TraceComparatorProofs.** `ComparatorInv` has the loop invariants. For the
  subsequence loop: a chain for the spans before `i` exists, and every complete
  chain puts `expected[i]` at `j` or later, so the first match is never wrong.
  That gives `OrderedCorrect` both ways for traces of any length and for any
  relation `Equal`; `UnorderedSound` comes from the injective choice kept in
  `used`. `UnorderedCompleteIfDisjoint` needs `GreedyInv`: the used spans are those
  chosen for the expected ones before `i`, and what was passed over was no choice.
  If the greedy loop says no at `i`, the spans that match `expected[i]` are all
  used, by expected spans of the same kind; a complete assignment would map one
  more expected span of that kind into them, against the pigeonhole principle.
* **ContainerFaultsProofs.** `FaultsInv` has `Chain`: each held command leads
  from the environment before it to the next level, from the state it expects.
  `UndoRestores` is the case analysis of one command; `Cleanup` takes the last
  link away. `Restored` holds for any containers, lists and number of runs.
* **PlaywrightTriggerProofs.** `TriggerInv` adds `ChannelInv` to the properties:
  until it is read, the channel holds an ID of this run as soon as a handler has
  offered one, and a request answered before npx ended implies an ID afterwards.
  `IdIsOfThisRun`, `NoHandlerLeft` and `AnsweredIsReturned` follow for any set of
  requests and any number of runs.
* **TriggersProofs.** `TriggersInv` adds three parts to the properties. `IdsInv`:
  a request carries the ID of its run wherever it is, and spans are only where a
  reader finds an ID in it; that is why late requests are harmless. `CallInv`:
  between `Generate` and the return the ID is that of the run, and each connection
  is in use only at its places of the call; only HTTP has an idle one. `FlushInv`:
  on a connection that has held, the message is on its way or has arrived, so an
  answered `Flush` leaves only the latter. `NoCrossTalk`, `ReturnedWasReceived`,
  `ConnectionsClosed` and the action property `OwnWorkIsFetched` follow for any
  test files and any number of runs.

Only model-checked: liveness (`Terminates`, `SortTerminates`, `Returns`), which
the prover does not do; and `MatchesPreorder`, whose reference is a recursive
function over trees and would need induction over data. What it adds to
`PreorderCorrect` and `TheOnlyPreorder` is that the reference, which reads like the
textbook, is the pre-order that these describe by places. What a fold computes
(averages and variances) is part of the report but of no property.

Two theorems say more than a run does. `TheOnlyPreorder` and `ReplyOrderIsNoMatter`
compare lists, not states, with all other lists. The inductive invariants (`RunInv`,
`PreorderInv` and the like) and `WalkUsesUp` hold on the instances of the runs too;
where a run does not name one, the theorems that rest on it state the properties
that the run names.

## 5. Not modelled, and why

HTTP, JSON, YAML, SQL and CEL (libraries); wording and layout of reports; the
commands `create`, `root` and `mangen`, which have no state; generated code and
the copies into it. `CompareProperties` is four independent comparisons. Bodies of
requests and what answers say: no trigger looks at them. The Docker daemon, the
helper's shell, the NATS client, the network, the target and the backend are
external and modelled by what the code relies on; a daemon call that gets no
answer is taken to have had no effect. Random IDs are taken never to repeat.

## 6. State and plan

Every safety and action property of the runs but `MatchesPreorder` is proved, each
with its inductive invariant, and so are the two refinements. No proof is planned.
`ContainerFaults` was considered as a second refinement of `Lifecycle`, and left:
it counts what is held, so the reverse order, which is the promise, would hold by
the shape of the model. Worth modelling next, if the code grows there: a deadline
for RPCs, the wait for a helper to be ready, and a handler of signals; each would
turn one of the remarks above into a property.
