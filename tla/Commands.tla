------------------------------ MODULE Commands ------------------------------
(***************************************************************************)
(* The commands "mtracer run" and "mtracer check" (package cmd) around the *)
(* tests: the test files are looked up, parsed, given their defaults and   *)
(* validated (package parser), adapter and exporters are made, and each    *)
(* test is created from its DTO and run, or only judged; at the end the    *)
(* reports are written (package export).                                   *)
(*                                                                         *)
(* One run of a test is TestRun's; here it has a verdict.  A DTO is the    *)
(* record of its fields, Nil where the YAML gives none.  Names are in      *)
(* lower case: the code folds those it compares.  Durations are numbers of *)
(* seconds.  Not covered: logging, and the wording and layout of reports.  *)
(***************************************************************************)
EXTENDS Integers, Sequences, FiniteSets, Functions

CONSTANTS
    Calls,    \* the calls: command, flags, configuration, files
    Nil,      \* a nil pointer
    Broken    \* a file that cannot be opened or is no YAML of a test

VARIABLES
    pc,         \* where the command is
    call,       \* the call under way
    paths,      \* the files still to be parsed
    dtos,       \* the DTOs still to be dealt with
    exporters,  \* the formats of the reports still to be written
    analytics,  \* the formats of the analytics still to be written
    test,       \* the test under way, nil between two tests
    results,    \* the verdicts of its runs
    suites,     \* the suites of the tests dealt with
    reports,    \* the reports that were written, by format
    ran         \* history: the number of runs of tests

vars == <<pc, call, paths, dtos, exporters, analytics, test, results, suites,
          reports, ran>>

-----------------------------------------------------------------------------
(* The validators.                                                         *)

Positive(n) == n # Nil => n > 0
NotNegative(n) == n # Nil => n >= 0

SpanKinds == {"internal", "server", "client", "producer", "consumer", "unset",
              "unspecified"}

ValidSpan(s) ==
    /\ s.kind \in SpanKinds \cup {Nil}
    /\ s.status \in {"ok", "error", "unset", Nil}
    /\ Positive(s.max) /\ Positive(s.min)

ValidTrace(t) == \A s \in Range(t.spans) : s # Nil /\ ValidSpan(s)

ValidProperties(p) ==
    p # Nil => /\ Positive(p.max) /\ Positive(p.min)
               /\ NotNegative(p.spanCount) /\ NotNegative(p.errorCount)

ValidAssertion(a) == a.name # "" /\ a.queries # <<>>

ValidCheck(c) == c.name # "" /\ DOMAIN c.args # {}

ValidSetup(s) == s.cmd # ""

\* A mutant for the model checker: the retry delay is not looked at.
ValidTimeout(dto) == Positive(dto.timeout)

ValidTimes(dto) == Positive(dto.timeout) /\ Positive(dto.retryDelay)

ValidTest(dto) ==
    /\ dto.name # ""
    /\ \A s \in Range(dto.setups) : s # Nil /\ ValidSetup(s)
    /\ dto.trigger # Nil
    /\ \A t \in Range(dto.traces) : t # Nil /\ ValidTrace(t)
    /\ ValidProperties(dto.properties)
    /\ \A a \in Range(dto.assertions) : a # Nil /\ ValidAssertion(a)
    /\ \A c \in Range(dto.checks) : c # Nil /\ ValidCheck(c)
    /\ dto.lastSpan # Nil => ValidSpan(dto.lastSpan)
    /\ ValidTimes(dto)

Default(value, default) == IF value = Nil THEN default ELSE value

TypedBy(items, default) ==
    [k \in DOMAIN items |->
        [items[k] EXCEPT !.type = IF @ = "" THEN default ELSE @]]

TraceWithDefaults(t) ==
    [t EXCEPT !.checker = Default(@, "contains"), !.ordered = Default(@, TRUE)]

WithDefaults(dto) ==
    [dto EXCEPT
        !.setups = TypedBy(@, "shell"),
        !.trigger.type = IF @ = "" THEN "http" ELSE @,
        !.wait = Default(@, 5),
        !.traces = [k \in DOMAIN @ |-> TraceWithDefaults(@[k])],
        !.assertions = TypedBy(@, "cel"),
        !.checks = TypedBy(@, "shell"),
        !.timeout = Default(@, 60),
        !.retryDelay = Default(@, 1)]

-----------------------------------------------------------------------------
(* The factories: a test is created, or is refused with an error.          *)

DockerCommands ==
    {"killcontainer", "stopcontainer", "startcontainer", "pausecontainer",
     "unpausecontainer", "execcontainer", "delaycontainer",
     "packetlosscontainer", "customqdisccontainer", "composeup"}

\* The arguments of a docker command or of a trigger are complete or not.
CreatesSetup(s) ==
    \/ s.type = "shell" /\ s.cleanup # Nil
    \/ s.type = "docker" /\ s.cmd \in DockerCommands /\ s.complete

TriggerTypes == {"http", "traceid", "nats", "jetstream", "grpc", "playwright"}

CreatesTrigger(t) == t.type \in TriggerTypes /\ t.complete

\* Queries that are no strings are left out.
Programs(a) == SelectSeq(a.queries, LAMBDA q : q # "not a string")

CreatesAssertion(a) ==
    a.type = "cel" /\ \A q \in Range(Programs(a)) : q \in {"bool", "dyn"}

Has(c, arg) == arg \in DOMAIN c.args

CreatesCheck(c) ==
    \/ c.type = "shell" /\ Has(c, "cmd")
    \/ /\ c.type = "sql" /\ Has(c, "query") /\ Has(c, "dsn")
       /\ Has(c, "driverName") => c.args["driverName"] \in {"mysql", "pgx", "sqlite"}

Created(dto) ==
    /\ \A s \in Range(dto.setups) : CreatesSetup(s)
    /\ CreatesTrigger(dto.trigger)
    /\ \A a \in Range(dto.assertions) : CreatesAssertion(a)
    /\ \A c \in Range(dto.checks) : CreatesCheck(c)
    /\ dto.timeout # Nil /\ dto.retryDelay # Nil /\ dto.wait # Nil

\* An expected trace with an unknown checker is made, and is nil.
NewExpectedTrace(t) ==
    IF \/ t.ordered = Nil
       \/ t.checker \notin {"contains", "strict", "startswith", "endswith"}
    THEN Nil ELSE t

ExpectedExitCode(c) ==
    IF Has(c, "expectedExitCode") THEN c.args["expectedExitCode"] ELSE 0

NewTraceTest(dto) ==
    [name |-> dto.name, timeout |-> dto.timeout, retryDelay |-> dto.retryDelay,
     wait |-> dto.wait, lastSpan |-> dto.lastSpan,
     expected |-> [k \in DOMAIN dto.traces |-> NewExpectedTrace(dto.traces[k])],
     programs |-> [k \in DOMAIN dto.assertions |-> Programs(dto.assertions[k])],
     exitCodes |-> {ExpectedExitCode(c) :
                        c \in {x \in Range(dto.checks) : x.type = "shell"}}]

(* A nil expected trace never matches.  A command with an exit code other  *)
(* than 0 is an error before the code is compared with the expected one.   *)
CanPass(t) == Nil \notin Range(t.expected) /\ t.exitCodes \subseteq {0}

-----------------------------------------------------------------------------
(* The reports.  Each format walks through the suites in its own way: it   *)
(* has rows, of all runs or of the first of each test, and some of them    *)
(* count, over all tests or for each of them.  A suite without results is  *)
(* left out, or is a row of its own: there is none (SuitesInv).            *)

Row(list, i, k) ==
    [suite |-> i, name |-> list[i].name, run |-> k, passed |-> list[i].results[k]]

AllRows(list) ==
    UNION {{Row(list, i, k) : k \in DOMAIN list[i].results} : i \in DOMAIN list}

FirstRows(list) == {Row(list, i, 1) : i \in DOMAIN list}

\* The runs of a test, and those of all tests, that ended in this way.
Having(suite, verdict) ==
    {k \in DOMAIN suite.results : suite.results[k] = verdict}

HavingOfAll(list, verdict) ==
    UNION {{<<i, k>> : k \in Having(list[i], verdict)} : i \in DOMAIN list}

JsonReport(list) == [rows |-> AllRows(list)]

\* A mutant for the model checker: the count does not start anew with a test.
JunitCountsOn(list) ==
    [rows |-> AllRows(list),
     testRuns |-> [i \in DOMAIN list |-> Len(list[i].results)],
     testFailed |-> [i \in DOMAIN list |->
        Cardinality(HavingOfAll([j \in 1..i |-> list[j]], FALSE))]]

JunitReport(list) ==
    [rows |-> AllRows(list),
     testRuns |-> [i \in DOMAIN list |-> Len(list[i].results)],
     testFailed |-> [i \in DOMAIN list |-> Cardinality(Having(list[i], FALSE))]]

StdoutReport(count, list) ==
    [rows |-> IF count > 1 THEN AllRows(list) ELSE FirstRows(list)]

\* Of several runs the report has a count and a verdict for each test.
MarkdownRuns(list) ==
    LET won == [i \in DOMAIN list |-> Cardinality(Having(list[i], TRUE))]
        Verdict(i) == CASE won[i] = Len(list[i].results) -> "passed"
                        [] won[i] # Len(list[i].results) /\ won[i] > 0 -> "partly"
                        [] OTHER -> "failed"
    IN  [rows |-> AllRows(list),
         passed |-> Cardinality(HavingOfAll(list, TRUE)),
         failed |-> Cardinality(HavingOfAll(list, FALSE)),
         testRuns |-> [i \in DOMAIN list |-> Len(list[i].results)],
         testPassed |-> won,
         verdicts |-> [i \in DOMAIN list |-> Verdict(i)]]

MarkdownTests(list) ==
    [rows |-> FirstRows(list),
     passed |-> Cardinality({i \in DOMAIN list : list[i].results[1]}),
     failed |-> Cardinality({i \in DOMAIN list : ~list[i].results[1]}),
     verdicts |-> [i \in DOMAIN list |->
                     IF list[i].results[1] THEN "passed" ELSE "failed"]]

MarkdownReport(count, list) ==
    IF count > 1 THEN MarkdownRuns(list) ELSE MarkdownTests(list)

Report(format, count, list) ==
    CASE format = "json"     -> JsonReport(list)
      [] format = "junit"    -> JunitReport(list)
      [] format = "stdout"   -> StdoutReport(count, list)
      [] OTHER               -> MarkdownReport(count, list)

-----------------------------------------------------------------------------
\* Names on the command line go before the directory.
FilesOf(c) ==
    IF c.args # <<>> THEN [k \in DOMAIN c.args |-> c.args[k].content] ELSE c.dir

\* What YAML makes of a file: every field of TestDTO has a value, if only nil.
Fields == {"name", "setups", "trigger", "wait", "traces", "properties",
           "assertions", "checks", "lastSpan", "timeout", "retryDelay"}

Parsed(content) ==
    /\ Fields \subseteq DOMAIN content
    /\ \A t \in Range(content.traces) \ {Nil} :
          /\ {"spans", "ordered", "checker"} \subseteq DOMAIN t
          /\ TraceWithDefaults(t) # Nil

ASSUME CallsAssumption ==
    \A c \in Calls :
        /\ c.command \in {"run", "check"} /\ c.count \in Int
        /\ c.args # <<>> \/ c.dir # Broken =>
              /\ FilesOf(c) \in Seq(Range(FilesOf(c)))
              /\ \A content \in Range(FilesOf(c)) \ {Nil, Broken} : Parsed(content)

ASSUME NilAssumption == Nil \notin BOOLEAN /\ Nil # "contains"

Init ==
    /\ pc = "start" /\ call \in Calls
    /\ paths = <<>> /\ dtos = <<>> /\ exporters = {} /\ analytics = {}
    /\ test = Nil /\ results = <<>> /\ suites = <<>> /\ reports = <<>>
    /\ ran = 0

Stop(why) ==
    /\ pc' = why
    /\ UNCHANGED <<call, paths, dtos, exporters, analytics, test, results,
                   suites, reports, ran>>

\* Named files get their suffix; without names the directory is walked.
Named == call.args # <<>>
Files == FilesOf(call)
RefusedName(arg) == arg.form \in {"directory", "other suffix"}

GetPathsFails ==
    /\ pc = "start"
    /\ \/ call.command = "run" /\ call.count < 1
       \/ Named /\ \E arg \in Range(call.args) : RefusedName(arg)
       \/ ~Named /\ call.dir = Broken
    /\ Stop("failed")

GetPaths ==
    /\ pc = "start"
    /\ call.command = "run" => call.count >= 1
    /\ IF Named THEN \A arg \in Range(call.args) : ~RefusedName(arg)
                ELSE call.dir # Broken
    /\ paths' = Files
    /\ pc' = IF paths' = <<>> THEN "failed" ELSE "parse"
    /\ UNCHANGED <<call, dtos, exporters, analytics, test, results, suites,
                   reports, ran>>

\* One file that is not valid ends the command.
ParseFails ==
    /\ pc = "parse" /\ paths # <<>>
    /\ Head(paths) # Nil
    /\ Head(paths) # Broken => ~ValidTest(Head(paths))
    /\ Stop("failed")

\* The document null gives no DTO, and Validate reads its name.
ParsePanics ==
    /\ pc = "parse" /\ paths # <<>> /\ Head(paths) = Nil
    /\ Stop("crashed")

\* A mutant for the model checker: a file that is not valid is left out.
ParseSkips ==
    /\ pc = "parse" /\ paths # <<>> /\ Head(paths) # Nil
    /\ dtos' = IF Head(paths) = Broken THEN dtos
               ELSE IF ValidTest(Head(paths))
                    THEN Append(dtos, WithDefaults(Head(paths))) ELSE dtos
    /\ paths' = Tail(paths)
    /\ UNCHANGED <<pc, call, exporters, analytics, test, results, suites,
                   reports, ran>>

ParseFile ==
    /\ pc = "parse" /\ paths # <<>>
    /\ Head(paths) \notin {Nil, Broken} /\ ValidTest(Head(paths))
    /\ dtos' = Append(dtos, WithDefaults(Head(paths)))
    /\ paths' = Tail(paths)
    /\ UNCHANGED <<pc, call, exporters, analytics, test, results, suites,
                   reports, ran>>

KnownBackend == call.backend \in {"openobserve", "jaeger"}

\* "check" has no exporters and goes on with the Docker client.
NewAdapter ==
    /\ pc = "parse" /\ paths = <<>> /\ KnownBackend
    /\ pc' = IF call.command = "run" THEN "exporters" ELSE "client"
    /\ UNCHANGED <<call, paths, dtos, exporters, analytics, test, results,
                   suites, reports, ran>>

NewAdapterFails ==
    /\ pc = "parse" /\ paths = <<>> /\ ~KnownBackend
    /\ Stop("failed")

\* "md" is short for markdown, and a format counts once.
Formats ==
    {IF f = "md" THEN "markdown" ELSE f : f \in Range(call.formats)}
        \cup (IF call.quiet THEN {} ELSE {"stdout"})

KnownFormats ==
    /\ Formats \subseteq {"json", "junit", "markdown", "stdout"}
    /\ Range(call.analytics) \subseteq {"json", "html"}

NewExporters ==
    /\ pc = "exporters" /\ KnownFormats
    /\ exporters' = Formats
    /\ analytics' = Range(call.analytics)
    /\ pc' = "client"
    /\ UNCHANGED <<call, paths, dtos, test, results, suites, reports, ran>>

NewExportersFail ==
    /\ pc = "exporters" /\ ~KnownFormats
    /\ Stop("failed")

\* The environment of the Docker client may be wrong.
NewClient ==
    /\ pc = "client"
    /\ \/ Stop("create")
       \/ Stop("failed")

-----------------------------------------------------------------------------
AddSuite(name, verdicts) ==
    /\ suites' = Append(suites, [name |-> name, results |-> verdicts])
    /\ dtos' = Tail(dtos)

\* "check" judges a file by whether its test can be created.
Judge ==
    /\ pc = "create" /\ dtos # <<>> /\ call.command = "check"
    /\ AddSuite(Head(dtos).name, <<Created(Head(dtos))>>)
    /\ UNCHANGED <<pc, call, paths, exporters, analytics, test, results,
                   reports, ran>>

SkipTest ==
    /\ pc = "create" /\ dtos # <<>> /\ call.command = "run"
    /\ ~Created(Head(dtos))
    /\ AddSuite(Head(dtos).name, <<FALSE>>)
    /\ UNCHANGED <<pc, call, paths, exporters, analytics, test, results,
                   reports, ran>>

CreateTest ==
    /\ pc = "create" /\ dtos # <<>> /\ call.command = "run"
    /\ Created(Head(dtos))
    /\ test' = NewTraceTest(Head(dtos))
    /\ pc' = "run"
    /\ UNCHANGED <<call, paths, dtos, exporters, analytics, results, suites,
                   reports, ran>>

RunTest(passed) ==
    /\ pc = "run" /\ Len(results) < call.count
    /\ passed => CanPass(test)
    /\ results' = Append(results, passed)
    /\ ran' = ran + 1
    /\ UNCHANGED <<pc, call, paths, dtos, exporters, analytics, test, suites,
                   reports>>

EndTest ==
    /\ pc = "run" /\ Len(results) = call.count
    /\ AddSuite(test.name, results)
    /\ test' = Nil /\ results' = <<>>
    /\ pc' = "create"
    /\ UNCHANGED <<call, paths, exporters, analytics, reports, ran>>

\* "check" shows its verdicts in a table of one run, unless it is quiet.
EndLoop ==
    /\ pc = "create" /\ dtos = <<>>
    /\ pc' = "export"
    /\ reports' = IF call.command = "check" /\ ~call.quiet
                  THEN [f \in {"stdout"} |-> Report(f, 1, suites)] ELSE reports
    /\ UNCHANGED <<call, paths, dtos, exporters, analytics, test, results,
                   suites, ran>>

\* The exporters come from a map, in any order.
Export(format) ==
    /\ pc = "export" /\ format \in exporters
    /\ exporters' = exporters \ {format}
    /\ reports' = [f \in DOMAIN reports \cup {format} |->
                    IF f = format THEN Report(format, call.count, suites)
                    ELSE reports[f]]
    /\ UNCHANGED <<pc, call, paths, dtos, analytics, test, results, suites, ran>>

\* A folder or a file that cannot be written costs only this report.
ExportFails(format) ==
    /\ pc = "export" /\ format \in exporters \ {"stdout"}
    /\ exporters' = exporters \ {format}
    /\ UNCHANGED <<pc, call, paths, dtos, analytics, test, results, suites,
                   reports, ran>>

\* Written or not: Analytics has what the analytics say.
ExportAnalytics(format) ==
    /\ pc = "export" /\ exporters = {} /\ format \in analytics
    /\ analytics' = analytics \ {format}
    /\ UNCHANGED <<pc, call, paths, dtos, exporters, test, results, suites,
                   reports, ran>>

Finish ==
    /\ pc = "export" /\ exporters = {} /\ analytics = {}
    /\ Stop("done")

Ended ==
    /\ pc \in {"done", "failed", "crashed"}
    /\ UNCHANGED vars

Prepare ==
    \/ GetPaths \/ GetPathsFails
    \/ ParseFile \/ ParseFails \/ ParsePanics
    \/ NewAdapter \/ NewAdapterFails
    \/ NewExporters \/ NewExportersFail \/ NewClient

Step ==
    \/ Prepare
    \/ Judge \/ SkipTest \/ CreateTest \/ EndTest \/ EndLoop \/ Finish
    \/ \E passed \in BOOLEAN : RunTest(passed)
    \/ \E format \in exporters : Export(format) \/ ExportFails(format)
    \/ \E format \in analytics : ExportAnalytics(format)

Next == Step \/ Ended

Spec == Init /\ [][Next]_vars

-----------------------------------------------------------------------------
(* What the validators let through the later stages can run: a ticker with *)
(* a delay of zero would panic, the fetch needs its times, and the test    *)
(* has no nil span, and no nil trace but for an unknown checker            *)
(* (validator.go:297-309, adapter.go:24, tracetest.go:181-206).            *)
CreatedIsRunnable ==
    test # Nil =>
        /\ test.timeout > 0 /\ test.retryDelay > 0 /\ test.wait # Nil
        /\ \A k \in DOMAIN test.expected :
              test.expected[k] = Nil =>
                  Head(dtos).traces[k].checker \notin {Nil, "contains"}
        /\ \A t \in Range(test.expected) : t # Nil => Nil \notin Range(t.spans)

GoodFile(content) ==
    content \notin {Nil, Broken} /\ ValidTest(content)

(* No test runs, and so nothing is changed in the environment, unless      *)
(* every file of the call is valid and every format and the backend are    *)
(* known: a wrong call is refused as a whole (run.go:62-94, tests.go:17).  *)
NothingRunsUnlessAllValid ==
    ran > 0 =>
        /\ \A content \in Range(Files) : GoodFile(content)
        /\ KnownBackend /\ KnownFormats
        /\ Len(suites) + Len(dtos) = Len(Files)

\* What there is to tell of the runs: their rows, and what these add up to.
Outcome ==
    LET rows == AllRows(suites)
        Of(i, verdicts) ==
            Cardinality({r \in rows : r.suite = i /\ r.passed \in verdicts})
        Each(verdicts) == [i \in DOMAIN suites |-> Of(i, verdicts)]
    IN  [rows       |-> rows,
         passed     |-> Cardinality({r \in rows : r.passed}),
         failed     |-> Cardinality({r \in rows : ~r.passed}),
         testRuns   |-> Each(BOOLEAN),
         testPassed |-> Each({TRUE}),
         testFailed |-> Each({FALSE}),
         verdicts   |-> [i \in DOMAIN suites |->
                            CASE \A r \in rows : r.suite = i => r.passed -> "passed"
                              [] \A r \in rows : r.suite = i => ~r.passed -> "failed"
                              [] OTHER -> "partly"]]

(* The reports of a command agree, though each is written by a walk of its *)
(* own: each has a row for every run of every test, and whatever it counts *)
(* is what these rows add up to (json.go:44, junit.go:26, stdout.go:15,    *)
(* markdown.go:22; README.md:19).                                          *)
ReportsAgree ==
    \A format \in DOMAIN reports : \A field \in DOMAIN reports[format] :
        reports[format][field] = Outcome[field]

-----------------------------------------------------------------------------
(* The inductive invariant behind these properties.                        *)

Accepted == {"exporters", "client", "create", "run", "export", "done"}

\* What each place has already refused.
CallInv ==
    /\ call \in Calls
    /\ pc \in Accepted \cup {"parse"} =>
          /\ Named \/ call.dir # Broken
          /\ call.command = "run" => call.count >= 1
    /\ pc \in Accepted => KnownBackend
    /\ pc \in {"exporters", "run"} => call.command = "run"
    /\ pc \in Accepted \ {"exporters"} /\ call.command = "run" => KnownFormats
    /\ call.command = "check" => exporters = {}

Defaulted == {WithDefaults(content) : content \in {x \in Range(Files) : GoodFile(x)}}
Suites == [name : {dto.name : dto \in Defaulted}, results : Seq(BOOLEAN)]

\* The files are those of the suites, those of the DTOs and those to be parsed.
FilesInv ==
    /\ pc \in Accepted \cup {"parse"} =>
          /\ paths \in Seq(Range(Files)) /\ dtos \in Seq(Defaulted)
          /\ Len(suites) + Len(dtos) + Len(paths) = Len(Files)
          /\ \A k \in 1..Len(paths) : paths[k] = Files[Len(suites) + Len(dtos) + k]
          /\ \A k \in 1..Len(dtos) : dtos[k] = WithDefaults(Files[Len(suites) + k])
          /\ \A k \in 1..(Len(suites) + Len(dtos)) : GoodFile(Files[k])
    /\ pc \in Accepted => paths = <<>>
    /\ pc \in {"start", "parse", "exporters", "client"} => suites = <<>>
    /\ pc = "start" => dtos = <<>>

TestInv ==
    IF pc = "run"
    THEN dtos # <<>> /\ Created(Head(dtos)) /\ test = NewTraceTest(Head(dtos))
    ELSE test = Nil /\ results = <<>>

Runs == IF call.command = "check" THEN 1 ELSE call.count

SuitesInv ==
    /\ results \in Seq(BOOLEAN)
    /\ pc \in Accepted =>
          /\ suites \in Seq(Suites)
          /\ \A i \in 1..Len(suites) :
                /\ Len(suites[i].results) >= 1
                /\ Runs = 1 => Len(suites[i].results) = 1

RanInv ==
    /\ ran \in Nat
    /\ ran > 0 => /\ call.command = "run"
                  /\ pc \in {"create", "run", "export", "done"}

ReportInv ==
    /\ pc \notin {"export", "done"} => reports = <<>>
    /\ \A format \in DOMAIN reports :
          reports[format] = Report(format, Runs, suites)

CommandsInv ==
    CallInv /\ FilesInv /\ TestInv /\ SuitesInv /\ RanInv /\ ReportInv
=============================================================================
