------------------------------ MODULE TestRun ------------------------------
(***************************************************************************)
(* The orchestrator of mtracer: the loop of cmd/run.go over the parsed     *)
(* tests, and TraceTest.Run (test/tracetest.go), the pipeline one          *)
(* execution of a test goes through:                                       *)
(*                                                                         *)
(*   setup commands -> trigger -> fetch -> properties -> expected traces   *)
(*     -> assertions -> post-execution checks -> deferred cleanups         *)
(*                                                                         *)
(* Covered: every early return, the stack of deferred cleanups, a panic in *)
(* a setup command, a post-execution check or a cleanup, the --count loop, *)
(* a test that cannot be created, exporters and analytics exporters that   *)
(* fail one by one, and a signal that kills the process (mtracer installs  *)
(* no handler).  Not covered: what a stage computes.  Each stage answers   *)
(* yes, no or an error as its environment likes; TraceFetch, SpanSort,     *)
(* TraceComparator, ContainerFaults and Throttle open those boxes.         *)
(***************************************************************************)
EXTENDS Naturals, Sequences, FiniteSets

CONSTANTS
    NTests,          \* tests parsed from the *.mt.yaml files
    RunCount,        \* the --count flag
    NumSetup,        \* setup commands of each test
    NumTraces,       \* expected traces of each test
    NumAssertions,   \* CEL assertions of each test
    NumChecks,       \* post-execution checks of each test
    NumExporters,    \* result exporters, standard output included
    NumAnalytics     \* analytics exporters; none means analytics are off

Tests == 1..NTests

ASSUME CountsAssumption ==
    /\ NTests \in Nat
    /\ RunCount \in Nat \ {0}             \* RunTests refuses --count below 1
    /\ NumExporters \in Nat
    /\ NumAnalytics \in Nat

ASSUME StageSizesAssumption ==
    /\ NumSetup \in [Tests -> Nat]
    /\ NumTraces \in [Tests -> Nat]
    /\ NumAssertions \in [Tests -> Nat]
    /\ NumChecks \in [Tests -> Nat]

VARIABLES
    pc,          \* where the process is
    test,        \* index of the test the outer loop works on
    next,        \* index of the next item of the loop at pc
    deferred,    \* the defer stack of Run: commands whose Cleanup is pending
    verdict,     \* the result Run is about to return
    panicking,   \* a panic unwinds the stack
    results,     \* testResults: verdicts of the finished runs of this test
    suites,      \* the suites handed to the exporters
    executed,    \* history: commands whose Execute returned in this run, in order
    cleaned,     \* history: commands whose Cleanup was entered in this run, in order
    confirmed,   \* history: <<stage, item>> that said yes in this run
    delivered    \* history: <<stage, exporter>> that were called with the suites

vars == <<pc, test, next, deferred, verdict, panicking, results, suites,
          executed, cleaned, confirmed, delivered>>

runVars    == <<deferred, verdict, executed, cleaned, confirmed>>
reportVars == <<test, results, suites, delivered>>

VerifyStages == {"traces", "assertions", "checks"}
ExportStages == {"export", "analytics"}
PipelineStages == {"setup", "fetch", "properties"} \cup VerifyStages
Ended == {"done", "crashed", "killed"}
Locations == PipelineStages \cup {"create", "cleanup"} \cup ExportStages \cup Ended

\* CollectTrace is set exactly when an analytics format was asked for.
CollectTrace == NumAnalytics > 0

\* What a result can be about.
Stages == PipelineStages \cup {"trigger", "create", "done", "none"}

NoVerdict == [passed |-> FALSE, stage |-> "none", item |-> 0, trace |-> FALSE]
Verdicts  == [passed : BOOLEAN, stage : Stages, item : Nat,
              trace : BOOLEAN]

\* A mutant for the model checker: item numbers from 0.
FailedFromZero(stage, item) ==
    [passed |-> FALSE, stage |-> stage, item |-> item - 1,
     trace |-> CollectTrace /\ stage \notin {"create", "setup", "trigger", "fetch"}]

\* A failed TestResult: the stage and item its message names, and whether it
\* carries the trace (only from CompareProperties on, and only when collected).
Failed(stage, item) ==
    [passed |-> FALSE, stage |-> stage, item |-> item,
     trace |-> CollectTrace /\ stage \notin {"create", "setup", "trigger", "fetch"}]

Passed == [passed |-> TRUE, stage |-> "done", item |-> 0, trace |-> CollectTrace]

\* How many items the verification loop at stage s has for the current test.
Items(s) == CASE s = "traces"     -> NumTraces[test]
              [] s = "assertions" -> NumAssertions[test]
              [] s = "checks"     -> NumChecks[test]

-----------------------------------------------------------------------------
Init ==
    /\ pc = "create"
    /\ test = 1
    /\ next = 1
    /\ deferred = <<>>
    /\ verdict = NoVerdict
    /\ panicking = FALSE
    /\ results = <<>>
    /\ suites = <<>>
    /\ executed = <<>>
    /\ cleaned = <<>>
    /\ confirmed = {}
    /\ delivered = {}

(* NewTraceTest succeeds: the first run of the test starts.                *)
CreateTest ==
    /\ pc = "create" /\ test <= NTests
    /\ pc' = "setup" /\ next' = 1
    /\ UNCHANGED <<runVars, reportVars, panicking>>

(* NewTraceTest returns an error: one failed result stands for the test    *)
(* and the loop continues with the next one.                               *)
SkipTest ==
    /\ pc = "create" /\ test <= NTests
    /\ suites' = Append(suites, <<Failed("create", 0)>>)
    /\ test' = test + 1
    /\ UNCHANGED <<pc, next, runVars, results, delivered, panicking>>

-----------------------------------------------------------------------------
(* Run returns r: the pending cleanups run before the caller gets it.      *)
Return(r) ==
    /\ verdict' = r
    /\ pc' = "cleanup"

(* A Go panic: the deferred cleanups still run, then the process dies.     *)
Panic ==
    /\ panicking' = TRUE
    /\ pc' = "cleanup"

\* A mutant for the model checker: the defer statement stands after the error check.
SetupDefersLate(ok) ==
    /\ pc = "setup" /\ next <= NumSetup[test]
    /\ executed' = Append(executed, next)
    /\ IF ok THEN /\ deferred' = Append(deferred, next)
                  /\ confirmed' = confirmed \cup {<<"setup", next>>}
                  /\ next' = next + 1
                  /\ UNCHANGED <<pc, verdict>>
             ELSE Return(Failed("setup", next)) /\ UNCHANGED <<next, confirmed, deferred>>
    /\ UNCHANGED <<cleaned, reportVars, panicking>>

\* A mutant for the model checker: the error of Execute is not looked at.
SetupIgnoresError(ok) ==
    /\ pc = "setup" /\ next <= NumSetup[test]
    /\ executed' = Append(executed, next)
    /\ deferred' = Append(deferred, next)
    /\ confirmed' = IF ok THEN confirmed \cup {<<"setup", next>>} ELSE confirmed
    /\ next' = next + 1
    /\ UNCHANGED <<pc, verdict, cleaned, reportVars, panicking>>

(* Execute of a setup command returns.  Its Cleanup is deferred whether it *)
(* succeeded or not; only then is the error looked at.                     *)
SetupReturns(ok) ==
    /\ pc = "setup" /\ next <= NumSetup[test]
    /\ executed' = Append(executed, next)
    /\ deferred' = Append(deferred, next)
    /\ IF ok THEN /\ confirmed' = confirmed \cup {<<"setup", next>>}
                  /\ next' = next + 1
                  /\ UNCHANGED <<pc, verdict>>
             ELSE Return(Failed("setup", next)) /\ UNCHANGED <<next, confirmed>>
    /\ UNCHANGED <<cleaned, reportVars, panicking>>

(* Execute panics before its defer statement is reached (a shell command   *)
(* with no word in it): nothing is deferred for this command.              *)
SetupPanics ==
    /\ pc = "setup" /\ next <= NumSetup[test]
    /\ Panic
    /\ UNCHANGED <<next, runVars, reportVars>>

(* The setup loop is exhausted: fire the trigger, then sleep.              *)
Trigger(ok) ==
    /\ pc = "setup" /\ next > NumSetup[test]
    /\ next' = 1
    /\ IF ok THEN pc' = "fetch" /\ confirmed' = confirmed \cup {<<"trigger", 1>>}
                  /\ UNCHANGED verdict
             ELSE Return(Failed("trigger", 1)) /\ UNCHANGED confirmed
    /\ UNCHANGED <<deferred, executed, cleaned, reportVars, panicking>>

Fetch(ok) ==
    /\ pc = "fetch"
    /\ IF ok THEN pc' = "properties" /\ confirmed' = confirmed \cup {<<"fetch", 1>>}
                  /\ UNCHANGED verdict
             ELSE Return(Failed("fetch", 1)) /\ UNCHANGED confirmed
    /\ UNCHANGED <<next, deferred, executed, cleaned, reportVars, panicking>>

CompareProperties(ok) ==
    /\ pc = "properties"
    /\ IF ok THEN pc' = "traces" /\ confirmed' = confirmed \cup {<<"properties", 1>>}
                  /\ UNCHANGED verdict
             ELSE Return(Failed("properties", 1)) /\ UNCHANGED confirmed
    /\ UNCHANGED <<next, deferred, executed, cleaned, reportVars, panicking>>

(* One iteration of a verification loop: the next expected trace,          *)
(* assertion or post-execution check.  An error and a "no" both return.    *)
VerifyItem(stage, ok) ==
    /\ pc = stage /\ next <= Items(stage)
    /\ IF ok THEN /\ confirmed' = confirmed \cup {<<stage, next>>}
                  /\ next' = next + 1
                  /\ UNCHANGED <<pc, verdict>>
             ELSE Return(Failed(stage, next)) /\ UNCHANGED <<next, confirmed>>
    /\ UNCHANGED <<deferred, executed, cleaned, reportVars, panicking>>

(* A shell check with no word in its command panics as a setup command     *)
(* does.                                                                   *)
CheckPanics ==
    /\ pc = "checks" /\ next <= NumChecks[test]
    /\ Panic
    /\ UNCHANGED <<next, runVars, reportVars>>

(* A verification loop is exhausted: go on to the next one; after the last *)
(* the test has passed.                                                    *)
EndOfLoop(stage) ==
    /\ pc = stage /\ next > Items(stage)
    /\ next' = 1
    /\ CASE stage = "traces"     -> pc' = "assertions" /\ UNCHANGED verdict
         [] stage = "assertions" -> pc' = "checks" /\ UNCHANGED verdict
         [] stage = "checks"     -> Return(Passed)
    /\ UNCHANGED <<deferred, executed, cleaned, confirmed, reportVars, panicking>>

-----------------------------------------------------------------------------
\* A mutant for the model checker: cleanups in the order of the setup.
RunCleanupInOrder(panics) ==
    /\ pc = "cleanup" /\ deferred # <<>>
    /\ cleaned' = Append(cleaned, Head(deferred))
    /\ deferred' = Tail(deferred)
    /\ panicking' = (panicking \/ panics)
    /\ UNCHANGED <<pc, next, verdict, executed, confirmed, reportVars>>

(* The last deferred Cleanup runs.  Its error is only logged, so it pops   *)
(* the stack whatever happens; a panic in it starts or continues the       *)
(* unwinding.                                                              *)
RunCleanup(panics) ==
    /\ pc = "cleanup" /\ deferred # <<>>
    /\ cleaned' = Append(cleaned, deferred[Len(deferred)])
    /\ deferred' = SubSeq(deferred, 1, Len(deferred) - 1)
    /\ panicking' = (panicking \/ panics)
    /\ UNCHANGED <<pc, next, verdict, executed, confirmed, reportVars>>

\* A mutant for the model checker: the result is stored before the cleanups.
EndRunEarly ==
    /\ pc = "cleanup" /\ ~panicking
    /\ results' = Append(results, verdict)
    /\ pc' = "setup" /\ next' = 1
    /\ UNCHANGED <<test, suites, deferred, verdict, executed, cleaned, confirmed,
                   delivered, panicking>>

\* A mutant for the model checker: the last result of a suite is lost.
EndRunDropsLast ==
    /\ pc = "cleanup" /\ deferred = <<>> /\ ~panicking
    /\ next' = 1
    /\ verdict' = NoVerdict
    /\ executed' = <<>> /\ cleaned' = <<>> /\ confirmed' = {}
    /\ IF Len(results) + 1 < RunCount
         THEN /\ pc' = "setup"
              /\ results' = Append(results, verdict)
              /\ UNCHANGED <<test, suites>>
         ELSE /\ pc' = "create"
              /\ suites' = Append(suites, results)
              /\ results' = <<>>
              /\ test' = test + 1
    /\ UNCHANGED <<deferred, delivered, panicking>>

(* Run has returned: RunTests appends the result and starts the next run,  *)
(* or closes the suite and turns to the next test.                         *)
EndRun ==
    /\ pc = "cleanup" /\ deferred = <<>> /\ ~panicking
    /\ next' = 1
    /\ verdict' = NoVerdict
    /\ executed' = <<>> /\ cleaned' = <<>> /\ confirmed' = {}
    /\ IF Len(results) + 1 < RunCount
         THEN /\ pc' = "setup"
              /\ results' = Append(results, verdict)
              /\ UNCHANGED <<test, suites>>
         ELSE /\ pc' = "create"
              /\ suites' = Append(suites, Append(results, verdict))
              /\ results' = <<>>
              /\ test' = test + 1
    /\ UNCHANGED <<deferred, delivered, panicking>>

(* No frame recovers: the process dies, and the results with it.           *)
Crash ==
    /\ pc = "cleanup" /\ deferred = <<>> /\ panicking
    /\ pc' = "crashed"
    /\ UNCHANGED <<next, runVars, reportVars, panicking>>

-----------------------------------------------------------------------------
(* After the last test, the exporters get the suites.                      *)
StartExport ==
    /\ pc = "create" /\ test > NTests
    /\ pc' = "export" /\ next' = 1
    /\ UNCHANGED <<runVars, reportVars, panicking>>

\* A mutant for the model checker: a failed export is tried again for ever.
ExportToRetries(stage) ==
    /\ pc = stage
    /\ next <= (IF stage = "export" THEN NumExporters ELSE NumAnalytics)
    /\ delivered' = delivered \cup {<<stage, next>>}
    /\ UNCHANGED <<pc, next, test, results, suites, runVars, panicking>>

(* Export returns nil or an error; the error is logged and the loop goes   *)
(* on.  The analytics exporters follow, with the metrics built from the    *)
(* suites.                                                                 *)
ExportTo(stage) ==
    /\ pc = stage
    /\ next <= (IF stage = "export" THEN NumExporters ELSE NumAnalytics)
    /\ delivered' = delivered \cup {<<stage, next>>}
    /\ next' = next + 1
    /\ UNCHANGED <<pc, test, results, suites, runVars, panicking>>

StartAnalytics ==
    /\ pc = "export" /\ next > NumExporters /\ CollectTrace
    /\ pc' = "analytics" /\ next' = 1
    /\ UNCHANGED <<runVars, reportVars, panicking>>

Finish ==
    /\ \/ pc = "export" /\ next > NumExporters /\ ~CollectTrace
       \/ pc = "analytics" /\ next > NumAnalytics
    /\ pc' = "done"
    /\ UNCHANGED <<next, runVars, reportVars, panicking>>

(* A signal kills the process wherever it is: no deferred call runs.       *)
Interrupt ==
    /\ pc \notin Ended
    /\ pc' = "killed"
    /\ UNCHANGED <<next, runVars, reportVars, panicking>>

(* The process has ended.                                                  *)
Terminated ==
    /\ pc \in Ended
    /\ UNCHANGED vars

-----------------------------------------------------------------------------
(* What mtracer itself does, whatever its environment answers.             *)
Step ==
    \/ CreateTest
    \/ SkipTest
    \/ \E ok \in BOOLEAN : SetupReturns(ok)
    \/ SetupPanics
    \/ \E ok \in BOOLEAN : Trigger(ok)
    \/ \E ok \in BOOLEAN : Fetch(ok)
    \/ \E ok \in BOOLEAN : CompareProperties(ok)
    \/ \E stage \in VerifyStages, ok \in BOOLEAN : VerifyItem(stage, ok)
    \/ CheckPanics
    \/ \E stage \in VerifyStages : EndOfLoop(stage)
    \/ \E panics \in BOOLEAN : RunCleanup(panics)
    \/ EndRun
    \/ Crash
    \/ StartExport
    \/ \E stage \in ExportStages : ExportTo(stage)
    \/ StartAnalytics
    \/ Finish

Next == Step \/ Interrupt \/ Terminated

Spec == Init /\ [][Next]_vars

(* The program is sequential and none of its loops waits for anything but  *)
(* a call that returns: it keeps going unless it is killed.                *)
FairSpec == Spec /\ WF_vars(Step)

-----------------------------------------------------------------------------
TypeOK ==
    /\ pc \in Locations
    /\ test \in 1..(NTests + 1)
    /\ next \in Nat \ {0}
    /\ deferred \in Seq(Nat)
    /\ verdict \in Verdicts
    /\ panicking \in BOOLEAN
    /\ results \in Seq(Verdicts)
    /\ suites \in Seq(Seq(Verdicts))
    /\ executed \in Seq(Nat)
    /\ cleaned \in Seq(Nat)
    /\ confirmed \subseteq (Stages \X Nat)
    /\ delivered \subseteq (ExportStages \X Nat)

(* The cleanups that ran are exactly the tail of the executed commands, in *)
(* the opposite order, and the ones still pending are the rest: no command *)
(* that was executed is forgotten, none is cleaned twice or out of order,  *)
(* and none that was never executed is cleaned (Run, tracetest.go:48-64).  *)
CleanupMirrorsSetup ==
    /\ Len(executed) = Len(deferred) + Len(cleaned)
    /\ \A k \in 1..Len(deferred) : deferred[k] = executed[k]
    /\ \A k \in 1..Len(cleaned) : cleaned[k] = executed[Len(executed) + 1 - k]

(* Where the process is decides what can be pending: nothing is cleaned    *)
(* while the pipeline runs, and nothing is pending between runs.           *)
PendingByPlace ==
    /\ pc \in PipelineStages \cup {"cleanup"} => test \in Tests
    /\ pc \in PipelineStages => cleaned = <<>>
    /\ pc \in {"create", "done"} \cup ExportStages =>
         deferred = <<>> /\ executed = <<>> /\ cleaned = <<>>
    /\ pc = "crashed" => deferred = <<>>

(* The part of the inductive invariant about the stack of cleanups.        *)
StackInv == TypeOK /\ CleanupMirrorsSetup /\ PendingByPlace

(* What a test has to get through, and the order it is tried in.           *)
Pipeline(t) ==
    ({"setup"} \X (1..NumSetup[t]))
    \cup {<<"trigger", 1>>, <<"fetch", 1>>, <<"properties", 1>>}
    \cup ({"traces"} \X (1..NumTraces[t]))
    \cup ({"assertions"} \X (1..NumAssertions[t]))
    \cup ({"checks"} \X (1..NumChecks[t]))

Rank == [setup |-> 1, trigger |-> 2, fetch |-> 3, properties |-> 4,
         traces |-> 5, assertions |-> 6, checks |-> 7]

Before(a, b) == \/ Rank[a[1]] < Rank[b[1]]
                \/ a[1] = b[1] /\ a[2] < b[2]

(* No step of the pipeline is taken unless every earlier one said yes: the *)
(* trigger never fires on a broken setup, nothing is verified about a      *)
(* trace that was not fetched (the early returns of Run).                  *)
NothingSkipped ==
    \A b \in confirmed : \A a \in Pipeline(test) : Before(a, b) => a \in confirmed

(* A test passes only if everything said yes, and a failed result blames   *)
(* the first item that did not (the message Run builds from i+1).          *)
VerdictJustified ==
    (pc = "cleanup" /\ verdict # NoVerdict) =>
        IF verdict.passed
          THEN confirmed = Pipeline(test)
          ELSE LET blamed == <<verdict.stage, verdict.item>>
               IN  /\ blamed \in Pipeline(test)
                   /\ confirmed = {a \in Pipeline(test) : Before(a, blamed)}

(* Until it returns, Run has heard yes from exactly what comes before the  *)
(* place where it is, and has no verdict; between runs nothing is kept.    *)
ConfirmedByPlace ==
    /\ pc \in PipelineStages =>
         /\ confirmed = {a \in Pipeline(test) : Before(a, <<pc, next>>)}
         /\ verdict = NoVerdict /\ ~panicking
    /\ pc \in {"fetch", "properties"} => next = 1
    /\ pc \in {"create", "done"} \cup ExportStages =>
         confirmed = {} /\ verdict = NoVerdict /\ ~panicking

(* The exporters see every test, in order, with all of its runs, or with   *)
(* one failed result if it could not be created; and mtracer ends normally *)
(* only after it has called each of them (run.go:113-165).                 *)
ReportComplete ==
    /\ delivered # {} =>
         /\ Len(suites) = NTests
         /\ \A t \in Tests : \/ suites[t] = <<Failed("create", 0)>>
                             \/ /\ Len(suites[t]) = RunCount
                                /\ \A k \in 1..RunCount :
                                     suites[t][k].stage \notin {"none", "create"}
    /\ pc = "done" =>
         delivered = ({"export"} \X (1..NumExporters))
                     \cup ({"analytics"} \X (1..NumAnalytics))

\* A result that Run returns is about something that was tried.
FromRun(r) == r.stage \notin {"none", "create"}

(* The suites are those of the tests dealt with, and an exporter is called *)
(* after the last test, in its turn.                                       *)
ReportByPlace ==
    /\ Len(suites) = test - 1
    /\ \A t \in 1..Len(suites) :
          \/ suites[t] = <<Failed("create", 0)>>
          \/ Len(suites[t]) = RunCount /\ \A k \in 1..RunCount : FromRun(suites[t][k])
    /\ Len(results) < RunCount
    /\ \A k \in 1..Len(results) : FromRun(results[k])
    /\ pc = "cleanup" => panicking \/ FromRun(verdict)
    /\ delivered # {} => test = NTests + 1
    /\ pc \in PipelineStages \cup {"create", "cleanup"} => delivered = {}
    /\ pc = "export" =>
         delivered = {"export"} \X (1..(next - 1)) /\ next <= NumExporters + 1
    /\ pc = "analytics" =>
         /\ delivered = ({"export"} \X (1..NumExporters))
                          \cup ({"analytics"} \X (1..(next - 1)))
         /\ next <= NumAnalytics + 1
    /\ pc \in ExportStages \cup {"done"} => test = NTests + 1

(* The inductive invariant of TestRunProofs.                               *)
RunInv ==
    StackInv /\ ConfirmedByPlace /\ NothingSkipped /\ VerdictJustified
        /\ ReportByPlace /\ ReportComplete

(* A result is stored only when every executed command of its run has been *)
(* cleaned, unless it stands for a test that was never run: neither the    *)
(* report nor the next run ever overtakes a cleanup (tracetest.go:51-55).  *)
ResultAfterCleanup ==
    [][(results' # results \/ suites' # suites) =>
          \/ test' = test + 1 /\ executed = <<>> /\ pc = "create"
          \/ deferred = <<>> /\ Len(cleaned) = Len(executed)]_vars

(* mtracer ends: none of its loops runs for ever.                          *)
Terminates == <>(pc \in Ended)

-----------------------------------------------------------------------------
(* The view of the environment this program has: what is held is what is   *)
(* still deferred.                                                         *)
Commands == UNION {1..NumSetup[t] : t \in Tests}

Promise == INSTANCE Lifecycle WITH
    Change <- Commands,
    held   <- deferred,
    phase  <- CASE pc \in PipelineStages -> "open"
                [] pc \in {"done", "crashed"} -> "ended"
                [] pc = "killed" -> "killed"
                [] OTHER -> "closed"

(* The program keeps the promise of Lifecycle: changes are undone in the   *)
(* opposite order, and no test starts on the changes of another.           *)
KeepsPromise == Promise!LSpec
=============================================================================
