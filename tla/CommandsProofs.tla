--------------------------- MODULE CommandsProofs ---------------------------
(***************************************************************************)
(* Proofs about Commands for any calls: any files, names, flags and any    *)
(* number of runs.                                                         *)
(***************************************************************************)
EXTENDS Commands, SequenceTheorems, FiniteSetTheorems, TLAPS

Working == pc \in Accepted \cup {"parse"}

-----------------------------------------------------------------------------
(* The files of a call that was not refused are a list, and each of them   *)
(* that was read has the fields of a test.                                 *)
LEMMA FilesAreListed ==
    ASSUME call \in Calls, Named \/ call.dir # Broken
    PROVE  /\ Files \in Seq(Range(Files))
           /\ Len(Files) \in Nat /\ DOMAIN Files = 1..Len(Files)
           /\ \A content \in Range(Files) \ {Nil, Broken} : Parsed(content)
<1>1. /\ Files \in Seq(Range(Files))
      /\ \A content \in Range(Files) \ {Nil, Broken} : Parsed(content)
  BY CallsAssumption DEF Named, Files
<1>2. Len(Files) \in Nat /\ DOMAIN Files = 1..Len(Files)
  BY <1>1, LenProperties
<1> QED
  BY <1>1, <1>2

(* A head is an element, and the tail has the others.                      *)
LEMMA HeadAndTail ==
    ASSUME NEW S, NEW s \in Seq(S), s # <<>>
    PROVE  /\ Len(s) \in Nat \ {0} /\ Head(s) = s[1] /\ Head(s) \in S
           /\ Tail(s) \in Seq(S) /\ Len(Tail(s)) = Len(s) - 1
           /\ \A k \in 1..Len(Tail(s)) : Tail(s)[k] = s[k + 1]
<1>1. Len(s) \in Nat \ {0}
  BY EmptySeq, LenProperties
<1>2. Head(s) = s[1] /\ Head(s) \in S /\ Tail(s) \in Seq(S)
  BY <1>1, HeadTailProperties, ElementOfSeq
<1>3. Len(Tail(s)) = Len(s) - 1 /\ \A k \in 1..Len(Tail(s)) : Tail(s)[k] = s[k + 1]
  BY HeadTailProperties
<1> QED
  BY <1>1, <1>2, <1>3

(* A valid file becomes a DTO whose fields of other parts are those of the *)
(* file.                                                                   *)
LEMMA WithDefaultsFields ==
    ASSUME NEW content, Parsed(content)
    PROVE  LET dto == WithDefaults(content)
           IN  /\ dto.name = content.name
               /\ dto.timeout = Default(content.timeout, 60)
               /\ dto.retryDelay = Default(content.retryDelay, 1)
               /\ dto.traces = [k \in DOMAIN content.traces |->
                                   TraceWithDefaults(content.traces[k])]
  BY DEF WithDefaults, Parsed, Fields

(* What the validators let through and the factories accept is runnable:   *)
(* defaults are not nil, an expected trace is nil only for an unknown      *)
(* checker, and no expected span is nil.                                   *)
LEMMA CreatedRuns ==
    ASSUME NEW content, Parsed(content), ValidTest(content),
           Created(WithDefaults(content))
    PROVE  LET dto == WithDefaults(content)
               made == NewTraceTest(dto)
           IN  /\ made.timeout > 0 /\ made.retryDelay > 0 /\ made.wait # Nil
               /\ \A k \in DOMAIN made.expected :
                     made.expected[k] = Nil =>
                         dto.traces[k].checker \notin {Nil, "contains"}
               /\ \A t \in Range(made.expected) :
                     t # Nil => Nil \notin Range(t.spans)
<1> DEFINE dto == WithDefaults(content)
           made == NewTraceTest(dto)
<1>1. /\ dto.timeout = Default(content.timeout, 60)
      /\ dto.retryDelay = Default(content.retryDelay, 1)
      /\ dto.traces = [k \in DOMAIN content.traces |->
                          TraceWithDefaults(content.traces[k])]
  BY WithDefaultsFields
<1>2. made.timeout = dto.timeout /\ made.retryDelay = dto.retryDelay
      /\ made.wait = dto.wait
      /\ made.expected = [k \in DOMAIN dto.traces |-> NewExpectedTrace(dto.traces[k])]
  BY DEF NewTraceTest
<1>3. made.wait # Nil
  BY <1>2 DEF Created
<1>4. made.timeout > 0 /\ made.retryDelay > 0
  <2>1. Positive(content.timeout) /\ Positive(content.retryDelay)
    BY DEF ValidTest, ValidTimes
  <2>2. ASSUME NEW n, Positive(n), NEW d \in Nat \ {0}
        PROVE  Default(n, d) > 0
    <3>1. CASE n = Nil
      BY <3>1 DEF Default
    <3>2. CASE n # Nil
      <4>1. Default(n, d) = n
        BY <3>2 DEF Default
      <4>2. n > 0
        BY <2>2, <3>2 DEF Positive
      <4> QED
        BY <4>1, <4>2
    <3> QED
      BY <3>1, <3>2
  <2>3. Default(content.timeout, 60) > 0
    BY <2>1, <2>2
  <2>4. Default(content.retryDelay, 1) > 0
    BY <2>1, <2>2
  <2> QED
    BY <1>1, <1>2, <2>3, <2>4
<1>5. ASSUME NEW k \in DOMAIN content.traces
      PROVE  /\ content.traces[k] # Nil /\ ValidTrace(content.traces[k])
             /\ {"spans", "ordered", "checker"} \subseteq DOMAIN content.traces[k]
             /\ TraceWithDefaults(content.traces[k]) # Nil
  <2>1. content.traces[k] \in Range(content.traces)
    BY DEF Range
  <2> QED
    BY <2>1 DEF ValidTest, Parsed
<1>6. ASSUME NEW k \in DOMAIN content.traces
      PROVE  /\ dto.traces[k].ordered # Nil
             /\ dto.traces[k].checker # Nil
             /\ dto.traces[k].spans = content.traces[k].spans
             /\ dto.traces[k] # Nil
  <2> DEFINE t == content.traces[k]
  <2>1. /\ "spans" \in DOMAIN t /\ "ordered" \in DOMAIN t /\ "checker" \in DOMAIN t
        /\ TraceWithDefaults(t) # Nil
    BY <1>5
  <2>2. dto.traces[k] = TraceWithDefaults(t)
    BY <1>1
  <2> HIDE DEF t
  <2>3. /\ TraceWithDefaults(t).ordered = Default(t.ordered, TRUE)
        /\ TraceWithDefaults(t).checker = Default(t.checker, "contains")
        /\ TraceWithDefaults(t).spans = t.spans
    BY <2>1 DEF TraceWithDefaults
  <2>4. Default(t.ordered, TRUE) # Nil /\ Default(t.checker, "contains") # Nil
    BY NilAssumption DEF Default
  <2> QED
    BY <2>1, <2>2, <2>3, <2>4 DEF t
<1>7. DOMAIN made.expected = DOMAIN content.traces /\ DOMAIN dto.traces = DOMAIN content.traces
  BY <1>1, <1>2
<1> HIDE DEF dto, made
<1>8. ASSUME NEW k \in DOMAIN made.expected, made.expected[k] = Nil
      PROVE  dto.traces[k].checker \notin {Nil, "contains"}
  BY <1>2, <1>6, <1>7, <1>8 DEF NewExpectedTrace
<1>9. ASSUME NEW t \in Range(made.expected), t # Nil
      PROVE  Nil \notin Range(t.spans)
  <2>1. PICK k \in DOMAIN made.expected : t = made.expected[k]
    BY DEF Range
  <2>2. k \in DOMAIN content.traces
    BY <1>7
  <2>3. t = dto.traces[k]
    BY <1>2, <1>7, <1>9, <2>1 DEF NewExpectedTrace
  <2>4. t.spans = content.traces[k].spans
    BY <1>6, <2>2, <2>3
  <2>5. Nil \notin Range(content.traces[k].spans)
    BY <1>5, <2>2 DEF ValidTrace
  <2> QED
    BY <2>4, <2>5
<1> QED
  BY <1>3, <1>4, <1>8, <1>9 DEF dto, made

-----------------------------------------------------------------------------
(* The steps by what they change: most go from one place to the next, and  *)
(* an ended command stutters.                                              *)
Refuse ==
    GetPathsFails \/ ParseFails \/ ParsePanics \/ NewAdapterFails
        \/ NewExportersFail
Move == NewAdapter \/ NewClient \/ Finish \/ Ended
Deal == Judge \/ SkipTest \/ EndTest
Reporting ==
    \/ EndLoop
    \/ \E format \in exporters : Export(format) \/ ExportFails(format)
    \/ \E format \in analytics : ExportAnalytics(format)
Running == \E passed \in BOOLEAN : RunTest(passed)

LEMMA StepCases ==
    ASSUME Next
    PROVE  \/ GetPaths \/ ParseFile \/ NewExporters \/ CreateTest \/ Running
           \/ Refuse \/ Move \/ Deal \/ Reporting
  BY DEF Next, Step, Prepare, Refuse, Move, Deal, Reporting, Running

(* The call never changes, nor what is read off it.                        *)
LEMMA SameCall ==
    ASSUME Next
    PROVE  /\ call' = call /\ Files' = Files /\ Named' = Named /\ Runs' = Runs
           /\ KnownBackend' = KnownBackend /\ KnownFormats' = KnownFormats
           /\ Defaulted' = Defaulted /\ Suites' = Suites
<1>1. call' = call
  BY DEF Next, Step, Prepare, GetPaths, GetPathsFails, ParseFile, ParseFails,
         ParsePanics, NewAdapter, NewAdapterFails, NewExporters,
         NewExportersFail, NewClient, Stop, Judge, SkipTest, CreateTest,
         EndTest, AddSuite, EndLoop, Finish, RunTest, Export, ExportFails,
         ExportAnalytics, Ended, vars
<1> QED
  BY <1>1 DEF Files, Named, Runs, KnownBackend, KnownFormats, Formats,
              Defaulted, Suites

LEMMA RefuseStep ==
    ASSUME Refuse
    PROVE  /\ pc \in {"start", "parse", "exporters"} /\ pc' \in {"failed", "crashed"}
           /\ UNCHANGED <<call, paths, dtos, exporters, analytics, test, results,
                          suites, reports, ran>>
  BY DEF Refuse, GetPathsFails, ParseFails, ParsePanics, NewAdapterFails,
         NewExportersFail, Stop

LEMMA MoveStep ==
    ASSUME Move
    PROVE  /\ \/ /\ pc = "parse" /\ paths = <<>> /\ KnownBackend
                 /\ pc' = IF call.command = "run" THEN "exporters" ELSE "client"
              \/ pc = "client" /\ pc' \in {"create", "failed"}
              \/ pc = "export" /\ pc' = "done"
              \/ pc \in {"done", "failed", "crashed"} /\ pc' = pc
           /\ UNCHANGED <<call, paths, dtos, exporters, analytics, test, results,
                          suites, reports, ran>>
  BY DEF Move, NewAdapter, NewClient, Finish, Ended, Stop, vars

LEMMA ReportStep ==
    ASSUME Reporting
    PROVE  /\ \/ pc = "create" /\ pc' = "export" /\ exporters' = exporters
              \/ pc = "export" /\ pc' = "export" /\ exporters' \subseteq exporters
           /\ UNCHANGED <<call, paths, dtos, test, results, suites, ran>>
  BY DEF Reporting, EndLoop, Export, ExportFails, ExportAnalytics

(* One test is dealt with: its suite is added and its DTO is taken away.   *)
LEMMA DealStep ==
    ASSUME CommandsInv, Deal
    PROVE  /\ pc \in {"create", "run"} /\ pc' = "create" /\ dtos # <<>>
           /\ test' = Nil /\ results' = <<>> /\ dtos' = Tail(dtos)
           /\ \E verdicts \in Seq(BOOLEAN) :
                 /\ suites' = Append(suites, [name |-> Head(dtos).name,
                                              results |-> verdicts])
                 /\ Len(verdicts) = Runs \/ Len(verdicts) = 1
           /\ UNCHANGED <<call, paths, exporters, analytics, reports, ran>>
<1>1. CASE Judge
  <2>1. Created(Head(dtos)) \in BOOLEAN
    BY DEF Created
  <2>2. <<Created(Head(dtos))>> \in Seq(BOOLEAN) /\ Len(<<Created(Head(dtos))>>) = 1
    BY <2>1
  <2> QED
    BY <1>1, <2>2 DEF Judge, AddSuite, CommandsInv, TestInv
<1>2. CASE SkipTest
  <2>1. <<FALSE>> \in Seq(BOOLEAN) /\ Len(<<FALSE>>) = 1
    OBVIOUS
  <2> QED
    BY <1>2, <2>1 DEF SkipTest, AddSuite, CommandsInv, TestInv
<1>3. CASE EndTest
  <2>1. /\ pc = "run" /\ Len(results) = call.count /\ dtos # <<>>
        /\ test = NewTraceTest(Head(dtos))
        /\ call.command = "run" /\ results \in Seq(BOOLEAN)
    BY <1>3 DEF EndTest, CommandsInv, TestInv, CallInv, SuitesInv
  <2>2. test.name = Head(dtos).name
    BY <2>1 DEF NewTraceTest
  <2>3. Len(results) = Runs
    BY <2>1 DEF Runs
  <2> QED
    BY <1>3, <2>1, <2>2, <2>3 DEF EndTest, AddSuite
<1> QED
  BY <1>1, <1>2, <1>3 DEF Deal

-----------------------------------------------------------------------------
(* What each place has already refused.                                    *)
LEMMA CallKept ==
    ASSUME CommandsInv, Next
    PROVE  CallInv'
<1>1. /\ CallInv /\ call' = call /\ Named' = Named
      /\ KnownBackend' = KnownBackend /\ KnownFormats' = KnownFormats
  BY SameCall DEF CommandsInv
<1>2. CASE GetPaths
  BY <1>1, <1>2 DEF GetPaths, CallInv, Accepted
<1>3. CASE ParseFile \/ CreateTest \/ Running
  BY <1>1, <1>3 DEF ParseFile, CreateTest, Running, RunTest, CallInv, Accepted
<1>4. CASE NewExporters
  BY <1>1, <1>4 DEF NewExporters, CallInv, Accepted
<1>5. CASE Refuse
  BY <1>1, <1>5, RefuseStep DEF CallInv, Accepted
<1>6. CASE Move
  BY <1>1, <1>6, MoveStep DEF CallInv, Accepted
<1>7. CASE Deal
  BY <1>1, <1>7, DealStep DEF CallInv, Accepted
<1>8. CASE Reporting
  BY <1>1, <1>8, ReportStep DEF CallInv, Accepted
<1> QED
  BY <1>2, <1>3, <1>4, <1>5, <1>6, <1>7, <1>8, StepCases

(* The test under way is made of the DTO at the head.                      *)
LEMMA TestKept ==
    ASSUME CommandsInv, Next
    PROVE  TestInv'
<1>1. TestInv
  BY DEF CommandsInv
<1>2. CASE GetPaths
  BY <1>1, <1>2 DEF GetPaths, TestInv
<1>3. CASE ParseFile
  BY <1>1, <1>3 DEF ParseFile, TestInv
<1>4. CASE CreateTest
  BY <1>1, <1>4 DEF CreateTest, TestInv
<1>5. CASE Running
  BY <1>1, <1>5 DEF Running, RunTest, TestInv
<1>6. CASE NewExporters
  BY <1>1, <1>6 DEF NewExporters, TestInv
<1>7. CASE Refuse
  BY <1>1, <1>7, RefuseStep DEF TestInv
<1>8. CASE Move
  BY <1>1, <1>8, MoveStep DEF TestInv
<1>9. CASE Deal
  BY <1>9, DealStep DEF TestInv
<1>10. CASE Reporting
  BY <1>1, <1>10, ReportStep DEF TestInv
<1> QED
  BY <1>2, <1>3, <1>4, <1>5, <1>6, <1>7, <1>8, <1>9, <1>10, StepCases

(* A test runs only after everything was accepted.                         *)
LEMMA RanKept ==
    ASSUME CommandsInv, Next
    PROVE  RanInv'
<1>1. RanInv /\ CallInv /\ call' = call
  BY SameCall DEF CommandsInv
<1>2. CASE GetPaths \/ ParseFile \/ NewExporters \/ CreateTest
  BY <1>1, <1>2 DEF GetPaths, ParseFile, NewExporters, CreateTest, RanInv
<1>3. CASE Running
  BY <1>1, <1>3 DEF Running, RunTest, RanInv, CallInv
<1>4. CASE Refuse
  BY <1>1, <1>4, RefuseStep DEF RanInv
<1>5. CASE Move
  BY <1>1, <1>5, MoveStep DEF RanInv
<1>6. CASE Deal
  BY <1>1, <1>6, DealStep DEF RanInv
<1>7. CASE Reporting
  BY <1>1, <1>7, ReportStep DEF RanInv
<1> QED
  BY <1>2, <1>3, <1>4, <1>5, <1>6, <1>7, StepCases

(* Parsing takes a file from the front of the paths to the end of the      *)
(* DTOs, and dealing with a test takes its DTO to the suites.              *)
LEMMA FilesKept ==
    ASSUME CommandsInv, Next
    PROVE  FilesInv'
<1> DEFINE n == Len(suites)
           m == Len(dtos)
<1>1. /\ FilesInv /\ CallInv
      /\ call' = call /\ Files' = Files /\ Defaulted' = Defaulted
  BY SameCall DEF CommandsInv
<1>2. \A content : GoodFile(content)' <=> GoodFile(content)
  BY DEF GoodFile
<1>3. CASE UNCHANGED <<paths, dtos, suites>> /\
           \/ pc = pc'
           \/ pc' \in {"failed", "crashed"}
           \/ pc = "parse" /\ paths = <<>> /\ pc' \in {"exporters", "client"}
           \/ pc \in Accepted /\ pc' \in {"create", "run", "export", "done"}
           \/ pc = "exporters" /\ pc' = "client"
  BY <1>1, <1>2, <1>3 DEF FilesInv, Accepted
<1>4. CASE GetPaths
  <2>1. pc = "start" /\ paths' = Files /\ dtos' = <<>> /\ suites' = <<>>
        /\ pc' \in {"failed", "parse"} /\ (Named \/ call.dir # Broken)
    BY <1>1, <1>4 DEF GetPaths, FilesInv
  <2>2. Files \in Seq(Range(Files)) /\ Len(Files) \in Nat
    BY <1>1, <2>1, FilesAreListed DEF CallInv
  <2>3. <<>> \in Seq(Defaulted) /\ Len(<<>>) = 0
    OBVIOUS
  <2>4. \A k \in 1..Len(Files) : Files[k] = Files[0 + 0 + k]
    BY <2>2
  <2> QED
    BY <1>1, <2>1, <2>2, <2>3, <2>4 DEF FilesInv, Accepted
<1>5. CASE ParseFile
  <2>1. /\ pc = "parse" /\ pc' = pc /\ paths # <<>> /\ suites' = suites
        /\ GoodFile(Head(paths))
        /\ dtos' = Append(dtos, WithDefaults(Head(paths)))
        /\ paths' = Tail(paths) /\ suites = <<>>
    BY <1>1, <1>5 DEF ParseFile, GoodFile, FilesInv
  <2>2. /\ paths \in Seq(Range(Files)) /\ dtos \in Seq(Defaulted)
        /\ n + m + Len(paths) = Len(Files)
        /\ \A k \in 1..Len(paths) : paths[k] = Files[n + m + k]
        /\ \A k \in 1..m : dtos[k] = WithDefaults(Files[n + k])
        /\ \A k \in 1..(n + m) : GoodFile(Files[k])
    BY <1>1, <2>1 DEF FilesInv, Accepted
  <2>3. n = 0 /\ m \in Nat
    BY <2>1, <2>2
  <2>4. /\ Len(paths) \in Nat \ {0} /\ Head(paths) = paths[1]
        /\ Head(paths) \in Range(Files) /\ Tail(paths) \in Seq(Range(Files))
        /\ Len(Tail(paths)) = Len(paths) - 1
        /\ \A k \in 1..Len(Tail(paths)) : Tail(paths)[k] = paths[k + 1]
    BY <2>1, <2>2, HeadAndTail
  <2>5. WithDefaults(Head(paths)) \in Defaulted
    BY <2>1, <2>4 DEF Defaulted
  <2>6. /\ dtos' \in Seq(Defaulted) /\ Len(dtos') = m + 1
        /\ \A k \in 1..m : dtos'[k] = dtos[k]
        /\ dtos'[m + 1] = WithDefaults(Head(paths))
    BY <2>1, <2>2, <2>5, AppendProperties
  <2>7. Head(paths) = Files[m + 1]
    <3>1. paths[1] = Files[n + m + 1]
      BY <2>2, <2>4
    <3> QED
      BY <2>3, <2>4, <3>1
  <2>8. \A k \in 1..Len(paths') : paths'[k] = Files[Len(suites') + Len(dtos') + k]
    <3> SUFFICES ASSUME NEW k \in 1..Len(Tail(paths))
                 PROVE  Tail(paths)[k] = Files[0 + (m + 1) + k]
      BY <2>1, <2>3, <2>6
    <3>1. k \in Nat /\ k + 1 \in 1..Len(paths)
      BY <2>4
    <3>2. Tail(paths)[k] = Files[n + m + (k + 1)]
      BY <2>2, <2>4, <3>1
    <3>3. n + m + (k + 1) = 0 + (m + 1) + k
      BY <2>3, <3>1
    <3> QED
      BY <3>2, <3>3
  <2>9. \A k \in 1..Len(dtos') : dtos'[k] = WithDefaults(Files[Len(suites') + k])
    <3> SUFFICES ASSUME NEW k \in 1..(m + 1)
                 PROVE  dtos'[k] = WithDefaults(Files[0 + k])
      BY <2>1, <2>3, <2>6
    <3>1. 0 + k = k /\ n + k = k
      BY <2>3
    <3>2. CASE k = m + 1
      BY <2>6, <2>7, <3>1, <3>2
    <3>3. CASE k \in 1..m
      BY <2>2, <2>6, <3>1, <3>3
    <3> QED
      BY <2>3, <3>2, <3>3
  <2>10. \A k \in 1..(Len(suites') + Len(dtos')) : GoodFile(Files[k])
    <3> SUFFICES ASSUME NEW k \in 1..(m + 1)
                 PROVE  GoodFile(Files[k])
      BY <2>1, <2>3, <2>6
    <3>1. CASE k = m + 1
      BY <2>1, <2>7, <3>1
    <3>2. CASE k \in 1..m
      BY <2>2, <2>3, <3>2
    <3> QED
      BY <2>3, <3>1, <3>2
  <2>11. Len(suites') + Len(dtos') + Len(paths') = Len(Files)
    BY <2>1, <2>2, <2>3, <2>4, <2>6
  <2> QED
    BY <1>1, <1>2, <2>1, <2>4, <2>6, <2>8, <2>9, <2>10, <2>11 DEF FilesInv, Accepted
<1>6. CASE Deal
  <2>1. /\ pc \in Accepted /\ pc' = "create" /\ dtos # <<>>
        /\ dtos' = Tail(dtos) /\ paths' = paths /\ paths = <<>>
    BY <1>1, <1>6, DealStep DEF FilesInv, Accepted
  <2>2. /\ dtos \in Seq(Defaulted)
        /\ n + m + 0 = Len(Files)
        /\ \A k \in 1..m : dtos[k] = WithDefaults(Files[n + k])
        /\ \A k \in 1..(n + m) : GoodFile(Files[k])
    BY <1>1, <2>1 DEF FilesInv
  <2>3. n \in Nat /\ Len(suites') = n + 1
    <3>1. suites \in Seq(Suites)
      BY <2>1 DEF CommandsInv, SuitesInv
    <3>2. \E s : suites' = Append(suites, s)
      BY <1>6, DealStep
    <3> QED
      BY <3>1, <3>2
  <2>4. /\ m \in Nat \ {0} /\ Tail(dtos) \in Seq(Defaulted)
        /\ Len(Tail(dtos)) = m - 1
        /\ \A k \in 1..Len(Tail(dtos)) : Tail(dtos)[k] = dtos[k + 1]
    BY <2>1, <2>2, HeadAndTail
  <2>5. \A k \in 1..Len(dtos') : dtos'[k] = WithDefaults(Files[Len(suites') + k])
    <3> SUFFICES ASSUME NEW k \in 1..(m - 1)
                 PROVE  Tail(dtos)[k] = WithDefaults(Files[n + 1 + k])
      BY <2>1, <2>3, <2>4
    <3>1. k + 1 \in 1..m /\ n + (k + 1) = n + 1 + k
      BY <2>3, <2>4
    <3>2. dtos[k + 1] = WithDefaults(Files[n + (k + 1)])
      BY <2>2, <3>1
    <3> QED
      BY <2>4, <3>1, <3>2
  <2>6. Len(suites') + Len(dtos') = n + m
    BY <2>1, <2>3, <2>4
  <2>7. paths' \in Seq(Range(Files)) /\ Len(paths') = 0
    BY <2>1
  <2> QED
    BY <1>1, <1>2, <2>1, <2>2, <2>4, <2>5, <2>6, <2>7 DEF FilesInv, Accepted
<1>7. CASE CreateTest \/ Running
  BY <1>3, <1>7 DEF CreateTest, Running, RunTest, Accepted
<1>8. CASE NewExporters
  BY <1>3, <1>8 DEF NewExporters
<1>9. CASE Refuse
  BY <1>3, <1>9, RefuseStep
<1>10. CASE Move
  BY <1>3, <1>10, MoveStep DEF Accepted
<1>11. CASE Reporting
  BY <1>3, <1>11, ReportStep DEF Accepted
<1> QED
  BY <1>4, <1>5, <1>6, <1>7, <1>8, <1>9, <1>10, <1>11, StepCases

(* Every suite has a verdict, and only one when the tests run once.        *)
LEMMA SuitesKept ==
    ASSUME CommandsInv, Next
    PROVE  SuitesInv'
<1>1. /\ SuitesInv /\ FilesInv /\ CallInv
      /\ Runs' = Runs /\ Suites' = Suites
  BY SameCall DEF CommandsInv
<1>2. CASE /\ suites' = suites /\ results' \in Seq(BOOLEAN)
           /\ pc' \in Accepted => pc \in Accepted \/ suites = <<>>
  <2>1. CASE pc \in Accepted
    BY <1>1, <1>2, <2>1 DEF SuitesInv
  <2>2. CASE suites = <<>>
    <3>1. suites \in Seq(Suites) /\ Len(suites) = 0
      BY <2>2
    <3> QED
      BY <1>1, <1>2, <3>1 DEF SuitesInv
  <2>3. CASE pc' \notin Accepted
    BY <1>2, <2>3 DEF SuitesInv
  <2> QED
    BY <1>2, <2>1, <2>2, <2>3
<1>3. CASE Deal
  <2>1. /\ pc \in Accepted /\ dtos # <<>> /\ results' = <<>>
    BY <1>3, DealStep DEF Accepted
  <2>2. PICK verdicts \in Seq(BOOLEAN) :
           /\ suites' = Append(suites, [name |-> Head(dtos).name,
                                        results |-> verdicts])
           /\ Len(verdicts) = Runs \/ Len(verdicts) = 1
    BY <1>3, DealStep
  <2>3. Runs \in Int /\ Runs >= 1
    <3>1. call.count \in Int
      BY <1>1, CallsAssumption DEF CallInv
    <3>2. call.command = "run" => call.count >= 1
      BY <1>1, <2>1 DEF CallInv
    <3>3. call.command \in {"run", "check"}
      BY <1>1, CallsAssumption DEF CallInv
    <3> QED
      BY <3>1, <3>2, <3>3 DEF Runs
  <2> DEFINE s == [name |-> Head(dtos).name, results |-> verdicts]
  <2>4. Head(dtos) \in Defaulted
    BY <1>1, <2>1, HeadAndTail DEF FilesInv
  <2>5. s \in Suites
    BY <2>4 DEF Suites
  <2>6. s.results = verdicts
    OBVIOUS
  <2> HIDE DEF s
  <2>7. suites \in Seq(Suites)
    BY <1>1, <2>1 DEF SuitesInv
  <2>8. /\ suites' \in Seq(Suites) /\ Len(suites') = Len(suites) + 1
        /\ Len(suites) \in Nat
        /\ \A i \in 1..Len(suites) : suites'[i] = suites[i]
        /\ suites'[Len(suites) + 1] = s
    BY <2>2, <2>5, <2>7, AppendProperties, LenProperties DEF s
  <2>9. ASSUME NEW i \in 1..Len(suites')
        PROVE  /\ Len(suites'[i].results) >= 1
               /\ Runs = 1 => Len(suites'[i].results) = 1
    <3>1. CASE i = Len(suites) + 1
      <4>1. suites'[i].results = verdicts
        BY <2>6, <2>8, <3>1
      <4>2. Len(verdicts) = Runs \/ Len(verdicts) = 1
        BY <2>2
      <4>3. Len(verdicts) >= 1 /\ (Runs = 1 => Len(verdicts) = 1)
        <5>1. CASE Len(verdicts) = 1
          BY <5>1
        <5>2. CASE Len(verdicts) = Runs
          BY <2>3, <5>2
        <5> QED
          BY <4>2, <5>1, <5>2
      <4> QED
        BY <4>1, <4>3
    <3>2. CASE i \in 1..Len(suites)
      BY <1>1, <2>1, <2>8, <3>2 DEF SuitesInv
    <3> QED
      BY <2>8, <3>1, <3>2
  <2>10. <<>> \in Seq(BOOLEAN)
    OBVIOUS
  <2> QED
    BY <1>1, <2>1, <2>8, <2>9, <2>10 DEF SuitesInv
<1>4. CASE Running
  <2>1. PICK passed \in BOOLEAN : RunTest(passed)
    BY <1>4 DEF Running
  <2>2. results' \in Seq(BOOLEAN)
    <3>1. results \in Seq(BOOLEAN) /\ results' = Append(results, passed)
      BY <1>1, <2>1 DEF RunTest, SuitesInv
    <3> QED
      BY <3>1, AppendProperties
  <2> QED
    BY <1>2, <2>1, <2>2 DEF RunTest
<1>5. results \in Seq(BOOLEAN)
  BY <1>1 DEF SuitesInv
<1>6. CASE GetPaths \/ ParseFile \/ NewExporters \/ CreateTest
  BY <1>1, <1>2, <1>5, <1>6
     DEF GetPaths, ParseFile, NewExporters, CreateTest, Accepted
<1>7. CASE Refuse
  BY <1>2, <1>5, <1>7, RefuseStep DEF Accepted
<1>8. CASE Move
  BY <1>1, <1>2, <1>5, <1>8, MoveStep DEF FilesInv, Accepted
<1>9. CASE Reporting
  BY <1>2, <1>5, <1>9, ReportStep DEF Accepted
<1> QED
  BY <1>3, <1>4, <1>6, <1>7, <1>8, <1>9, StepCases

(* What was reported is a report of the suites: they no longer change.     *)
LEMMA ReportKept ==
    ASSUME CommandsInv, Next
    PROVE  ReportInv'
<1>1. ReportInv /\ CallInv /\ call' = call /\ Runs' = Runs
  BY SameCall DEF CommandsInv
<1>2. CASE /\ UNCHANGED <<reports, suites>>
           /\ pc \in {"export", "done"} => pc' \in {"export", "done"}
           /\ pc' \in {"export", "done"} => pc \in {"export", "done"}
  BY <1>1, <1>2 DEF ReportInv
<1>3. CASE reports = <<>> /\ reports' = <<>>
  <2>1. DOMAIN reports' = {}
    BY <1>3
  <2> QED
    BY <1>3, <2>1 DEF ReportInv
<1>4. CASE Deal
  BY <1>1, <1>3, <1>4, DealStep DEF ReportInv
<1>5. CASE EndLoop
  <2>1. reports = <<>> /\ pc' = "export" /\ suites' = suites
    BY <1>1, <1>5 DEF EndLoop, ReportInv
  <2>2. CASE call.command = "check" /\ ~call.quiet
    <3>1. reports' = [f \in {"stdout"} |-> Report(f, 1, suites)]
      BY <1>5, <2>2 DEF EndLoop
    <3>2. Runs = 1
      BY <2>2 DEF Runs
    <3> QED
      BY <1>1, <2>1, <3>1, <3>2 DEF ReportInv
  <2>3. CASE ~(call.command = "check" /\ ~call.quiet)
    BY <1>3, <1>5, <2>1, <2>3 DEF EndLoop
  <2> QED
    BY <2>2, <2>3
<1>6. CASE \E format \in exporters : Export(format)
  <2>1. PICK format \in exporters : Export(format)
    BY <1>6
  <2>2. /\ pc = "export" /\ pc' = pc /\ suites' = suites
        /\ reports' = [f \in DOMAIN reports \cup {format} |->
                          IF f = format THEN Report(format, call.count, suites)
                          ELSE reports[f]]
    BY <2>1 DEF Export
  <2>3. Runs = call.count
    BY <1>1, <2>1 DEF CallInv, Runs
  <2> QED
    BY <1>1, <2>2, <2>3 DEF ReportInv
<1>7. CASE \/ \E format \in exporters : ExportFails(format)
           \/ \E format \in analytics : ExportAnalytics(format)
  BY <1>2, <1>7 DEF ExportFails, ExportAnalytics
<1>8. CASE Reporting
  BY <1>5, <1>6, <1>7, <1>8 DEF Reporting
<1>9. CASE Refuse
  BY <1>1, <1>3, <1>9, RefuseStep DEF ReportInv
<1>10. CASE Move
  BY <1>1, <1>2, <1>3, <1>10, MoveStep DEF ReportInv
<1>11. CASE GetPaths \/ ParseFile \/ NewExporters \/ CreateTest \/ Running
  BY <1>1, <1>3, <1>11
     DEF GetPaths, ParseFile, NewExporters, CreateTest, Running, RunTest, ReportInv
<1> QED
  BY <1>4, <1>8, <1>9, <1>10, <1>11, StepCases

-----------------------------------------------------------------------------
(* The invariant of the commands: what each place has refused, which file  *)
(* became which DTO and which suite, and what was reported.                *)
THEOREM CommandsInvariant == Spec => []CommandsInv
<1>1. Init => CommandsInv
  <2> SUFFICES ASSUME Init
               PROVE  CommandsInv
    OBVIOUS
  <2>1. CallInv
    BY DEF Init, CallInv, Accepted
  <2>2. FilesInv
    BY DEF Init, FilesInv, Accepted
  <2>3. TestInv /\ RanInv
    BY DEF Init, TestInv, RanInv
  <2>4. SuitesInv
    BY DEF Init, SuitesInv, Accepted
  <2>5. ReportInv
    BY DEF Init, ReportInv
  <2> QED
    BY <2>1, <2>2, <2>3, <2>4, <2>5 DEF CommandsInv
<1>2. CommandsInv /\ [Next]_vars => CommandsInv'
  <2>1. ASSUME CommandsInv, Next
        PROVE  CommandsInv'
    BY <2>1, CallKept, FilesKept, TestKept, SuitesKept, RanKept, ReportKept
       DEF CommandsInv
  <2>2. ASSUME CommandsInv, UNCHANGED vars
        PROVE  CommandsInv'
    <3>1. /\ UNCHANGED <<pc, call, paths, dtos, exporters, analytics>>
          /\ UNCHANGED <<test, results, suites, reports, ran>>
      BY <2>2 DEF vars
    <3>2. /\ Named' = Named /\ Files' = Files /\ Runs' = Runs
          /\ KnownBackend' = KnownBackend /\ KnownFormats' = KnownFormats
          /\ Defaulted' = Defaulted /\ Suites' = Suites
      BY <3>1 DEF Named, Files, Runs, KnownBackend, KnownFormats, Formats,
                  Defaulted, Suites
    <3>3. CallInv' /\ FilesInv'
      BY <2>2, <3>1, <3>2 DEF CommandsInv, CallInv, FilesInv
    <3>4. TestInv' /\ SuitesInv'
      BY <2>2, <3>1, <3>2 DEF CommandsInv, TestInv, SuitesInv
    <3>5. RanInv' /\ ReportInv'
      BY <2>2, <3>1, <3>2 DEF CommandsInv, RanInv, ReportInv
    <3> QED
      BY <3>3, <3>4, <3>5 DEF CommandsInv
  <2> QED
    BY <2>1, <2>2
<1> QED
  BY <1>1, <1>2, PTL DEF Spec

(* What is created can run: with times above zero, no nil span and no nil  *)
(* trace but for an unknown checker (validator.go:297-309).                *)
THEOREM Runnable == Spec => []CreatedIsRunnable
<1>1. CommandsInv => CreatedIsRunnable
  <2> SUFFICES ASSUME CommandsInv, test # Nil
               PROVE  /\ test.timeout > 0 /\ test.retryDelay > 0 /\ test.wait # Nil
                      /\ \A k \in DOMAIN test.expected :
                            test.expected[k] = Nil =>
                                Head(dtos).traces[k].checker \notin {Nil, "contains"}
                      /\ \A t \in Range(test.expected) :
                            t # Nil => Nil \notin Range(t.spans)
    BY DEF CreatedIsRunnable
  <2>1. /\ pc = "run" /\ dtos # <<>> /\ Created(Head(dtos))
        /\ test = NewTraceTest(Head(dtos))
    BY DEF CommandsInv, TestInv
  <2>2. Head(dtos) \in Defaulted
    BY <2>1, HeadAndTail DEF CommandsInv, FilesInv, Accepted
  <2>3. PICK content \in Range(Files) :
           GoodFile(content) /\ Head(dtos) = WithDefaults(content)
    BY <2>2 DEF Defaulted
  <2>4. Parsed(content)
    BY <2>1, <2>3, FilesAreListed DEF CommandsInv, CallInv, Accepted, GoodFile
  <2> QED
    BY <2>1, <2>3, <2>4, CreatedRuns DEF GoodFile
<1> QED
  BY <1>1, CommandsInvariant, PTL

(* A wrong call is refused as a whole, before any test runs: every file is *)
(* valid and every name is known (run.go:62-94, tests.go:17).              *)
THEOREM AllOrNothing == Spec => []NothingRunsUnlessAllValid
<1>1. CommandsInv => NothingRunsUnlessAllValid
  <2> SUFFICES ASSUME CommandsInv, ran > 0
               PROVE  /\ \A content \in Range(Files) : GoodFile(content)
                      /\ KnownBackend /\ KnownFormats
                      /\ Len(suites) + Len(dtos) = Len(Files)
    BY DEF NothingRunsUnlessAllValid
  <2>1. call.command = "run" /\ pc \in {"create", "run", "export", "done"}
    BY DEF CommandsInv, RanInv
  <2>2. KnownBackend /\ KnownFormats
    BY <2>1 DEF CommandsInv, CallInv, Accepted
  <2>3. /\ Len(suites) + Len(dtos) + Len(paths) = Len(Files) /\ paths = <<>>
        /\ \A k \in 1..(Len(suites) + Len(dtos)) : GoodFile(Files[k])
    BY <2>1 DEF CommandsInv, FilesInv, Accepted
  <2>4. dtos \in Seq(Defaulted) /\ suites \in Seq(Suites)
    BY <2>1 DEF CommandsInv, FilesInv, SuitesInv, Accepted
  <2>5. Len(suites) + Len(dtos) = Len(Files)
    BY <2>3, <2>4
  <2>6. DOMAIN Files = 1..Len(Files)
    BY <2>1, FilesAreListed DEF CommandsInv, CallInv, Accepted
  <2> QED
    BY <2>2, <2>3, <2>5, <2>6 DEF Range
<1> QED
  BY <1>1, CommandsInvariant, PTL

-----------------------------------------------------------------------------
(* The reports.                                                            *)

\* What the reports are written from.
SuiteList(list) ==
    /\ IsFiniteSet(DOMAIN list)
    /\ \A i \in DOMAIN list : /\ list[i].results \in Seq(BOOLEAN)
                              /\ Len(list[i].results) >= 1

(* As many images as members, if no two have the same one.                 *)
LEMMA ImageSize ==
    ASSUME NEW S, IsFiniteSet(S), NEW f, \A x, y \in S : f[x] = f[y] => x = y
    PROVE  /\ IsFiniteSet({f[x] : x \in S})
           /\ Cardinality({f[x] : x \in S}) = Cardinality(S)
<1> DEFINE image == {f[x] : x \in S}
           g == [x \in S |-> f[x]]
<1>1. g \in [S -> image] /\ \A y \in image : \E x \in S : g[x] = y
  OBVIOUS
<1>2. \A x, y \in S : g[x] = g[y] => x = y
  OBVIOUS
<1> HIDE DEF g, image
<1>3. ExistsBijection(S, image)
  BY <1>1, <1>2 DEF ExistsBijection, Bijection, Injection, Surjection, IsInjective
<1> QED
  BY <1>3, FS_Bijection DEF image

(* The images of a finite set are finitely many.                           *)
LEMMA FiniteImage ==
    ASSUME NEW S, IsFiniteSet(S), NEW f
    PROVE  IsFiniteSet({f[x] : x \in S})
<1> DEFINE image == {f[x] : x \in S}
           g == [x \in S |-> f[x]]
<1>1. g \in Surjection(S, image)
  BY DEF Surjection
<1> HIDE DEF g, image
<1> QED
  BY <1>1, FS_Surjection DEF image

(* The runs of a test are finitely many, and listed by their numbers.      *)
LEMMA RunsOfTest ==
    ASSUME NEW list, SuiteList(list), NEW i \in DOMAIN list
    PROVE  /\ DOMAIN list[i].results = 1..Len(list[i].results)
           /\ Len(list[i].results) \in Nat /\ Len(list[i].results) >= 1
           /\ \A k \in DOMAIN list[i].results : list[i].results[k] \in BOOLEAN
           /\ IsFiniteSet(DOMAIN list[i].results)
           /\ Cardinality(DOMAIN list[i].results) = Len(list[i].results)
<1> DEFINE own == list[i].results
<1>1. own \in Seq(BOOLEAN) /\ Len(own) >= 1
  BY DEF SuiteList
<1> HIDE DEF own
<1>2. /\ DOMAIN own = 1..Len(own) /\ Len(own) \in Nat
      /\ \A k \in DOMAIN own : own[k] \in BOOLEAN
  BY <1>1
<1>3. /\ IsFiniteSet(1..Len(own))
      /\ Cardinality(1..Len(own)) = Len(own)
  BY <1>1, <1>2, FS_Interval
<1> QED
  BY <1>1, <1>2, <1>3 DEF own

\* The rows of test i with one of the given verdicts, and its runs with one.
RowsWith(list, i, allowed) ==
    {r \in AllRows(list) : r.suite = i /\ r.passed \in allowed}

RunsWith(list, i, allowed) ==
    {k \in DOMAIN list[i].results : list[i].results[k] \in allowed}

(* A test has a row for each of its runs, with its verdict.                *)
LEMMA RowsOfTest ==
    ASSUME NEW list, SuiteList(list), NEW i \in DOMAIN list, NEW allowed
    PROVE  Cardinality(RowsWith(list, i, allowed))
              = Cardinality(RunsWith(list, i, allowed))
<1> DEFINE runs == {k \in DOMAIN list[i].results : list[i].results[k] \in allowed}
           row == [k \in runs |-> Row(list, i, k)]
           rows == {r \in AllRows(list) : r.suite = i /\ r.passed \in allowed}
<1>1. IsFiniteSet(runs)
  BY RunsOfTest, FS_Subset
<1>2. \A k, m \in runs : row[k] = row[m] => k = m
  BY DEF Row
<1>3. Cardinality({row[k] : k \in runs}) = Cardinality(runs)
  <2> HIDE DEF row, runs
  <2> QED
    BY <1>1, <1>2, ImageSize
<1>4. rows = {row[k] : k \in runs}
  <2>1. ASSUME NEW r \in rows PROVE \E k \in runs : r = row[k]
    <3>1. PICK j \in DOMAIN list : \E k \in DOMAIN list[j].results : r = Row(list, j, k)
      BY <2>1 DEF AllRows
    <3>2. PICK k \in DOMAIN list[j].results : r = Row(list, j, k)
      BY <3>1
    <3>3. r.suite = j /\ r.passed = list[j].results[k]
      BY <3>2 DEF Row
    <3> QED
      BY <2>1, <3>2, <3>3
  <2>2. ASSUME NEW k \in runs PROVE row[k] \in rows
    <3>1. row[k] = Row(list, i, k) /\ Row(list, i, k) \in AllRows(list)
      BY DEF AllRows
    <3>2. Row(list, i, k).suite = i /\ Row(list, i, k).passed = list[i].results[k]
      BY DEF Row
    <3> QED
      BY <3>1, <3>2
  <2> HIDE DEF row, runs, rows
  <2> QED
    BY <2>1, <2>2
<1> QED
  BY <1>3, <1>4 DEF RowsWith, RunsWith

(* All tests together have a row for every run.                            *)
LEMMA RowsOfAll ==
    ASSUME NEW list, SuiteList(list), NEW verdict
    PROVE  Cardinality({r \in AllRows(list) : r.passed = verdict})
              = Cardinality(HavingOfAll(list, verdict))
<1> DEFINE pairs == HavingOfAll(list, verdict)
           row == [p \in pairs |-> Row(list, p[1], p[2])]
           rows == {r \in AllRows(list) : r.passed = verdict}
           of == [i \in DOMAIN list |-> {<<i, k>> : k \in Having(list[i], verdict)}]
<1>1. \A p \in pairs : \E i \in DOMAIN list : \E k \in DOMAIN list[i].results :
          p = <<i, k>> /\ list[i].results[k] = verdict
  BY DEF HavingOfAll, Having
<1>2. \A i \in DOMAIN list : \A k \in DOMAIN list[i].results :
          list[i].results[k] = verdict => <<i, k>> \in pairs
  BY DEF HavingOfAll, Having
<1>3. IsFiniteSet(pairs)
  <2>1. ASSUME NEW i \in DOMAIN list PROVE IsFiniteSet(of[i])
    <3>1. IsFiniteSet(Having(list[i], verdict))
      BY RunsOfTest, FS_Subset DEF Having
    <3> DEFINE S == Having(list[i], verdict)
               at == [k \in S |-> <<i, k>>]
    <3>2. of[i] = {at[k] : k \in S}
      OBVIOUS
    <3> HIDE DEF S, at
    <3> QED
      BY <3>1, <3>2, FiniteImage DEF S
  <2>2. IsFiniteSet({of[i] : i \in DOMAIN list})
    <3> HIDE DEF of
    <3> QED
      BY FiniteImage DEF SuiteList
  <2>3. pairs = UNION {of[i] : i \in DOMAIN list}
    BY DEF HavingOfAll
  <2> HIDE DEF of, pairs
  <2> QED
    BY <2>1, <2>2, <2>3, FS_UNION
<1>4. \A p, q \in pairs : row[p] = row[q] => p = q
  <2> SUFFICES ASSUME NEW p \in pairs, NEW q \in pairs, row[p] = row[q] PROVE p = q
    OBVIOUS
  <2>1. Row(list, p[1], p[2]).suite = Row(list, q[1], q[2]).suite
        /\ Row(list, p[1], p[2]).run = Row(list, q[1], q[2]).run
    OBVIOUS
  <2>2. p[1] = q[1] /\ p[2] = q[2]
    BY <2>1 DEF Row
  <2> HIDE DEF pairs
  <2> QED
    BY <1>1, <2>2
<1>5. rows = {row[p] : p \in pairs}
  <2>1. ASSUME NEW r \in rows PROVE \E p \in pairs : r = row[p]
    <3>1. PICK j \in DOMAIN list : \E k \in DOMAIN list[j].results : r = Row(list, j, k)
      BY <2>1 DEF AllRows
    <3>2. PICK k \in DOMAIN list[j].results : r = Row(list, j, k)
      BY <3>1
    <3>3. r.passed = list[j].results[k]
      BY <3>2 DEF Row
    <3>4. <<j, k>> \in pairs
      BY <1>2, <2>1, <3>3
    <3> HIDE DEF pairs
    <3>5. row[<<j, k>>] = Row(list, j, k)
      BY <3>4
    <3> QED
      BY <3>2, <3>4, <3>5
  <2>2. ASSUME NEW p \in pairs PROVE row[p] \in rows
    <3>1. PICK i \in DOMAIN list : \E k \in DOMAIN list[i].results :
             p = <<i, k>> /\ list[i].results[k] = verdict
      BY <1>1
    <3>4. PICK k \in DOMAIN list[i].results :
             p = <<i, k>> /\ list[i].results[k] = verdict
      BY <3>1
    <3> HIDE DEF pairs
    <3>2. row[p] = Row(list, i, k)
      BY <3>4
    <3>3. Row(list, i, k) \in AllRows(list) /\ Row(list, i, k).passed = verdict
      BY <3>4 DEF AllRows, Row
    <3> QED
      BY <3>2, <3>3
  <2> HIDE DEF row, pairs, rows
  <2> QED
    BY <2>1, <2>2
<1> HIDE DEF row, pairs, rows
<1>6. Cardinality({row[p] : p \in pairs}) = Cardinality(pairs)
  BY <1>3, <1>4, ImageSize
<1> QED
  BY <1>5, <1>6 DEF rows, pairs

(* The two ways through the suites tell the same when every suite has one  *)
(* result.                                                                 *)
LEMMA FirstIsAll ==
    ASSUME NEW list, \A i \in DOMAIN list : DOMAIN list[i].results = {1}
    PROVE  FirstRows(list) = AllRows(list)
<1>1. \A i \in DOMAIN list :
          {Row(list, i, k) : k \in DOMAIN list[i].results} = {Row(list, i, 1)}
  OBVIOUS
<1> QED
  BY <1>1 DEF FirstRows, AllRows

(* What the rows of all runs add up to, test by test.                      *)
LEMMA Outcomes ==
    ASSUME SuiteList(suites)
    PROVE  /\ Outcome.rows = AllRows(suites)
           /\ Outcome.passed = Cardinality(HavingOfAll(suites, TRUE))
           /\ Outcome.failed = Cardinality(HavingOfAll(suites, FALSE))
           /\ Outcome.testRuns = [i \in DOMAIN suites |-> Len(suites[i].results)]
           /\ Outcome.testPassed =
                [i \in DOMAIN suites |-> Cardinality(Having(suites[i], TRUE))]
           /\ Outcome.testFailed =
                [i \in DOMAIN suites |-> Cardinality(Having(suites[i], FALSE))]
<1> DEFINE rows == AllRows(suites)
           Of(x, allowed) ==
               Cardinality({r \in rows : r.suite = x /\ r.passed \in allowed})
<1>1. /\ Outcome.rows = rows
      /\ Outcome.passed = Cardinality({r \in rows : r.passed})
      /\ Outcome.failed = Cardinality({r \in rows : ~r.passed})
      /\ Outcome.testRuns = [i \in DOMAIN suites |-> Of(i, BOOLEAN)]
      /\ Outcome.testPassed = [i \in DOMAIN suites |-> Of(i, {TRUE})]
      /\ Outcome.testFailed = [i \in DOMAIN suites |-> Of(i, {FALSE})]
  BY DEF Outcome
<1>2. \A r \in rows : r.passed \in BOOLEAN
  <2> SUFFICES ASSUME NEW i \in DOMAIN suites, NEW k \in DOMAIN suites[i].results
               PROVE  Row(suites, i, k).passed \in BOOLEAN
    BY DEF AllRows
  <2>1. suites[i].results[k] \in BOOLEAN
    BY RunsOfTest
  <2> QED
    BY <2>1 DEF Row
<1>3. /\ {r \in rows : r.passed} = {r \in rows : r.passed = TRUE}
      /\ {r \in rows : ~r.passed} = {r \in rows : r.passed = FALSE}
  <2> HIDE DEF rows
  <2> QED
    BY <1>2
<1>4. ASSUME NEW i \in DOMAIN suites
      PROVE  /\ Of(i, BOOLEAN) = Len(suites[i].results)
             /\ \A v \in BOOLEAN : Of(i, {v}) = Cardinality(Having(suites[i], v))
  <2>1. RunsWith(suites, i, BOOLEAN) = DOMAIN suites[i].results
    BY RunsOfTest DEF RunsWith
  <2>2. \A v \in BOOLEAN : Having(suites[i], v) = RunsWith(suites, i, {v})
    BY DEF Having, RunsWith
  <2>3. Of(i, BOOLEAN) = Len(suites[i].results)
    <3>1. Of(i, BOOLEAN) = Cardinality(RowsWith(suites, i, BOOLEAN))
      BY Zenon DEF RowsWith
    <3>2. Cardinality(DOMAIN suites[i].results) = Len(suites[i].results)
      BY RunsOfTest
    <3> HIDE DEF Of
    <3> QED
      BY <2>1, <3>1, <3>2, RowsOfTest
  <2>4. ASSUME NEW v \in BOOLEAN PROVE Of(i, {v}) = Cardinality(Having(suites[i], v))
    <3>1. Of(i, {v}) = Cardinality(RowsWith(suites, i, {v}))
      BY Zenon DEF RowsWith
    <3> HIDE DEF Of
    <3> QED
      BY <2>2, <3>1, RowsOfTest
  <2> QED
    BY <2>3, <2>4
<1>5. /\ Cardinality({r \in rows : r.passed = TRUE}) = Cardinality(HavingOfAll(suites, TRUE))
      /\ Cardinality({r \in rows : r.passed = FALSE}) = Cardinality(HavingOfAll(suites, FALSE))
  BY RowsOfAll
<1> HIDE DEF rows, Of
<1>6. Outcome.rows = rows
  BY <1>1
<1>7. /\ Outcome.passed = Cardinality(HavingOfAll(suites, TRUE))
      /\ Outcome.failed = Cardinality(HavingOfAll(suites, FALSE))
  BY <1>1, <1>3, <1>5
<1>8. Outcome.testRuns = [i \in DOMAIN suites |-> Len(suites[i].results)]
  BY <1>1, <1>4
<1>9. /\ Outcome.testPassed = [i \in DOMAIN suites |-> Cardinality(Having(suites[i], TRUE))]
      /\ Outcome.testFailed = [i \in DOMAIN suites |-> Cardinality(Having(suites[i], FALSE))]
  BY <1>1, <1>4
<1> QED
  BY <1>6, <1>7, <1>8, <1>9 DEF rows

\* The verdict of a test by its runs.
VerdictOf(suite) ==
    IF \A k \in DOMAIN suite.results : suite.results[k] THEN "passed"
    ELSE IF \A k \in DOMAIN suite.results : ~suite.results[k] THEN "failed"
    ELSE "partly"

(* The verdicts, too, can be told from the rows.                           *)
LEMMA OutcomeVerdicts ==
    ASSUME SuiteList(suites)
    PROVE  Outcome.verdicts = [i \in DOMAIN suites |-> VerdictOf(suites[i])]
<1> DEFINE rows == AllRows(suites)
           Told(x) == CASE \A r \in rows : r.suite = x => r.passed -> "passed"
                        [] \A r \in rows : r.suite = x => ~r.passed -> "failed"
                        [] OTHER -> "partly"
<1>1. Outcome.verdicts = [i \in DOMAIN suites |-> Told(i)]
  BY DEF Outcome
<1>2. ASSUME NEW i \in DOMAIN suites PROVE Told(i) = VerdictOf(suites[i])
  <2>1. \A r \in rows : r.suite = i =>
            \E k \in DOMAIN suites[i].results : r.passed = suites[i].results[k]
    BY DEF AllRows, Row
  <2>2. ASSUME NEW k \in DOMAIN suites[i].results
        PROVE  \E r \in rows : r.suite = i /\ r.passed = suites[i].results[k]
    <3>1. Row(suites, i, k) \in rows
      BY DEF AllRows
    <3>2. Row(suites, i, k).suite = i /\ Row(suites, i, k).passed = suites[i].results[k]
      BY DEF Row
    <3> HIDE DEF rows
    <3> QED
      BY <3>1, <3>2
  <2>3. 1 \in DOMAIN suites[i].results
    BY RunsOfTest
  <2> HIDE DEF rows
  <2>4. (\A r \in rows : r.suite = i => r.passed)
            <=> \A k \in DOMAIN suites[i].results : suites[i].results[k]
    BY <2>1, <2>2
  <2>5. (\A r \in rows : r.suite = i => ~r.passed)
            <=> \A k \in DOMAIN suites[i].results : ~suites[i].results[k]
    BY <2>1, <2>2
  <2>6. ~ ((\A k \in DOMAIN suites[i].results : suites[i].results[k])
            /\ (\A k \in DOMAIN suites[i].results : ~suites[i].results[k]))
    BY <2>3
  <2> QED
    BY <2>4, <2>5, <2>6 DEF VerdictOf
<1> HIDE DEF Told
<1> QED
  BY <1>1, <1>2

(* Counting the runs that passed tells the verdict of a test.              *)
LEMMA VerdictByCount ==
    ASSUME NEW list, SuiteList(list), NEW i \in DOMAIN list
    PROVE  LET won == Cardinality(Having(list[i], TRUE))
           IN  VerdictOf(list[i]) = IF won = Len(list[i].results) THEN "passed"
                                    ELSE IF won > 0 THEN "partly" ELSE "failed"
<1> DEFINE own == list[i].results
           S == Having(list[i], TRUE)
           won == Cardinality(S)
<1>1. /\ S = {k \in DOMAIN own : own[k] = TRUE}
      /\ \A k \in DOMAIN own : own[k] \in BOOLEAN
      /\ IsFiniteSet(DOMAIN own) /\ Cardinality(DOMAIN own) = Len(own)
      /\ 1 \in DOMAIN own
  BY RunsOfTest DEF Having
<1>2. VerdictOf(list[i]) = IF \A k \in DOMAIN own : own[k] THEN "passed"
                           ELSE IF \A k \in DOMAIN own : ~own[k] THEN "failed"
                           ELSE "partly"
  BY DEF VerdictOf
<1> HIDE DEF own, S
<1>3. S \subseteq DOMAIN own
  BY <1>1
<1>4. IsFiniteSet(S) /\ won \in Nat /\ (won = Len(own) => S = DOMAIN own)
  BY <1>1, <1>3, FS_Subset, FS_CardinalityType
<1>5. won = 0 <=> S = {}
  BY <1>4, FS_EmptySet
<1>6. won = Len(own) <=> \A k \in DOMAIN own : own[k]
  <2>1. (\A k \in DOMAIN own : own[k]) => S = DOMAIN own
    BY <1>1
  <2>2. S = DOMAIN own => won = Len(own)
    BY <1>1
  <2>3. S = DOMAIN own => \A k \in DOMAIN own : own[k]
    BY <1>1
  <2> QED
    BY <1>4, <2>1, <2>2, <2>3
<1>7. won > 0 <=> ~ \A k \in DOMAIN own : ~own[k]
  <2>1. S = {} <=> \A k \in DOMAIN own : ~own[k]
    BY <1>1
  <2> HIDE DEF won
  <2> QED
    BY <1>4, <1>5, <2>1
<1> HIDE DEF won
<1>8. VerdictOf(list[i]) = IF won = Len(own) THEN "passed"
                           ELSE IF won > 0 THEN "partly" ELSE "failed"
  <2>1. CASE won = Len(own)
    BY <1>2, <1>6, <2>1
  <2>2. CASE won # Len(own) /\ won > 0
    BY <1>2, <1>6, <1>7, <2>2
  <2>3. CASE won # Len(own) /\ ~(won > 0)
    BY <1>2, <1>6, <1>7, <2>3
  <2> QED
    BY <2>1, <2>2, <2>3
<1> QED
  BY <1>8 DEF won, S, own

(* The report of one run of each test tells the same as that of several.   *)
LEMMA OneRunEach ==
    ASSUME NEW list, SuiteList(list), \A i \in DOMAIN list : DOMAIN list[i].results = {1}
    PROVE  /\ Cardinality({i \in DOMAIN list : list[i].results[1]})
                = Cardinality(HavingOfAll(list, TRUE))
           /\ Cardinality({i \in DOMAIN list : ~list[i].results[1]})
                = Cardinality(HavingOfAll(list, FALSE))
           /\ \A i \in DOMAIN list : VerdictOf(list[i])
                = IF list[i].results[1] THEN "passed" ELSE "failed"
<1>1. \A i \in DOMAIN list : list[i].results[1] \in BOOLEAN
  BY RunsOfTest
<1>2. ASSUME NEW v \in BOOLEAN
      PROVE  Cardinality({i \in DOMAIN list : list[i].results[1] = v})
                = Cardinality(HavingOfAll(list, v))
  <2> DEFINE tests == {i \in DOMAIN list : list[i].results[1] = v}
             at == [i \in tests |-> <<i, 1>>]
  <2>1. IsFiniteSet(tests)
    BY FS_Subset DEF SuiteList
  <2>2. \A i \in DOMAIN list :
            {<<i, k>> : k \in Having(list[i], v)} = {<<i, 1>> : j \in tests \cap {i}}
    BY DEF Having
  <2>3. HavingOfAll(list, v) = {at[i] : i \in tests}
    <3>1. \A p : p \in HavingOfAll(list, v) <=>
              \E i \in DOMAIN list : p \in {<<i, k>> : k \in Having(list[i], v)}
      BY DEF HavingOfAll
    <3>2. \A p : p \in HavingOfAll(list, v) <=> \E i \in tests : p = <<i, 1>>
      BY <2>2, <3>1
    <3>3. \A i \in tests : at[i] = <<i, 1>>
      OBVIOUS
    <3> HIDE DEF tests, at
    <3> QED
      BY <3>2, <3>3
  <2>4. \A i, j \in tests : at[i] = at[j] => i = j
    OBVIOUS
  <2> HIDE DEF tests, at
  <2>5. Cardinality({at[i] : i \in tests}) = Cardinality(tests)
    BY <2>1, <2>4, ImageSize
  <2> QED
    BY <2>3, <2>5 DEF tests
<1>3. /\ {i \in DOMAIN list : list[i].results[1]}
            = {i \in DOMAIN list : list[i].results[1] = TRUE}
      /\ {i \in DOMAIN list : ~list[i].results[1]}
            = {i \in DOMAIN list : list[i].results[1] = FALSE}
  BY <1>1
<1>4. \A i \in DOMAIN list : VerdictOf(list[i])
          = IF list[i].results[1] THEN "passed" ELSE "failed"
  BY <1>1 DEF VerdictOf
<1> QED
  BY <1>2, <1>3, <1>4

(* All reports have the same rows, one for every run of every test, and    *)
(* whatever one counts is what these rows add up to (json.go:44,           *)
(* junit.go:26, stdout.go:15, markdown.go:22; README.md:19).               *)
THEOREM ReportsTellTheSame == Spec => []ReportsAgree
<1>1. CommandsInv => ReportsAgree
  <2> SUFFICES ASSUME CommandsInv, NEW format \in DOMAIN reports
               PROVE  \A field \in DOMAIN reports[format] :
                         reports[format][field] = Outcome[field]
    BY DEF ReportsAgree
  <2>1. pc \in {"export", "done"} /\ reports[format] = Report(format, Runs, suites)
    <3>1. CASE pc \notin {"export", "done"}
      <4>1. DOMAIN reports = {}
        BY <3>1 DEF CommandsInv, ReportInv
      <4> QED
        BY <4>1
    <3> QED
      BY <3>1 DEF CommandsInv, ReportInv
  <2>2. /\ suites \in Seq(Suites)
        /\ \A i \in 1..Len(suites) :
              /\ Len(suites[i].results) >= 1
              /\ Runs = 1 => Len(suites[i].results) = 1
    BY <2>1 DEF CommandsInv, SuitesInv, Accepted
  <2>3. DOMAIN suites = 1..Len(suites) /\ Len(suites) \in Nat
    BY <2>2
  <2>4. SuiteList(suites)
    <3>1. ASSUME NEW i \in DOMAIN suites PROVE suites[i].results \in Seq(BOOLEAN)
      <4>1. suites[i] \in Suites
        BY <2>2, <2>3, ElementOfSeq
      <4> QED
        BY <4>1 DEF Suites
    <3>2. IsFiniteSet(1..Len(suites))
      BY <2>3, FS_Interval
    <3> QED
      BY <2>2, <2>3, <3>1, <3>2 DEF SuiteList
  <2>5. Runs \in Int /\ Runs >= 1
    <3>1. call \in Calls /\ (call.command = "run" => call.count >= 1)
      BY <2>1 DEF CommandsInv, CallInv, Accepted
    <3> QED
      BY <3>1, CallsAssumption DEF Runs
  <2>6. ~(Runs > 1) => \A i \in DOMAIN suites : DOMAIN suites[i].results = {1}
    BY <2>2, <2>3, <2>4, <2>5, RunsOfTest
  <2>7. ASSUME NEW field \in DOMAIN JsonReport(suites)
        PROVE  JsonReport(suites)[field] = Outcome[field]
    BY <2>4, Outcomes DEF JsonReport
  <2>8. ASSUME NEW field \in DOMAIN JunitReport(suites)
        PROVE  JunitReport(suites)[field] = Outcome[field]
    <3>1. JunitReport(suites) =
             [rows |-> Outcome.rows, testRuns |-> Outcome.testRuns,
              testFailed |-> Outcome.testFailed]
      BY <2>4, Outcomes, Zenon DEF JunitReport
    <3> QED
      BY <3>1, <2>8
  <2>9. ASSUME NEW field \in DOMAIN StdoutReport(Runs, suites)
        PROVE  StdoutReport(Runs, suites)[field] = Outcome[field]
    BY <2>4, <2>6, Outcomes, FirstIsAll DEF StdoutReport
  <2>10. ASSUME NEW field \in DOMAIN MarkdownRuns(suites)
         PROVE  MarkdownRuns(suites)[field] = Outcome[field]
    <3> DEFINE won == [i \in DOMAIN suites |-> Cardinality(Having(suites[i], TRUE))]
               told == [i \in DOMAIN suites |->
                   CASE won[i] = Len(suites[i].results) -> "passed"
                     [] won[i] # Len(suites[i].results) /\ won[i] > 0 -> "partly"
                     [] OTHER -> "failed"]
    <3>1. MarkdownRuns(suites) =
             [rows |-> AllRows(suites),
              passed |-> Cardinality(HavingOfAll(suites, TRUE)),
              failed |-> Cardinality(HavingOfAll(suites, FALSE)),
              testRuns |-> [i \in DOMAIN suites |-> Len(suites[i].results)],
              testPassed |-> won,
              verdicts |-> told]
      BY DEF MarkdownRuns
    <3>2. ASSUME NEW i \in DOMAIN suites PROVE told[i] = VerdictOf(suites[i])
      BY <2>4, VerdictByCount
    <3>3. told = [i \in DOMAIN suites |-> VerdictOf(suites[i])]
      <4>1. told = [i \in DOMAIN suites |-> told[i]]
        OBVIOUS
      <4> HIDE DEF told
      <4> QED
        BY <3>2, <4>1
    <3>4. told = Outcome.verdicts
      BY <2>4, <3>3, OutcomeVerdicts
    <3>5. won = Outcome.testPassed
      BY <2>4, Outcomes
    <3> HIDE DEF won, told
    <3>6. MarkdownRuns(suites) =
             [rows |-> Outcome.rows, passed |-> Outcome.passed,
              failed |-> Outcome.failed, testRuns |-> Outcome.testRuns,
              testPassed |-> Outcome.testPassed, verdicts |-> Outcome.verdicts]
      BY <2>4, <3>1, <3>4, <3>5, Outcomes, Zenon
    <3> QED
      BY <3>6, <2>10
  <2>11. ASSUME ~(Runs > 1), NEW field \in DOMAIN MarkdownTests(suites)
         PROVE  MarkdownTests(suites)[field] = Outcome[field]
    <3>1. FirstRows(suites) = Outcome.rows
      BY <2>4, <2>6, <2>11, Outcomes, FirstIsAll
    <3>2. /\ Cardinality({i \in DOMAIN suites : suites[i].results[1]}) = Outcome.passed
          /\ Cardinality({i \in DOMAIN suites : ~suites[i].results[1]}) = Outcome.failed
      BY <2>4, <2>6, <2>11, Outcomes, OneRunEach
    <3>3. [i \in DOMAIN suites |-> IF suites[i].results[1] THEN "passed" ELSE "failed"]
             = Outcome.verdicts
      BY <2>4, <2>6, <2>11, OutcomeVerdicts, OneRunEach
    <3> QED
      BY <3>1, <3>2, <3>3 DEF MarkdownTests
  <2>12. ASSUME NEW field \in DOMAIN MarkdownReport(Runs, suites)
         PROVE  MarkdownReport(Runs, suites)[field] = Outcome[field]
    BY <2>10, <2>11, <2>12 DEF MarkdownReport
  <2>13. \/ reports[format] = JsonReport(suites)
         \/ reports[format] = JunitReport(suites)
         \/ reports[format] = StdoutReport(Runs, suites)
         \/ reports[format] = MarkdownReport(Runs, suites)
    BY <2>1 DEF Report
  <2> QED
    BY <2>7, <2>8, <2>9, <2>12, <2>13
<1> QED
  BY <1>1, CommandsInvariant, PTL
=============================================================================
