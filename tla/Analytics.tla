------------------------------ MODULE Analytics ------------------------------
(***************************************************************************)
(* The analytics of the traces of a test (package analytics): what Build   *)
(* computes of the durations, counts and spans, and what the JSON and HTML *)
(* exporters write of it.  The traces are the one TraceBuild has built and *)
(* those of other runs of the test, nil for a run without a trace.         *)
(*                                                                         *)
(* An average or a rate is a pair of numerator and denominator, and so is  *)
(* the square of a standard deviation.  A name is a value with its words   *)
(* (Words) and its place in the alphabet (Rank).  Not covered: the layout  *)
(* of the reports.                                                         *)
(***************************************************************************)
EXTENDS TraceBuild

CONSTANTS
    OtherRuns,   \* lists of the traces of the other runs of the test
    NoTrace,     \* the nil trace of a run that failed before it had one
    PerMilli,    \* units of time in a millisecond
    Words(_),    \* a name split at its blanks and dashes
    Rank         \* the place of each name in the order of strings.Compare

ASSUME UnitAssumption == PerMilli \in Nat \ {0}

ASSUME RankAssumption ==
    \A a, b \in DOMAIN Rank :
        Rank[a] \in Int /\ (Rank[a] = Rank[b] => a = b)

\* Every name that a backend gives is in that order.
ASSUME NamesAssumption ==
    /\ NoId \in DOMAIN Rank
    /\ \A a \in Answers :
          IF a.backend = "jaeger"
          THEN /\ Range(a.processes) \subseteq DOMAIN Rank
               /\ \A s \in Range(a.spans) : s.operation \in DOMAIN Rank
          ELSE \A s \in Range(a.spans) :
                  {s.service, s.operation} \subseteq DOMAIN Rank \cup {Missing}

\* A trace of another run has a duration, and so has each of its spans.
ASSUME OtherRunsAssumption ==
    \A others \in OtherRuns :
        /\ others \in Seq(Range(others))
        /\ \A t \in Range(others) \ {NoTrace} :
              /\ t.duration \in Int
              /\ t.spans \in Seq(Range(t.spans))
              /\ \A s \in Range(t.spans) :
                    /\ s.duration \in Int
                    /\ s.service \in DOMAIN Rank /\ s.operation \in DOMAIN Rank

\* Whole milliseconds, rounded towards zero.
Milliseconds(duration) ==
    IF duration < 0 THEN -((-duration) \div PerMilli) ELSE duration \div PerMilli

Collected(others) ==
    LET all == Append(others, Trace)
    IN  Keep(all, {k \in DOMAIN all : all[k] # NoTrace})

\* Every span of the traces, by its trace and its place in it.
SpanPlaces(traces) ==
    UNION {{<<i, k>> : k \in DOMAIN traces[i].spans} : i \in DOMAIN traces}

SpanAt(p, traces) == traces[p[1]].spans[p[2]]

\* Blanks become dashes and a dash joins the names: words of different
\* names may make the same key.
GetSpanKey(s) == Words(s.service) \o Words(s.operation)

SpanKeys(traces) == {GetSpanKey(SpanAt(p, traces)) : p \in SpanPlaces(traces)}

PlacesOf(key, traces) ==
    {p \in SpanPlaces(traces) : GetSpanKey(SpanAt(p, traces)) = key}

\* Trace by trace, and in a trace in the order of its spans.
Earlier(p, places) ==
    {q \in places : q[1] < p[1] \/ (q[1] = p[1] /\ q[2] < p[2])}

\* What is noted of each span with this key.
Occurrences(key, traces) ==
    LET places == PlacesOf(key, traces)
    IN  Arrange([p \in places |->
                    [span |-> SpanAt(p, traces), position |-> p[2] - 1,
                     whole |-> Milliseconds(traces[p[1]].duration)]],
                [p \in places |-> Earlier(p, places)])

\* slices.Sort of numbers.
Ascending(numbers) ==
    Arrange(numbers, [i \in DOMAIN numbers |->
        {j \in DOMAIN numbers : \/ numbers[j] < numbers[i]
                                \/ numbers[j] = numbers[i] /\ j < i}])

DurationsOf(traces) ==
    [i \in DOMAIN traces |-> Milliseconds(traces[i].duration)]

SpanDurations(occurrences) ==
    [k \in DOMAIN occurrences |-> Milliseconds(occurrences[k].span.duration)]

SpansData(occurrences) ==
    [occurrences |-> occurrences,
     sortedDurations |-> Ascending(SpanDurations(occurrences))]

TracesData(traces) ==
    [traces |-> traces, sortedDurations |-> Ascending(DurationsOf(traces)),
     spansData |-> {SpansData(list) :
                        list \in {Occurrences(key, traces) : key \in SpanKeys(traces)}}]

\* What the analytics of a test may be computed from.
TestData == {TracesData(Collected(others)) : others \in OtherRuns}

-----------------------------------------------------------------------------
\* A mutant for the model checker: the index is rounded down.
PercentileIndexFloor(n, percentile) ==
    LET idx == (percentile * n) \div 100 - 1
    IN  IF idx < 0 THEN 0 ELSE IF idx >= n THEN n - 1 ELSE idx

\* Nearest rank: ceil(percentile / 100 * n) - 1, kept within 0..n - 1.
PercentileIndex(n, percentile) ==
    LET idx == (percentile * n + 99) \div 100 - 1
    IN  IF idx < 0 THEN 0 ELSE IF idx >= n THEN n - 1 ELSE idx

Total(values) == FoldSeq(LAMBDA v, sum : v + sum, 0, values)

Average(values) == <<Total(values), Len(values)>>

\* The mean of the squares of the distances to the mean.
Variance(values) ==
    LET n == Len(values)
        squares == Total([k \in 1..n |-> values[k] * values[k]])
    IN  <<n * squares - Total(values) * Total(values), n * n>>

Less(a, b) == a[1] * b[2] < b[1] * a[2]

Statistics(sorted) ==
    LET at(percentile) == sorted[1 + PercentileIndex(Len(sorted), percentile)]
    IN  [min |-> sorted[1], max |-> sorted[Len(sorted)], p50 |-> at(50),
         p90 |-> at(90), p99 |-> at(99), average |-> Average(sorted),
         variance |-> Variance(sorted)]

\* The share of a trace that takes no whole millisecond counts as none.
Shares(occurrences) ==
    SelectSeq([k \in DOMAIN occurrences |->
                <<Milliseconds(occurrences[k].span.duration),
                  occurrences[k].whole>>],
              LAMBDA share : share[2] # 0)

\* The positions of spans are counted: one for each span that comes before
\* one of them in its trace.
MeanPosition(occurrences) ==
    <<Cardinality(UNION {{<<k, before>> : before \in 1..occurrences[k].position} :
                            k \in DOMAIN occurrences}),
      Len(occurrences)>>

\* The names are those of the first span with the key.
SpanStatistics(data) ==
    LET list == data.occurrences
        errors == SelectSeq(list, LAMBDA o : ToLower(o.span.status) = "error")
    IN  [service |-> list[1].span.service,
         operation |-> list[1].span.operation,
         durations |-> Statistics(data.sortedDurations),
         errorRate |-> <<Len(errors), Len(list)>>,
         shares |-> Shares(list),
         position |-> MeanPosition(list)]

ErrorRate(traces) ==
    <<Len(SelectSeq(traces, LAMBDA t : t.errorCount > 0)), Len(traces)>>

\* Without a trace the durations stay at zero.
TraceStatistics(data) ==
    LET traces == data.traces
    IN  [durations |-> Statistics(IF traces = <<>> THEN <<0>>
                                  ELSE data.sortedDurations),
         spanCount |-> Average([i \in DOMAIN traces |-> traces[i].spanCount]),
         errorCount |-> Average([i \in DOMAIN traces |-> traces[i].errorCount]),
         errorRate |-> ErrorRate(traces)]

-----------------------------------------------------------------------------
\* A mutant for the model checker: the operation does not count.
BeforeByService(a, b) ==
    \/ Less(a.position, b.position)
    \/ /\ ~Less(b.position, a.position)
       /\ Rank[a.service] < Rank[b.service]

\* The comparison of the rows of the span table.
Before(a, b) ==
    \/ Less(a.position, b.position)
    \/ /\ ~Less(b.position, a.position)
       /\ \/ Rank[a.service] < Rank[b.service]
          \/ /\ a.service = b.service
             /\ Rank[a.operation] < Rank[b.operation]

SpanRows(data) == {SpanStatistics(of) : of \in data.spansData}

(* The rows come from a map, in any order, and slices.SortFunc is not      *)
(* stable: the table may be any list of the rows that is in order.         *)
SpanTables(data) ==
    {rows \in SetToSeqs(SpanRows(data)) :
        \A j \in DOMAIN rows : \A i \in 1..(j - 1) : ~Before(rows[j], rows[i])}

\* The traces are listed with the number of spans that were kept.
TracesToJSON(traces) ==
    [i \in DOMAIN traces |->
        [duration |-> Milliseconds(traces[i].duration),
         spanCount |-> Len(traces[i].spans),
         errorCount |-> traces[i].errorCount, spans |-> traces[i].spans]]

\* What both exporters may write for a test.
Exports(data) ==
    [trace : {TraceStatistics(data)}, spans : SpanTables(data),
     traces : {TracesToJSON(data.traces)}]

-----------------------------------------------------------------------------
IsNearestRank(value, percentile, durations) ==
    LET upTo(v) == Cardinality({k \in DOMAIN durations : durations[k] <= v})
        enough(v) == upTo(v) * 100 >= percentile * Len(durations)
    IN  /\ enough(value)
        /\ \A v \in Range(durations) : enough(v) => value <= v

RanksCorrect(stats, durations) ==
    /\ IsNearestRank(stats.p50, 50, durations)
    /\ IsNearestRank(stats.p90, 90, durations)
    /\ IsNearestRank(stats.p99, 99, durations)

(* A percentile is the least duration that is enough for its share of the  *)
(* durations, of the traces and of each kind of span (utils.go:5-16).      *)
PercentilesAreNearestRank ==
    stage = "done" =>
        \A data \in TestData :
            /\ RanksCorrect(TraceStatistics(data).durations,
                            DurationsOf(data.traces))
            /\ \A of \in data.spansData :
                  RanksCorrect(SpanStatistics(of).durations,
                               SpanDurations(of.occurrences))

(* The same traces give the same report, whatever the order in which the   *)
(* map gives its keys: the comparison of rows tells any two apart          *)
(* (json.go:74, :92-103).                                                  *)
ReportIsUnique ==
    stage = "done" =>
        \A data \in TestData : Cardinality(Exports(data)) = 1

(* ErrorRate is the "Percentage of traces with at least one span with an   *)
(* error status" (analytics/domain.go:30), a status in any case being one  *)
(* as it is for the rate of a span.  The code does not keep this: Jaeger's *)
(* "ERROR" is not counted for the trace.                                   *)
ErrorRateCountsErrors ==
    stage = "done" =>
        \A data \in TestData :
            LET traces == data.traces
                failed(t) == \E k \in DOMAIN t.spans :
                                ToLower(t.spans[k].status) = "error"
            IN  ErrorRate(traces)[1] = Len(SelectSeq(traces, failed))
=============================================================================
