----------------------------- MODULE TraceBuild -----------------------------
(***************************************************************************)
(* From a backend's answer to a trace: Get and newTraceFromJaeger of the   *)
(* Jaeger adapter, Get and newTraceFromOpenObserve of the OpenObserve one. *)
(* The spans they build are put in order by SpanSort, which this module    *)
(* composes with what the backend has stored.                              *)
(*                                                                         *)
(* A name is a value; only its case (Lower) and its place in an answer     *)
(* matter.  Times are counted in the unit of the backend.  OpenObserve's   *)
(* are nanoseconds, decoded from JSON as float64: the nearest multiple of  *)
(* Grain.  Not covered: the HTTP exchange (see TraceFetch), logs and       *)
(* warnings, and the attributes beyond being the whole DTO.                *)
(***************************************************************************)
EXTENDS SpanSort, SpanSearch, SequencesExt

CONSTANTS
    Answers,   \* what the backends may hold of a trace
    Lower,     \* strings.ToLower of the names it changes
    Missing,   \* a field that is not there, or of another type
    Grain      \* distance of two float64 numbers near a time in nanoseconds

ASSUME GrainAssumption == Grain \in Nat \ {0}

\* Each backend gives a list of spans with start times and durations, which
\* OpenObserve may leave out; its search compares starts with the present.
ASSUME AnswersAssumption ==
    \A a \in Answers :
        /\ a.spans \in Seq(Range(a.spans))
        /\ \A i \in DOMAIN a.spans : a.spans[i].start \in Nat
        /\ \/ /\ a.backend = "jaeger"
              /\ \A i \in DOMAIN a.spans : a.spans[i].duration \in Int
           \/ /\ a.backend = "openobserve" /\ a.now \in Nat
              /\ \A i \in DOMAIN a.spans :
                    /\ a.spans[i].duration \in Nat \cup {Missing}
                    /\ a.spans[i].end \in Nat \cup {Missing}

ASSUME MissingAssumption == Missing # NoId /\ Missing \notin Nat

VARIABLE stored   \* what the backend holds when it is asked

ToLower(name) == IF name \in DOMAIN Lower THEN Lower[name] ELSE name

KindNames == [n \in {"0", "1", "2", "3", "4", "5"} |->
    CASE n = "0" -> "unspecified" [] n = "1" -> "internal"
      [] n = "2" -> "server"      [] n = "3" -> "client"
      [] n = "4" -> "producer"    [] n = "5" -> "consumer"]

SpanKindValue(value) ==
    IF ToLower(value) \in DOMAIN KindNames THEN KindNames[ToLower(value)]
    ELSE ToLower(value)

-----------------------------------------------------------------------------
(* Jaeger: the first CHILD_OF reference is the parent, the process of the  *)
(* span has its service, and the status is in one of two tags.             *)

ParentOf(dto) ==
    LET up == SelectSeq(dto.refs, LAMBDA r : r.type = "CHILD_OF")
    IN  IF up = <<>> THEN NoId ELSE up[1].id

ServiceOf(dto, processes) ==
    IF dto.process \in DOMAIN processes THEN processes[dto.process] ELSE NoId

KindOf(tags) ==
    LET said == SelectSeq(tags, LAMBDA t : t.key = "span.kind")
    IN  IF said = <<>> THEN NoId ELSE SpanKindValue(said[1].value)

\* The first of the two tags decides, and the error tag whatever its value.
\* A known status keeps the case it has in the tag.
StatusOf(tags) ==
    LET said == SelectSeq(tags,
                    LAMBDA t : t.key \in {"otel.status_code", "error"})
        status == CASE said = <<>> -> "unset"
                    [] said # <<>> /\ said[1].key = "error" -> "error"
                    [] OTHER -> said[1].value
    IN  IF ToLower(status) \in {"ok", "error", "unset"} THEN status
        ELSE "unset"

JaegerSpan(dto, processes) ==
    [id |-> dto.id, parent |-> ParentOf(dto),
     service |-> ServiceOf(dto, processes), operation |-> dto.operation,
     kind |-> KindOf(dto.tags), status |-> StatusOf(dto.tags),
     start |-> dto.start, end |-> dto.start + dto.duration,
     duration |-> dto.duration, attributes |-> dto]

-----------------------------------------------------------------------------
(* OpenObserve: a search of the last minutes, the earliest spans first, up *)
(* to MaxHits of them; fields of the wrong type count as empty or zero.    *)

Recent(answer) ==
    Keep(answer.spans, {i \in DOMAIN answer.spans :
        answer.spans[i].start \in Window(answer.now)})

Cut(list) == SubSeq(list, 1, IF Len(list) < MaxHits THEN Len(list) ELSE MaxHits)

\* A mutant for the model checker: the search has no ORDER BY.
HitsUnordered(answer) == Cut(Recent(answer))

\* Spans that started together come as they were stored.
Hits(answer) == Cut(SortByStart(Recent(answer)))

StringValue(value) == IF value = Missing THEN NoId ELSE value

\* Halves go up here and to the even neighbour in float64: both keep order.
Int64Value(value) ==
    IF value = Missing THEN 0 ELSE ((value + Grain \div 2) \div Grain) * Grain

OpenObserveSpan(hit) ==
    [id |-> StringValue(hit.id), parent |-> StringValue(hit.parent),
     service |-> StringValue(hit.service),
     operation |-> StringValue(hit.operation),
     kind |-> SpanKindValue(StringValue(hit.kind)),
     status |-> StringValue(hit.status),
     start |-> Int64Value(hit.start), end |-> Int64Value(hit.end),
     duration |-> Int64Value(hit.duration), attributes |-> hit]

-----------------------------------------------------------------------------
\* No hit is an error, and Fetch goes on asking; a Jaeger answer with a
\* trace is always converted.
Found(answer) == answer.backend = "openobserve" => Hits(answer) # <<>>

SpansOf(answer) ==
    IF answer.backend = "jaeger"
    THEN [k \in DOMAIN answer.spans |->
            JaegerSpan(answer.spans[k], answer.processes)]
    ELSE LET hits == Hits(answer)
         IN  [k \in DOMAIN hits |-> OpenObserveSpan(hits[k])]

\* Only the exact word counts as an error.
ErrorCount(list) ==
    Cardinality({k \in DOMAIN list : list[k].status = "error"})

EndTime(list) ==
    IF list = <<>> THEN 0 ELSE Max({list[k].end : k \in DOMAIN list})

StartTime(list) ==
    IF list = <<>> THEN 0 ELSE Min({list[k].start : k \in DOMAIN list})

(* The trace that is built: its counts and bounds are those of all spans   *)
(* of the answer, its spans the ones the sort kept.                        *)
Trace ==
    [start |-> StartTime(spans), end |-> EndTime(spans),
     duration |-> EndTime(spans) - StartTime(spans),
     spanCount |-> Len(spans), errorCount |-> ErrorCount(spans),
     spans |-> ordered]

BuildInit ==
    /\ stored \in Answers
    /\ Found(stored)
    /\ Call(SpansOf(stored))

\* Sequential code with no wait in it.
Build == Walk /\ UNCHANGED stored

BuildNext == Build \/ (Sorted /\ UNCHANGED stored)

BuildSpec == BuildInit /\ [][BuildNext]_<<sortVars, stored>>

FairBuildSpec == BuildSpec /\ WF_<<sortVars, stored>>(Build)

-----------------------------------------------------------------------------
\* What the sort is at work on: the answer as it was built, and from the
\* first step on the same spans by start time.
SpansFromAnswer ==
    /\ stored \in Answers
    /\ spans = IF stage = "start" \/ Len(SpansOf(stored)) <= 1
               THEN SpansOf(stored) ELSE SortByStart(SpansOf(stored))

\* The inductive invariant of building a trace.
BuildInv == WalkInv /\ SpansFromAnswer

(* The order of the spans of an OpenObserve trace is that of their true    *)
(* start times, although float64 makes close ones equal: the search gives  *)
(* them in order and the sort is stable (repository.go:147, sort.go:16).   *)
RoundingKeepsOrder ==
    (stored.backend = "openobserve" /\ stage # "start") =>
        \A j \in DOMAIN spans : \A i \in 1..(j - 1) :
            spans[i].attributes.start <= spans[j].attributes.start

CausalClock(list) ==
    \A i, j \in DOMAIN list :
        (list[i].parent \notin {NoId, Missing} /\ list[i].parent = list[j].id) =>
            list[j].start < list[i].start

(* What a search of limited size leaves out are the latest spans: where    *)
(* parents start before their children, no span of a cut trace has lost a  *)
(* parent that the search could find (repository.go:147, :158).            *)
CutKeepsParents ==
    (stored.backend = "openobserve" /\ CausalClock(stored.spans)) =>
        \A i \in DOMAIN spans : \A p \in Range(stored.spans) :
            (/\ spans[i].parent # NoId /\ p.id = spans[i].parent
             /\ p.start >= stored.now - Buffer)
                => p.id \in Ids(spans)
=============================================================================
