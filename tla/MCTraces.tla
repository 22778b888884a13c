------------------------------ MODULE MCTraces ------------------------------
(* Answers of the backends for SpanSort, TraceBuild and Analytics, and the   *)
(* pre-order walk as a reference.                                            *)
EXTENDS Analytics

MCLower == [n \in {"ERROR"} |-> "error"]

\* "get" is one word, "get all" and "api" "all" share words with others.
MCWords(name) == CASE name = "get all" -> <<"get", "all">>
                   [] name = "api get" -> <<"api", "get">>
                   [] OTHER -> <<name>>
MCAlphabet == <<"none", "all", "api", "api get", "get", "get all">>
MCRank == [name \in Range(MCAlphabet) |->
              CHOOSE k \in DOMAIN MCAlphabet : MCAlphabet[k] = name]

ChildOf(id) == [type |-> "CHILD_OF", id |-> id]
Refs(id) == IF id = "none" THEN <<[type |-> "FOLLOWS_FROM", id |-> "a"]>>
            ELSE <<[type |-> "FOLLOWS_FROM", id |-> "a"], ChildOf(id), ChildOf("b")>>

Processes == [p \in {"p1", "p2"} |-> IF p = "p1" THEN "api" ELSE "api get"]

Jaeger(dtos) == [backend |-> "jaeger", spans |-> dtos, processes |-> Processes]

\* A DTO of which only the ID, the parent and the start vary.
Dto(id, parent, start) ==
    [id |-> id, refs |-> Refs(parent), process |-> "p1", operation |-> "get",
     tags |-> <<>>, start |-> start, duration |-> IF id = "a" THEN 2 ELSE 1]

\* Three spans with anything a backend may send: missing, repeated and
\* unknown IDs, spans that are their own ancestor, equal start times.
MCRough ==
    {Jaeger(dtos) : dtos \in [1..3 -> {Dto(i, p, t) :
        i \in {"none", "a", "b"}, p \in {"none", "a", "b", "x"}, t \in 1..2}]}

\* Four spans with IDs of their own; parents may make cycles.
MCNames == <<"a", "b", "c", "d">>
MCTidy ==
    {Jaeger([k \in 1..4 |-> Dto(MCNames[k], p[k], t[k])]) :
        p \in [1..4 -> {"none", "x", "a", "b", "c"}],
        t \in {<<1, 1, 1, 1>>, <<4, 3, 2, 1>>, <<2, 1, 2, 1>>, <<1, 3, 2, 3>>}}

MCShort == {Jaeger(<<>>)} \cup {Jaeger(<<Dto("a", p, 1)>>) : p \in {"none", "a"}}

\* Two spans of every status, of two services and two operations; the
\* process p3 is not described.
Code(value) == [key |-> "otel.status_code", value |-> value]
ErrorTag == [key |-> "error", value |-> "false"]
MCTags == {<<>>, <<Code("OK")>>, <<Code("error"), ErrorTag>>,
           <<ErrorTag, Code("OK")>>, <<Code("2")>>,
           <<[key |-> "span.kind", value |-> "2"], ErrorTag>>}
Detailed(id, parent, processes, tags, durations) ==
    [id : {id}, refs : {Refs(parent)}, process : processes,
     operation : {"get", "all", "get all"}, tags : tags, start : {1},
     duration : durations]
DetailedPairs(tags) ==
    {Jaeger(<<a, b>>) :
        a \in Detailed("a", "none", {"p1", "p3"}, tags, {10, 40}),
        b \in Detailed("b", "a", {"p2"}, tags, {25})}
MCDetailed == DetailedPairs(MCTags)

\* Four spans of an OpenObserve stream in any order, a parent and its
\* children or a chain; the first of the seconds is too long ago.
Stored(id, parent, start, operation) ==
    [id |-> id, parent |-> parent, service |-> "api", operation |-> operation,
     kind |-> "SERVER", status |-> Missing, start |-> start,
     end |-> start + 3, duration |-> 3]
MCStored ==
    {[backend |-> "openobserve", now |-> 6, spans |->
        [k \in 1..4 |-> Stored(MCNames[k], p[k], t[k],
                               IF k = 1 THEN Missing ELSE "all")]] :
        p \in {<<"none", "a", "a", "b">>, <<"b", "c", "none", "c">>,
               <<"d", Missing, "b", "none">>},
        t \in [1..4 -> {0, 1, 2, 4, 5}]}

MCAnswers == MCRough \cup MCTidy \cup MCShort \cup MCDetailed \cup MCStored

\* Ten and three other runs, one of them without a trace, with a span each.
Past(duration, operation) ==
    [start |-> 0, end |-> duration, duration |-> duration, spanCount |-> 1,
     errorCount |-> 0,
     spans |-> <<[id |-> "a", parent |-> "none", service |-> "api",
                  operation |-> operation, kind |-> "server",
                  status |-> "unset", start |-> 0, end |-> duration,
                  duration |-> duration, attributes |-> <<>>]>>]
MCOtherRuns ==
    {<<>>, <<Past(50, "get"), NoTrace, Past(5, "all")>>,
     [k \in 1..10 |-> Past(100 - 9 * k, "get all")]}

\* For the run of the error rate: Jaeger's status in upper case.
MCUpperCase == DetailedPairs({<<>>, <<Code("OK")>>, <<Code("ERROR")>>})

-----------------------------------------------------------------------------
RECURSIVE Preorder(_, _)
\* The pre-order of the trees with these roots, siblings as they come.
Preorder(siblings, list) ==
    IF siblings = <<>> THEN <<>>
    ELSE <<Head(siblings)>>
         \o Preorder(ChildrenOf(Head(siblings).id, list), list)
         \o Preorder(Tail(siblings), list)

RECURSIVE IsUnderRoot(_, _, _)
\* Is a root reached from the span in at most n steps to its parent?
IsUnderRoot(s, list, n) ==
    \/ IsRoot(s, list)
    \/ n > 0 /\ \E i \in DOMAIN list :
                    list[i].id = s.parent /\ IsUnderRoot(list[i], list, n - 1)

WellFormed(list) ==
    /\ NoId \notin Ids(list)
    /\ Cardinality(Ids(list)) = Len(list)
    /\ \A i \in DOMAIN list : IsUnderRoot(list[i], list, Len(list))

(* On a well-formed trace the result is all of it, parents first, each     *)
(* subtree in one piece, siblings by start time: the pre-order walk of the *)
(* trees (sort.go:9-10).                                                   *)
MatchesPreorder ==
    (stage = "done" /\ Len(spans) > 1 /\ WellFormed(spans)) =>
        /\ ordered = Preorder(Roots(spans), spans)
        /\ Len(ordered) = Len(spans)
        /\ \A i \in 1..(Len(spans) - 1) : spans[i].start <= spans[i + 1].start
=============================================================================
