-------------------------- MODULE MCTraceComparator --------------------------
(* Small traces and expectations for TraceComparator, compared by Span.Equal *)
(* of SpanMatch.                                                             *)
EXTENDS TraceComparator

CONSTANT Nil   \* a model value: durations are compared with it

Empty == "empty"
Fold  == [n \in {"empty", "A", "a", "b", "OK", "ok", "error", "c"} |->
            CASE n = "A" -> "a" [] n = "OK" -> "ok" [] OTHER -> n]

S == INSTANCE SpanMatch

Expect(service, status, max, min) ==
    [service |-> service, operation |-> Nil, kind |-> Nil, status |-> status,
     max |-> max, min |-> min]

Actual(service, status, duration) ==
    [service |-> service, operation |-> "c", kind |-> "c", status |-> status,
     duration |-> duration]

\* Anything; a service; a status; a slow span; a fast span.
MCExpectedSpans == {
    Expect(Empty, Nil, Nil, Nil), Expect("A", Nil, Nil, Nil),
    Expect(Empty, "OK", Nil, Nil), Expect(Empty, Nil, Nil, 2),
    Expect("b", Nil, 1, Nil)}

MCActualSpans == {
    Actual("a", "ok", 1), Actual("b", "error", 1), Actual("b", "ok", 2),
    Actual(Empty, "error", 3)}

UpTo(set, n) == UNION {[1..k -> set] : k \in 0..n}

Ask(checkers, expectedLists, actualLists) ==
    [checker : checkers, ordered : BOOLEAN, expected : expectedLists, actual : actualLists]

MCQuestions ==
    Ask({"strict", "contains", "startswith", "endswith"},
        UpTo(MCExpectedSpans, 2), UpTo(MCActualSpans, 3))
    \cup Ask({"contains"}, [1..3 -> MCExpectedSpans], [1..3 -> MCActualSpans])
    \cup Ask({"other"}, UpTo(MCExpectedSpans, 1), UpTo(MCActualSpans, 1))

MCEqual(s, e) == S!SpanEqual(s, e)
=============================================================================
