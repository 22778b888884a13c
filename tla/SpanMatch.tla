------------------------------ MODULE SpanMatch ------------------------------
(***************************************************************************)
(* Span.Equal (span/comparator.go): does a span of the trace match an      *)
(* expected span?  A field the test does not give, or the span does not    *)
(* have, matches anything; names are compared without regard to case; a    *)
(* duration has to be between the bounds, both included.                   *)
(***************************************************************************)
EXTENDS Naturals

CONSTANTS
    Fold,    \* a name to the form strings.EqualFold compares
    Empty,   \* the empty string
    Nil      \* a nil pointer: a field or a bound the test does not give

TextFields == {"service", "operation", "kind", "status"}

\* The service name of an expected span is a plain string, the other fields
\* are pointers; the span's own fields are plain strings.
FieldEqual(given, actual) ==
    given # Nil /\ actual # Empty => Fold[given] = Fold[actual]

SpanEqual(s, expected) ==
    /\ expected.service # Empty => FieldEqual(expected.service, s.service)
    /\ \A f \in TextFields \ {"service"} : FieldEqual(expected[f], s[f])
    /\ expected.max # Nil => s.duration <= expected.max
    /\ expected.min # Nil => s.duration >= expected.min
=============================================================================
