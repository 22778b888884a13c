--------------------------- MODULE FetchContract ---------------------------
(***************************************************************************)
(* What TraceAdapter.Fetch promises to TraceTest.Run, without the timer,   *)
(* the ticker and the requests behind it: it watches a trace, hands it     *)
(* over at once when its last span is the awaited one, and otherwise gives *)
(* up some day with the latest version it has seen, or with an error if it *)
(* has seen none.  A trace in Jaeger only grows.  One in OpenObserve may   *)
(* lose spans that it had: at its beginning, or, when it is full, at its   *)
(* end, but never in between.  TraceFetch implements the contract.         *)
(***************************************************************************)
EXTENDS SpanSearch

CONSTANTS
    Spans,       \* the spans the system under test may emit
    Start,       \* their start times
    Awaited(_)   \* does a version of the trace end with the awaited span?

VARIABLES
    backend,     \* "jaeger" or "openobserve"
    seen,        \* the latest version of the trace seen; empty when none
    outcome      \* "pending", "trace", "notFound" or "malformed"

cvars == <<backend, seen, outcome>>

CInit ==
    /\ backend \in {"jaeger", "openobserve"}
    /\ seen = {} /\ outcome = "pending"

MayDrop(s, version) ==
    /\ backend = "openobserve"
    /\ Outlived(s, version, Start) \/ CutOff(s, version, Start)

See(version) ==
    /\ outcome = "pending"
    /\ \A s \in seen \ version : MayDrop(s, version)
    /\ seen' = version
    /\ outcome' = IF Awaited(version) THEN "trace" ELSE "pending"
    /\ UNCHANGED backend

GiveUp ==
    /\ outcome = "pending"
    /\ outcome' = IF seen = {} THEN "notFound" ELSE "trace"
    /\ UNCHANGED <<backend, seen>>

(* A conversion error is final, and what was seen before is discarded.     *)
Abort ==
    /\ backend = "jaeger"
    /\ outcome = "pending"
    /\ outcome' = "malformed"
    /\ seen' = {}
    /\ UNCHANGED backend

CNext ==
    \/ \E version \in (SUBSET Spans) \ {{}} : See(version)
    \/ GiveUp
    \/ Abort

CSpec == CInit /\ [][CNext]_cvars
=============================================================================
