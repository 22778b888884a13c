----------------------------- MODULE TraceFetch -----------------------------
(***************************************************************************)
(* The polling loop of JaegerTraceAdapter.Fetch and                        *)
(* OpenObserveTraceAdapter.Fetch (configuration/.../adapter.go), against a   *)
(* backend that ingests the spans of the trace while the loop runs.        *)
(*                                                                         *)
(* Covered: the one-slot channels of the ticker and of the timeout timer,  *)
(* the select that picks either when both are ready, requests that take    *)
(* time, fail, or answer with what was ingested when the backend served    *)
(* them (Jaeger: all of it, OpenObserve: what its search finds), the early *)
(* return on the last span, and the trace kept across failed requests.     *)
(* Time is counted in units from the call of Fetch, but only as far as the *)
(* search tells times apart (Horizon), so that it can go on for ever.      *)
(* Not covered: the HTTP exchange and the conversion of an answer to a     *)
(* trace, but for its order of spans (LastOf, see SpanSort; of spans that  *)
(* started together the order is taken to be the same in every answer) and *)
(* for its failure (Jaeger only).                                          *)
(***************************************************************************)
EXTENDS SpanSearch

CONSTANTS
    Spans,        \* the spans the system under test emits, in any order
    Start,        \* their start times, in units from the call of Fetch
    LastOf(_),    \* GetLastSpan of a set of ingested spans
    Matches(_),   \* Equal(lastSpan) of a span; nowhere true without a lastSpan
    Timeout,      \* units until the timeout timer fires
    RetryDelay,   \* units between two ticks
    GetTimeout,   \* units after which the HTTP client gives up
    Horizon       \* the clock stops here, when no search finds a span any more

\* The validators refuse a timeout and a retry delay below one unit.
ASSUME TimesAssumption ==
    /\ Timeout \in Nat \ {0}
    /\ RetryDelay \in Nat \ {0}
    /\ GetTimeout \in Nat

ASSUME SpansAssumption == IsFiniteSet(Spans) /\ Start \in [Spans -> Int]

ASSUME HorizonAssumption ==
    Horizon \in Nat /\ \A s \in Spans : Start[s] + Buffer < Horizon

VARIABLES
    backend,    \* whose adapter it is: "jaeger" or "openobserve"
    asked,      \* when the last request was sent
    pc,         \* "get", "waiting", "select" or "returned"
    tr,         \* the trace kept by Fetch; empty stands for nil
    result,     \* what Fetch has returned
    clock,      \* units since the call, up to Horizon
    left,       \* units left until the timer fires; 0: its channel is full
    phase,      \* units since the last tick
    tick,       \* the ticker's channel holds a tick
    flight,     \* units the current request has taken
    ingested,   \* the spans the backend has ingested
    answer,     \* what the backend put in the answer under way; empty: not yet
    received    \* history: every answer Fetch converted

callVars == <<backend, asked>>
timeVars == <<clock, left, phase, tick>>
vars == <<callVars, pc, tr, result, timeVars, flight, ingested, answer, received>>

LastMatches(version) == Matches(LastOf(version))

Init ==
    /\ backend \in {"jaeger", "openobserve"}
    /\ asked = 0
    /\ pc = "get"
    /\ tr = {}
    /\ result = "pending"
    /\ clock = 0 /\ left = Timeout /\ phase = 0 /\ tick = FALSE
    /\ flight = 0
    /\ ingested \in SUBSET Spans
    /\ answer = {}
    /\ received = {}

-----------------------------------------------------------------------------
(* The environment: spans arrive in any order, the backend serves the      *)
(* request some time after it was sent, time passes.                       *)

Ingest(s) ==
    /\ pc # "returned"
    /\ s \notin ingested
    /\ ingested' = ingested \cup {s}
    /\ UNCHANGED <<callVars, pc, tr, result, timeVars, flight, answer, received>>

\* A mutant for the model checker: the search is not in the order of start times.
FindableUnordered ==
    IF backend = "jaeger" THEN {ingested}
    ELSE Earliest({s \in ingested : Start[s] \in Window(asked)}, [s \in Spans |-> 0])

(* Jaeger gives the whole trace.  OpenObserve searches a window that ends  *)
(* when the request is made, and the size of the search may cut the trace. *)
Findable ==
    IF backend = "jaeger" THEN {ingested}
    ELSE Earliest({s \in ingested : Start[s] \in Window(asked)}, Start)

(* A backend that finds no span of the trace answers with an error, which  *)
(* GetFails covers.                                                        *)
Serve ==
    /\ pc = "waiting" /\ answer = {}
    /\ answer' \in Findable \ {{}}
    /\ UNCHANGED <<callVars, pc, tr, result, timeVars, flight, ingested, received>>

(* The timer fires once; the ticker drops a tick nobody has taken; the     *)
(* HTTP client does not let a request last longer than GetTimeout.         *)
Elapse ==
    /\ pc # "returned"
    /\ pc = "waiting" => flight < GetTimeout
    /\ clock' = IF clock < Horizon THEN clock + 1 ELSE clock
    /\ left' = IF left = 0 THEN 0 ELSE left - 1
    /\ phase' = (phase + 1) % RetryDelay
    /\ tick' = (tick \/ phase' = 0)
    /\ flight' = IF pc = "waiting" THEN flight + 1 ELSE flight
    /\ UNCHANGED <<callVars, pc, tr, result, ingested, answer, received>>

-----------------------------------------------------------------------------
(* The loop.                                                               *)

Get ==
    /\ pc = "get"
    /\ pc' = "waiting"
    /\ asked' = clock
    /\ flight' = 0
    /\ answer' = {}
    /\ UNCHANGED <<backend, tr, result, timeVars, ingested, received>>

\* A mutant for the model checker: the trace is the result of the last Get, even of a failed one.
GetFailsForgets ==
    /\ pc = "waiting"
    /\ pc' = "select"
    /\ tr' = {}
    /\ flight' = 0
    /\ answer' = {}
    /\ UNCHANGED <<callVars, result, timeVars, ingested, received>>

(* Get returns an error: the trace of an earlier answer is kept.           *)
GetFails ==
    /\ pc = "waiting"
    /\ pc' = "select"
    /\ flight' = 0
    /\ answer' = {}
    /\ UNCHANGED <<callVars, tr, result, timeVars, ingested, received>>

(* Get returns a trace that converts: it replaces the one before, and ends *)
(* the loop if its last span is the awaited one.                           *)
GetSucceeds ==
    /\ pc = "waiting" /\ answer # {}
    /\ tr' = answer
    /\ received' = received \cup {answer}
    /\ IF LastMatches(answer)
         THEN pc' = "returned" /\ result' = "trace"
         ELSE pc' = "select" /\ UNCHANGED result
    /\ flight' = 0
    /\ answer' = {}
    /\ UNCHANGED <<callVars, timeVars, ingested>>

(* Get returns a trace whose ID is not one: Fetch fails at once, and an    *)
(* earlier trace is discarded with the loop.                               *)
ConversionFails ==
    /\ backend = "jaeger"
    /\ pc = "waiting"
    /\ tr' = {}
    /\ pc' = "returned" /\ result' = "malformed"
    /\ flight' = 0
    /\ answer' = {}
    /\ UNCHANGED <<callVars, timeVars, ingested, received>>

\* A mutant for the model checker: the timer is created inside the loop.
RetryRearms ==
    /\ pc = "select" /\ tick
    /\ tick' = FALSE
    /\ left' = Timeout
    /\ pc' = "get"
    /\ UNCHANGED <<callVars, tr, result, clock, phase, flight, ingested, answer,
                   received>>

(* The select takes the tick.                                              *)
Retry ==
    /\ pc = "select" /\ tick
    /\ tick' = FALSE
    /\ pc' = "get"
    /\ UNCHANGED <<callVars, tr, result, clock, left, phase, flight, ingested,
                   answer, received>>

\* A mutant for the model checker: a default case in the select ends the loop.
ExpireAnyTime ==
    /\ pc = "select"
    /\ pc' = "returned"
    /\ result' = IF tr = {} THEN "notFound" ELSE "trace"
    /\ UNCHANGED <<callVars, tr, timeVars, flight, ingested, answer, received>>

(* The select takes the timeout; the loop ends.                            *)
Expire ==
    /\ pc = "select" /\ left = 0
    /\ pc' = "returned"
    /\ result' = IF tr = {} THEN "notFound" ELSE "trace"
    /\ UNCHANGED <<callVars, tr, timeVars, flight, ingested, answer, received>>

Returned ==
    /\ pc = "returned"
    /\ UNCHANGED vars

Complete == GetFails \/ GetSucceeds \/ ConversionFails

Next ==
    \/ \E s \in Spans : Ingest(s)
    \/ Serve
    \/ Elapse
    \/ Get
    \/ GetFails
    \/ GetSucceeds
    \/ ConversionFails
    \/ Retry
    \/ Expire
    \/ Returned

Spec == Init /\ [][Next]_vars

(* Time passes, the loop keeps going, and a request ends, at the latest    *)
(* with the HTTP client's timeout.  When the timer has fired, each select  *)
(* with a tick pending too picks one of the two at random, so a loop that  *)
(* came back for ever would pick the timeout some day: strong fairness.    *)
FairSpec ==
    /\ Spec
    /\ WF_vars(Elapse)
    /\ WF_vars(Get)
    /\ WF_vars(Complete)
    /\ WF_vars(Retry)
    /\ SF_vars(Expire)

-----------------------------------------------------------------------------
TypeOK ==
    /\ backend \in {"jaeger", "openobserve"}
    /\ asked \in 0..clock
    /\ pc \in {"get", "waiting", "select", "returned"}
    /\ tr \in SUBSET Spans
    /\ result \in {"pending", "trace", "notFound", "malformed"}
    /\ clock \in 0..Horizon
    /\ left \in 0..Timeout
    /\ phase \in 0..(RetryDelay - 1)
    /\ tick \in BOOLEAN
    /\ flight \in 0..GetTimeout
    /\ ingested \in SUBSET Spans
    /\ answer \in SUBSET ingested
    /\ received \in SUBSET SUBSET ingested

\* Why a span that was received is not in a later version: Jaeger gives no
\* reason; OpenObserve was asked too late for it, and all the rest is later,
\* or had no room for it, and all the rest is earlier.
Excused(s, version) ==
    /\ backend = "openobserve"
    /\ \/ Start[s] < asked - Buffer /\ Outlived(s, version, Start)
       \/ CutOff(s, version, Start)

(* Fetch gives a version of the trace it received, and that one lacks a    *)
(* span of any other version only if the search of OpenObserve had to      *)
(* leave it out: a request that fails or times out never costs a span (the *)
(* trace is kept, adapter.go:34-36), and spans that are ingested late may  *)
(* push others off the end of a full trace, but make no hole in it         *)
(* (openobserve/adapter.go:37).  "Not found" means that nothing was        *)
(* received.                                                               *)
NothingLost ==
    /\ result = "trace" =>
          tr \in received /\ \A s \in (UNION received) \ tr : Excused(s, tr)
    /\ result = "notFound" => received = {}

(* Fetch ends before the deadline only with the awaited span or because of *)
(* an answer it cannot convert; with an error only after the deadline.     *)
NoEarlyEnd ==
    (result # "pending" /\ left > 0) =>
        \/ result = "trace" /\ LastMatches(tr)
        \/ result = "malformed" /\ backend = "jaeger"

\* What an answer has was ingested, and had started when it was asked for.
Timely ==
    backend = "openobserve" =>
        \A s \in (UNION received) \cup answer : Start[s] <= asked

\* What makes the refinement go through: the answer under way and the trace
\* that is kept lack a span received before only with an excuse.
Recency ==
    /\ answer # {} =>
          pc = "waiting" /\ \A s \in (UNION received) \ answer : Excused(s, answer)
    /\ result # "malformed" =>
          /\ tr = {} => received = {}
          /\ tr # {} => tr \in received /\ \A s \in (UNION received) \ tr : Excused(s, tr)
    /\ {} \notin received
    /\ result = "pending" <=> pc # "returned"
    /\ result = "notFound" => tr = {} /\ left = 0
    /\ result = "trace" => tr # {} /\ (left = 0 \/ LastMatches(tr))
    /\ result = "malformed" => backend = "jaeger"

\* The inductive invariant of the proofs.
FetchInv == TypeOK /\ Timely /\ Recency

(* Fetch returns, whatever the backend does: timer and ticker compete in   *)
(* the select, but the loop does not go on for ever (adapter.go:53-59).    *)
Terminates == <>(pc = "returned")

Contract == INSTANCE FetchContract WITH
    Awaited  <- LastMatches,
    seen     <- tr,
    outcome  <- result

(* The loop keeps the contract of FetchContract.                           *)
KeepsContract == Contract!CSpec

=============================================================================
