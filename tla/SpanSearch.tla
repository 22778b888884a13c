----------------------------- MODULE SpanSearch -----------------------------
(***************************************************************************)
(* What OpenObserve is asked for (configuration/openobserve/repository.go, *)
(* prepareHTTPRequest): the spans of a trace that started in the last      *)
(* minutes, by start time, and only as many as the size of the search.     *)
(* TraceFetch asks again and again, while TraceBuild has what one answer   *)
(* is made of.                                                             *)
(***************************************************************************)
EXTENDS Integers, FiniteSets

CONSTANTS
    Buffer,    \* START_TIME_BUFFER: how far back OpenObserve is searched
    MaxHits    \* the size of the search: 1000 in the code

ASSUME SearchAssumption == Buffer \in Nat /\ MaxHits \in Nat \ {0}

\* The start times that a search looks at.
Window(now) == (now - Buffer)..now

\* The earliest of what was found, as many as the search has room for; of
\* spans that started together any may be left out.
Earliest(found, start) ==
    {hits \in SUBSET found :
        /\ Cardinality(hits) = IF Cardinality(found) < MaxHits
                               THEN Cardinality(found) ELSE MaxHits
        /\ \A h \in hits, s \in found \ hits : start[h] <= start[s]}

-----------------------------------------------------------------------------
(* The two ways in which a span that was found once is missing later.      *)

\* All that is found started after it.
Outlived(s, hits, start) == \A h \in hits : start[s] < start[h]

\* There is no room for it: nothing that is found started after it.
CutOff(s, hits, start) ==
    Cardinality(hits) = MaxHits /\ \A h \in hits : start[h] <= start[s]
=============================================================================
