----------------------------- MODULE TraceProofs -----------------------------
(***************************************************************************)
(* Proofs about a trace on its way: Fetch (TraceFetch) for any spans, any  *)
(* awaited span and any times, and then the trace that is built and put in *)
(* order (SpanSort, TraceBuild) for any reply of the backends: any number  *)
(* of spans, with any IDs, parents and start times.  Last the analytics of *)
(* any runs that made such traces (Analytics).                             *)
(***************************************************************************)
EXTENDS TraceFetch, Analytics, FiniteSetTheorems, TLAPS

-----------------------------------------------------------------------------
(* Fetch.                                                                  *)

(* What a search finds but leaves out it had to leave out: it is full of   *)
(* spans that started no later.                                            *)
LEMMA SearchExcuses ==
    ASSUME NEW found, NEW start, IsFiniteSet(found),
           NEW hits \in Earliest(found, start), NEW s \in found \ hits
    PROVE  CutOff(s, hits, start)
<1>1. hits \subseteq found /\ IsFiniteSet(hits)
  BY FS_Subset DEF Earliest
<1>2. \A h \in hits : start[h] <= start[s]
  BY DEF Earliest
<1>3. Cardinality(hits) # Cardinality(found)
  BY <1>1, FS_Subset
<1>4. Cardinality(hits) = MaxHits
  BY <1>3 DEF Earliest
<1> QED
  BY <1>2, <1>4 DEF CutOff

(* Before the first request nothing was received.                          *)
LEMMA InitFetchInv == Init => FetchInv
<1> SUFFICES ASSUME Init PROVE FetchInv
  OBVIOUS
<1>1. /\ left \in 0..Timeout /\ phase \in 0..(RetryDelay - 1) /\ flight \in 0..GetTimeout
      /\ clock \in 0..Horizon /\ asked \in 0..clock
  BY TimesAssumption, HorizonAssumption DEF Init
<1>2. /\ pc \in {"get", "waiting", "select", "returned"}
      /\ result \in {"pending", "trace", "notFound", "malformed"}
      /\ backend \in {"jaeger", "openobserve"}
      /\ tick \in BOOLEAN
  BY DEF Init
<1>3. /\ tr \in SUBSET Spans /\ ingested \in SUBSET Spans
      /\ answer \in SUBSET ingested /\ received \in SUBSET SUBSET ingested
  BY Zenon DEF Init
<1>4. Recency /\ Timely
  BY DEF Init, Recency, Timely
<1> QED
  BY <1>1, <1>2, <1>3, <1>4 DEF FetchInv, TypeOK

(* Every action keeps the types.                                           *)
LEMMA FetchTypes == TypeOK /\ [Next]_vars => TypeOK'
<1> SUFFICES ASSUME TypeOK, [Next]_vars PROVE TypeOK'
  OBVIOUS
<1> USE TimesAssumption, HorizonAssumption DEF TypeOK, callVars, timeVars
<1>1. ASSUME NEW s \in Spans, Ingest(s) PROVE TypeOK'
  BY <1>1 DEF Ingest
<1>2. CASE Serve
  <2>1. answer' \in SUBSET ingested
    BY <1>2 DEF Serve, Findable, Earliest
  <2> QED
    BY <1>2, <2>1 DEF Serve
<1>3. CASE Elapse
  <2>1. left' \in 0..Timeout /\ clock' \in 0..Horizon /\ clock <= clock'
    BY <1>3 DEF Elapse
  <2>2. phase' \in 0..(RetryDelay - 1) /\ tick' \in BOOLEAN
    BY <1>3 DEF Elapse
  <2>3. flight' \in 0..GetTimeout
    BY <1>3 DEF Elapse
  <2>4. UNCHANGED <<backend, asked, pc, tr, result, ingested, answer, received>>
    BY <1>3 DEF Elapse
  <2>5. asked' \in 0..clock'
    BY <2>1, <2>4
  <2> QED
    BY <2>1, <2>2, <2>3, <2>4, <2>5
<1>4. CASE Get
  <2>1. asked' \in 0..clock'
    BY <1>4 DEF Get
  <2> QED
    BY <1>4, <2>1 DEF Get
<1>5. CASE GetFails
  BY <1>5 DEF GetFails
<1>6. CASE GetSucceeds
  BY <1>6 DEF GetSucceeds
<1>7. CASE ConversionFails
  BY <1>7 DEF ConversionFails
<1>8. CASE Retry
  BY <1>8 DEF Retry
<1>9. CASE Expire
  BY <1>9 DEF Expire
<1>10. CASE UNCHANGED vars
  BY <1>10 DEF vars
<1> QED
  BY <1>1, <1>2, <1>3, <1>4, <1>5, <1>6, <1>7, <1>8, <1>9, <1>10
     DEF Next, Returned

(* The backend has an excuse for every span that its answer lacks.         *)
LEMMA ServeExcuses ==
    ASSUME FetchInv, Serve
    PROVE  /\ \A s \in (UNION received) \ answer' : Excused(s, answer')
           /\ backend = "openobserve" => \A s \in answer' : Start[s] <= asked
<1>1. answer' \in Findable /\ UNION received \subseteq ingested
  BY DEF Serve, FetchInv, TypeOK
<1>4. ingested \subseteq Spans /\ asked \in Int /\ backend \in {"jaeger", "openobserve"}
  BY HorizonAssumption DEF FetchInv, TypeOK
<1>2. CASE backend = "jaeger"
  BY <1>1, <1>2 DEF Findable
<1>3. CASE backend = "openobserve"
  <2> DEFINE found == {s \in ingested : Start[s] \in Window(asked)}
  <2>1. /\ answer' \subseteq found
        /\ answer' \in Earliest(found, Start)
    BY <1>1, <1>3 DEF Findable, Earliest
  <2>2. \A s \in Spans : Start[s] \in Int
    BY SpansAssumption
  <2>3. /\ asked \in Int /\ Buffer \in Int
        /\ \A s \in found : Start[s] \in (asked - Buffer)..asked
    BY <1>4, SearchAssumption DEF Window
  <2>4. \A s \in answer' : Start[s] <= asked /\ Start[s] >= asked - Buffer
    BY <1>4, <2>1, <2>2, <2>3
  <2>5. IsFiniteSet(found)
    BY <1>4, SpansAssumption, FS_Subset
  <2>6. ASSUME NEW s \in UNION received, s \notin answer'
        PROVE  Excused(s, answer')
    <3>1. s \in ingested /\ Start[s] <= asked
      BY <1>1, <1>3, <2>6 DEF FetchInv, Timely
    <3>2. CASE Start[s] < asked - Buffer
      <4>1. \A h \in answer' : Start[s] < Start[h]
        <5>1. \A h \in answer' : h \in Spans
          BY <1>4, <2>1
        <5>2. s \in Spans
          BY <1>4, <3>1
        <5> QED
          BY <2>2, <2>3, <2>4, <3>2, <5>1, <5>2
      <4> QED
        BY <1>3, <3>2, <4>1 DEF Excused, Outlived
    <3>3. CASE ~(Start[s] < asked - Buffer)
      <4>1. s \in found
        BY <1>4, <2>2, <2>3, <3>1, <3>3 DEF Window
      <4> HIDE DEF found
      <4>2. CutOff(s, answer', Start)
        BY <2>1, <2>5, <2>6, <4>1, SearchExcuses
      <4> QED
        BY <1>3, <4>2 DEF Excused
    <3> QED
      BY <3>2, <3>3
  <2> HIDE DEF found
  <2> QED
    BY <2>4, <2>6
<1> QED
  BY <1>2, <1>3, <1>4

(* An excuse stays good when the next request is sent.                     *)
LEMMA ExcusesStay ==
    ASSUME TypeOK, TypeOK', UNCHANGED backend, asked' \in {asked, clock},
           NEW s \in Spans, NEW version, Excused(s, version)
    PROVE  /\ backend' = "openobserve"
           /\ \/ Start[s] < asked' - Buffer /\ Outlived(s, version, Start)
              \/ CutOff(s, version, Start)
<1>1. Start[s] \in Int /\ Buffer \in Int /\ clock \in Int /\ asked \in Int /\ asked <= clock
  BY SpansAssumption, SearchAssumption, HorizonAssumption DEF TypeOK
<1>2. Start[s] < asked - Buffer => Start[s] < asked' - Buffer
  BY <1>1
<1> QED
  BY <1>2 DEF Excused

(* Every action keeps the excuses for what the trace lacks.                *)
LEMMA FetchStep == FetchInv /\ [Next]_vars => FetchInv'
<1> SUFFICES ASSUME FetchInv, [Next]_vars PROVE Timely' /\ Recency'
  BY FetchTypes DEF FetchInv
<1>1. TypeOK /\ TypeOK' /\ Timely /\ Recency
  BY FetchTypes DEF FetchInv
<1> USE DEF callVars, timeVars
<1>2. ASSUME UNCHANGED <<backend, asked, tr, result, answer, received>>,
             result = "pending" \/ left' = left,
             pc' = pc \/ (pc = "select" /\ pc' = "get")
      PROVE  Timely' /\ Recency'
  BY <1>1, <1>2 DEF Timely, Recency, Excused
<1>3. CASE Serve
  <2>1. /\ pc = "waiting" /\ answer' # {}
        /\ UNCHANGED <<backend, asked, pc, tr, result, left, received>>
    BY <1>3 DEF Serve
  <2>2. /\ \A s \in (UNION received) \ answer' : Excused(s, answer')
        /\ backend = "openobserve" => \A s \in answer' : Start[s] <= asked
    BY <1>3, ServeExcuses
  <2>3. Timely'
    <3>1. backend = "openobserve" => \A s \in UNION received : Start[s] <= asked
      BY <1>1, Zenon DEF Timely
    <3> DEFINE known == UNION received
    <3>2. known' = known
      BY <2>1
    <3> HIDE DEF known
    <3>3. (backend = "openobserve" => \A s \in known \cup answer : Start[s] <= asked)'
      BY <2>1, <2>2, <3>1, <3>2 DEF known
    <3> QED
      BY <3>3 DEF known, Timely
  <2>4. Recency'
    BY <1>1, <2>1, <2>2 DEF Recency, Excused
  <2> QED
    BY <2>3, <2>4
<1>4. CASE Get
  <2>1. /\ pc = "get" /\ pc' = "waiting" /\ answer' = {} /\ asked' = clock
        /\ UNCHANGED <<backend, tr, result, left, received>>
    BY <1>4 DEF Get
  <2>2. ASSUME NEW s \in UNION received, s \notin tr, Excused(s, tr)
        PROVE  Excused(s, tr)'
    <3>1. s \in Spans
      BY <1>1, <2>2 DEF TypeOK
    <3>2. /\ backend' = "openobserve"
          /\ \/ Start[s] < asked' - Buffer /\ Outlived(s, tr, Start)
             \/ CutOff(s, tr, Start)
      BY <1>1, <2>1, <2>2, <3>1, ExcusesStay
    <3> QED
      BY <2>1, <3>2 DEF Excused
  <2>3. Timely'
    <3>1. \A s \in UNION received : Start[s] \in Int /\ (backend = "openobserve" => Start[s] <= asked)
      BY <1>1, SpansAssumption DEF TypeOK, Timely
    <3>2. asked <= clock /\ asked \in Int /\ clock \in Int
      BY <1>1, HorizonAssumption DEF TypeOK
    <3> QED
      BY <2>1, <3>1, <3>2 DEF Timely
  <2>4. Recency'
    BY <1>1, <2>1, <2>2 DEF Recency
  <2> QED
    BY <2>3, <2>4
<1>5. CASE GetFails
  BY <1>1, <1>5 DEF GetFails, Timely, Recency, Excused
<1>6. CASE GetSucceeds
  <2>1. /\ pc = "waiting" /\ answer # {} /\ tr' = answer /\ answer' = {}
        /\ received' = received \cup {answer}
        /\ UNCHANGED <<backend, asked, left>>
        /\ \/ LastMatches(answer) /\ pc' = "returned" /\ result' = "trace"
           \/ pc' = "select" /\ result' = result
    BY <1>6 DEF GetSucceeds
  <2>2. ((UNION received) \cup answer)' = (UNION received) \cup answer
    BY <2>1
  <2>3. Timely'
    BY <1>1, <2>1, <2>2, Zenon DEF Timely
  <2>4. {} \notin received' /\ tr' # {} /\ tr' \in received' /\ result = "pending"
    BY <1>1, <2>1 DEF Recency
  <2>5. ASSUME NEW s \in UNION received', s \notin tr'
        PROVE  Excused(s, tr)'
    <3>1. s \in (UNION received) \ answer
      BY <2>1, <2>5
    <3>2. Excused(s, answer)
      BY <1>1, <2>1, <3>1 DEF Recency
    <3> QED
      BY <2>1, <3>2 DEF Excused
  <2>6. Recency'
    BY <2>1, <2>4, <2>5 DEF Recency
  <2> QED
    BY <2>3, <2>6
<1>7. CASE ConversionFails
  BY <1>1, <1>7 DEF ConversionFails, Timely, Recency
<1>8. CASE Expire
  <2>1. /\ pc = "select" /\ left = 0 /\ pc' = "returned"
        /\ result' = IF tr = {} THEN "notFound" ELSE "trace"
        /\ UNCHANGED <<backend, asked, tr, left, answer, received>>
    BY <1>8 DEF Expire
  <2>2. answer = {} /\ result = "pending"
    BY <1>1, <2>1 DEF Recency
  <2>3. Timely'
    BY <1>1, <2>1 DEF Timely
  <2>4. Recency'
    BY <1>1, <2>1, <2>2 DEF Recency, Excused
  <2> QED
    BY <2>3, <2>4
<1>9. CASE (\E s \in Spans : Ingest(s)) \/ Elapse \/ Retry \/ UNCHANGED vars
  <2>1. /\ UNCHANGED <<backend, asked, tr, result, answer, received>>
        /\ pc # "returned" \/ left' = left
        /\ pc' = pc \/ (pc = "select" /\ pc' = "get")
    BY <1>9 DEF Ingest, Elapse, Retry, vars
  <2>2. result = "pending" \/ left' = left
    BY <1>1, <2>1 DEF Recency
  <2> QED
    BY <1>2, <2>1, <2>2
<1> QED
  BY <1>3, <1>4, <1>5, <1>6, <1>7, <1>8, <1>9 DEF Next, Returned

(* What Fetch keeps lacks a span it received, and a new answer a span of an *)
(* earlier one, only if the search had to leave it out: for any spans and   *)
(* start times, any awaited span, any window and size of the search.        *)
THEOREM FetchInvariant == Spec => []FetchInv
<1>1. FetchInv /\ [Next]_vars => FetchInv'
  BY FetchStep
<1> QED
  BY InitFetchInv, <1>1, PTL DEF Spec

(* Failed requests and timeouts never cost a span that was received; the    *)
(* search does at the ends of the trace only, and only in OpenObserve.      *)
THEOREM NothingLostCorrect == Spec => []NothingLost
<1>1. FetchInv => NothingLost
  BY DEF FetchInv, TypeOK, Recency, NothingLost
<1> QED
  BY FetchInvariant, <1>1, PTL

(* Before the deadline only the awaited span or a broken answer ends the   *)
(* loop.                                                                   *)
THEOREM NoEarlyEndCorrect == Spec => []NoEarlyEnd
<1>1. FetchInv => NoEarlyEnd
  BY TimesAssumption DEF FetchInv, TypeOK, Recency, NoEarlyEnd
<1> QED
  BY FetchInvariant, <1>1, PTL

(* The loop, with its timer, ticker and requests, implements the contract:  *)
(* from one version to the next the trace grows in Jaeger, and in           *)
(* OpenObserve loses spans at its ends only.                                *)
THEOREM FetchImplements == Spec => KeepsContract
<1> USE DEF Contract!CNext
<1>1. Init => Contract!CInit
  BY DEF Init, Contract!CInit
<1>2. FetchInv /\ [Next]_vars => [Contract!CNext]_(Contract!cvars)
  <2> SUFFICES ASSUME FetchInv, [Next]_vars
               PROVE  Contract!CNext \/ UNCHANGED <<backend, tr, result>>
    BY DEF Contract!cvars
  <2>1. CASE GetSucceeds
    <3>1. answer \in (SUBSET Spans) \ {{}} /\ result = "pending"
      BY <2>1 DEF GetSucceeds, FetchInv, TypeOK, Recency
    <3>2. tr \subseteq UNION received
      BY <3>1 DEF FetchInv, TypeOK, Recency
    <3>3. ASSUME NEW s \in tr \ answer PROVE Contract!MayDrop(s, answer)
      <4>1. Excused(s, answer)
        BY <3>1, <3>2 DEF FetchInv, Recency
      <4>2. Outlived(s, answer, Start) <=> Contract!Outlived(s, answer, Start)
        BY DEF Outlived, Contract!Outlived
      <4>3. CutOff(s, answer, Start) <=> Contract!CutOff(s, answer, Start)
        BY DEF CutOff, Contract!CutOff, Cardinality, Contract!Cardinality
      <4> QED
        BY <4>1, <4>2, <4>3 DEF Excused, Contract!MayDrop
    <3>4. Contract!See(answer)
      BY <2>1, <3>1, <3>2, <3>3 DEF GetSucceeds, Contract!See, callVars
    <3> QED
      BY <3>1, <3>4
  <2>2. CASE ConversionFails
    BY <2>2 DEF ConversionFails, FetchInv, Recency, TypeOK, callVars, Contract!Abort
  <2>3. CASE Expire
    BY <2>3 DEF Expire, FetchInv, Recency, TypeOK, callVars, Contract!GiveUp
  <2>4. CASE UNCHANGED <<backend, tr, result>>
    BY <2>4
  <2> QED
    BY <2>1, <2>2, <2>3, <2>4
       DEF Next, Returned, vars, callVars, Ingest, Serve, Elapse, Get, GetFails, Retry
<1> QED
  BY FetchInvariant, <1>1, <1>2, PTL DEF Spec, KeepsContract, Contract!CSpec

-----------------------------------------------------------------------------
(* Positions in an order.                                                  *)

(* How many numbers there are up to n.                                     *)
LEMMA IntervalSize ==
    ASSUME NEW n \in Nat
    PROVE  IsFiniteSet(1..n) /\ Cardinality(1..n) = n
<1>1. 1 \in Int /\ n \in Int
  OBVIOUS
<1>2. /\ IsFiniteSet(1..n)
      /\ Cardinality(1..n) = IF 1 > n THEN 0 ELSE n - 1 + 1
  BY <1>1, FS_Interval
<1> QED
  BY <1>2

(* In a finite total order, every number below the size is the rank of a   *)
(* position: before[i] are the positions that come before i.               *)
LEMMA Ranks ==
    ASSUME NEW P, IsFiniteSet(P), NEW before \in [P -> SUBSET P],
           \A i \in P : i \notin before[i],
           \A i, j \in P : i # j => i \in before[j] \/ j \in before[i],
           \A i, j \in P : i \in before[j] => before[i] \subseteq before[j]
    PROVE  /\ \A i \in P : Cardinality(before[i]) \in 0..(Cardinality(P) - 1)
           /\ \A i, j \in P : i \in before[j] => Cardinality(before[i]) < Cardinality(before[j])
           /\ \A n \in 0..(Cardinality(P) - 1) : \E i \in P : Cardinality(before[i]) = n
<1> DEFINE size == Cardinality(P)
           rank == [i \in P |-> Cardinality(before[i])]
           ranks == {rank[i] : i \in P}
<1>1. \A i \in P : IsFiniteSet(before[i]) /\ Cardinality(before[i]) \in Nat
  BY FS_Subset, FS_CardinalityType
<1>2. size \in Nat
  BY FS_CardinalityType
<1>3. ASSUME NEW i \in P PROVE Cardinality(before[i]) \in 0..(size - 1)
  <2>1. before[i] \subseteq P /\ before[i] # P
    OBVIOUS
  <2>2. Cardinality(before[i]) <= size /\ Cardinality(before[i]) # size
    BY <2>1, FS_Subset
  <2> QED
    BY <1>1, <1>2, <2>2
<1>4. ASSUME NEW i \in P, NEW j \in P, i \in before[j]
      PROVE  Cardinality(before[i]) < Cardinality(before[j])
  <2>1. before[i] \subseteq before[j] /\ before[i] # before[j]
    BY <1>4
  <2>2. /\ Cardinality(before[i]) <= Cardinality(before[j])
        /\ Cardinality(before[i]) # Cardinality(before[j])
    BY <1>1, <2>1, FS_Subset
  <2> QED
    BY <1>1, <2>2
<1>5. rank \in Injection(P, ranks) /\ rank \in Surjection(P, ranks)
  <2>1. \A i, j \in P : rank[i] = rank[j] => i = j
    BY <1>1, <1>4
  <2>2. rank \in [P -> ranks]
    OBVIOUS
  <2> QED
    BY <2>1, <2>2 DEF Injection, Surjection, IsInjective
<1>6. Cardinality(ranks) = size /\ IsFiniteSet(ranks)
  <2>1. ExistsBijection(P, ranks)
    BY <1>5 DEF ExistsBijection, Bijection
  <2> HIDE DEF ranks
  <2> QED
    BY <2>1, FS_Bijection
<1>7. ranks \subseteq 0..(size - 1)
  BY <1>3
<1>8. IsFiniteSet(0..(size - 1)) /\ Cardinality(0..(size - 1)) = size
  <2>1. 0 \in Int /\ size - 1 \in Int
    BY <1>2
  <2>2. IsFiniteSet(0..(size - 1))
        /\ Cardinality(0..(size - 1)) = IF 0 > size - 1 THEN 0 ELSE size - 1 - 0 + 1
    BY <2>1, FS_Interval
  <2> QED
    BY <1>2, <2>2
<1>9. ranks = 0..(size - 1)
  <2> DEFINE numbers == 0..(size - 1)
  <2>1. IsFiniteSet(numbers) /\ ranks \in SUBSET numbers /\ Cardinality(numbers) = Cardinality(ranks)
    BY <1>6, <1>7, <1>8
  <2> HIDE DEF numbers, ranks
  <2>2. numbers = ranks
    BY <2>1, FS_Subset
  <2> QED
    BY <2>2 DEF numbers
<1> QED
  BY <1>3, <1>4, <1>9

TotalOrder(P, before) ==
    /\ IsFiniteSet(P)
    /\ before \in [P -> SUBSET P]
    /\ \A i \in P : i \notin before[i]
    /\ \A i, j \in P : i # j => i \in before[j] \/ j \in before[i]
    /\ \A i, j \in P : i \in before[j] => before[i] \subseteq before[j]

\* Position at[k] has the k-th place.
Places(list, P, before, at) ==
    /\ at \in [1..Cardinality(P) -> P]
    /\ Arrange(list, before) = [k \in 1..Cardinality(P) |-> list[at[k]]]
    /\ \A i \in P : \E k \in 1..Cardinality(P) :
          at[k] = i /\ k = Cardinality(before[i]) + 1
    /\ \A k \in 1..Cardinality(P) : \A j \in 1..(k - 1) : at[j] \in before[at[k]]

(* Arrange gives every position a place: that of the position with k - 1    *)
(* others before it is k.                                                   *)
LEMMA Arranged ==
    ASSUME NEW list, NEW P, NEW before, TotalOrder(P, before)
    PROVE  \E at : Places(list, P, before, at)
<1> DEFINE size == Cardinality(P)
           at == [k \in 1..size |-> CHOOSE i \in P : Cardinality(before[i]) = k - 1]
<1>1. /\ \A i \in P : Cardinality(before[i]) \in 0..(size - 1)
      /\ \A i, j \in P : i \in before[j] => Cardinality(before[i]) < Cardinality(before[j])
      /\ \A n \in 0..(size - 1) : \E i \in P : Cardinality(before[i]) = n
  BY Ranks DEF TotalOrder
<1>2. size \in Nat
  BY FS_CardinalityType DEF TotalOrder
<1>3. ASSUME NEW k \in 1..size
      PROVE  at[k] \in P /\ Cardinality(before[at[k]]) = k - 1
  <2>1. k - 1 \in 0..(size - 1)
    BY <1>2
  <2>2. \E i \in P : Cardinality(before[i]) = k - 1
    BY <1>1, <2>1
  <2>3. at[k] = CHOOSE i \in P : Cardinality(before[i]) = k - 1
    OBVIOUS
  <2> QED
    BY <2>2, <2>3
<1>4. at \in [1..size -> P]
  BY <1>3
<1>5. Arrange(list, before) = [k \in 1..size |-> list[at[k]]]
  <2>1. DOMAIN before = P
    BY DEF TotalOrder
  <2>2. Arrange(list, before)
          = [k \in 1..size |-> list[CHOOSE i \in P : Cardinality(before[i]) = k - 1]]
    BY <2>1 DEF Arrange
  <2>3. \A k \in 1..size : at[k] = CHOOSE i \in P : Cardinality(before[i]) = k - 1
    OBVIOUS
  <2> HIDE DEF at
  <2> QED
    BY <2>2, <2>3
<1>6. ASSUME NEW i \in P
      PROVE  \E k \in 1..size : at[k] = i /\ k = Cardinality(before[i]) + 1
  <2> DEFINE k == Cardinality(before[i]) + 1
  <2>1. k \in 1..size /\ Cardinality(before[i]) = k - 1
    BY <1>1, <1>2
  <2>2. at[k] \in P /\ Cardinality(before[at[k]]) = Cardinality(before[i])
    BY <1>3, <2>1
  <2> HIDE DEF at, k
  <2>3. at[k] = i
    BY <1>1, <2>2 DEF TotalOrder
  <2> QED
    BY <2>1, <2>3 DEF k
<1>7. ASSUME NEW k \in 1..size, NEW j \in 1..(k - 1)
      PROVE  at[j] \in before[at[k]]
  <2>1. j \in 1..size /\ j < k
    BY <1>2
  <2>2. /\ at[j] \in P /\ at[k] \in P
        /\ Cardinality(before[at[j]]) = j - 1 /\ Cardinality(before[at[k]]) = k - 1
    BY <1>3, <2>1
  <2> HIDE DEF at
  <2>3. at[j] # at[k] /\ at[k] \notin before[at[j]]
    BY <1>1, <2>1, <2>2
  <2> QED
    BY <2>2, <2>3 DEF TotalOrder
<1> HIDE DEF at
<1>8. Places(list, P, before, at)
  BY <1>4, <1>5, <1>6, <1>7 DEF Places
<1> QED
  BY <1>8

(* Positions of a list in their own order.                                 *)
LEMMA KeepProperties ==
    ASSUME NEW S, NEW list \in Seq(S), NEW P \in SUBSET (DOMAIN list)
    PROVE  /\ Keep(list, P) \in Seq(S)
           /\ \A k \in DOMAIN Keep(list, P) : \E i \in P : Keep(list, P)[k] = list[i]
           /\ \A i \in P : \E k \in DOMAIN Keep(list, P) : Keep(list, P)[k] = list[i]
<1> DEFINE before == [i \in P |-> {j \in P : j < i}]
           size == Cardinality(P)
<1>1. DOMAIN list = 1..Len(list) /\ Len(list) \in Nat /\ \A i \in DOMAIN list : list[i] \in S
  OBVIOUS
<1>2. IsFiniteSet(P) /\ size \in Nat
  <2>1. IsFiniteSet(1..Len(list))
    BY <1>1, IntervalSize
  <2> QED
    BY <1>1, <2>1, FS_Subset, FS_CardinalityType
<1>3. \A i \in P : i \in Nat
  BY <1>1
<1>4. TotalOrder(P, before)
  BY <1>2, <1>3 DEF TotalOrder
<1>5. Keep(list, P) = Arrange(list, before)
  BY DEF Keep
<1> HIDE DEF before
<1>6. PICK at : Places(list, P, before, at)
  BY <1>4, Arranged
<1>7. /\ at \in [1..size -> P] /\ Keep(list, P) = [k \in 1..size |-> list[at[k]]]
      /\ \A i \in P : \E k \in 1..size : at[k] = i
  BY <1>5, <1>6 DEF Places
<1> HIDE DEF size
<1>8. \A k \in 1..size : at[k] \in P /\ list[at[k]] \in S
  BY <1>1, <1>7
<1>9. Keep(list, P) \in Seq(S)
  BY <1>2, <1>7, <1>8
<1>10. DOMAIN Keep(list, P) = 1..size /\ \A k \in 1..size : Keep(list, P)[k] = list[at[k]]
  BY <1>7
<1>11. \A k \in DOMAIN Keep(list, P) : \E i \in P : Keep(list, P)[k] = list[i]
  BY <1>8, <1>10
<1>12. \A i \in P : \E k \in DOMAIN Keep(list, P) : Keep(list, P)[k] = list[i]
  BY <1>7, <1>10
<1> QED
  BY <1>9, <1>11, <1>12

(* What is kept of a list comes as in the list.                            *)
LEMMA KeepInOrder ==
    ASSUME NEW S, NEW list \in Seq(S), NEW P \in SUBSET (DOMAIN list)
    PROVE  \A m \in DOMAIN Keep(list, P) : \A k \in 1..(m - 1) :
              ComesBefore(Keep(list, P)[k], Keep(list, P)[m], list)
<1> DEFINE before == [i \in P |-> {j \in P : j < i}]
           size == Cardinality(P)
<1>1. DOMAIN list = 1..Len(list) /\ Len(list) \in Nat
  OBVIOUS
<1>2. IsFiniteSet(P) /\ size \in Nat
  <2>1. IsFiniteSet(1..Len(list))
    BY <1>1, IntervalSize
  <2> QED
    BY <1>1, <2>1, FS_Subset, FS_CardinalityType
<1>3. \A i \in P : i \in Nat
  BY <1>1
<1>4. TotalOrder(P, before)
  BY <1>2, <1>3 DEF TotalOrder
<1>5. Keep(list, P) = Arrange(list, before)
  BY DEF Keep
<1>6. \A i, j \in P : j \in before[i] => j < i
  OBVIOUS
<1> HIDE DEF before
<1>7. PICK at : Places(list, P, before, at)
  BY <1>4, Arranged
<1>8. /\ at \in [1..size -> P] /\ Keep(list, P) = [k \in 1..size |-> list[at[k]]]
      /\ \A k \in 1..size : \A j \in 1..(k - 1) : at[j] \in before[at[k]]
  BY <1>5, <1>7 DEF Places
<1> HIDE DEF size
<1>9. ASSUME NEW m \in 1..size, NEW k \in 1..(m - 1)
      PROVE  ComesBefore(Keep(list, P)[k], Keep(list, P)[m], list)
  <2>1. k \in 1..size
    BY <1>2
  <2>2. at[k] \in P /\ at[m] \in P /\ at[k] < at[m]
    BY <1>6, <1>8, <2>1
  <2>3. Keep(list, P)[k] = list[at[k]] /\ Keep(list, P)[m] = list[at[m]]
    BY <1>8, <2>1
  <2> QED
    BY <2>2, <2>3 DEF ComesBefore
<1> QED
  BY <1>8, <1>9

(* The stable sort by start time is a rearrangement of the list, and of two *)
(* spans the one placed earlier does not start later; if they start         *)
(* together, it came earlier.                                               *)
LEMMA SortProperties ==
    ASSUME NEW S, NEW list \in Seq(S), \A i \in DOMAIN list : list[i].start \in Nat
    PROVE  \E at \in [DOMAIN list -> DOMAIN list] :
              /\ SortByStart(list) = [k \in DOMAIN list |-> list[at[k]]]
              /\ \A i \in DOMAIN list : \E k \in DOMAIN list :
                    at[k] = i /\ k = Cardinality(Sooner(list)[i]) + 1
              /\ \A k \in DOMAIN list : \A j \in 1..(k - 1) : at[j] \in Sooner(list)[at[k]]
<1> DEFINE P == DOMAIN list
           before == Sooner(list)
<1>1. P = 1..Len(list) /\ Len(list) \in Nat
  OBVIOUS
<1>2. IsFiniteSet(P) /\ Cardinality(P) = Len(list)
  <2>1. IsFiniteSet(1..Len(list)) /\ Cardinality(1..Len(list)) = Len(list)
    BY <1>1, IntervalSize
  <2> QED
    BY <1>1, <2>1
<1>3. \A i \in P : i \in Nat /\ list[i].start \in Nat
  BY <1>1
<1> HIDE DEF P
<1>4. TotalOrder(P, before)
  <2>1. before = [i \in P |->
            {j \in P : \/ list[j].start < list[i].start
                       \/ list[j].start = list[i].start /\ j < i}]
    BY DEF Sooner, P
  <2> HIDE DEF before
  <2> QED
    BY <1>2, <1>3, <2>1 DEF TotalOrder
<1> HIDE DEF before
<1>5. PICK at : Places(list, P, before, at)
  BY <1>4, Arranged
<1>6. SortByStart(list) = Arrange(list, before)
  BY DEF SortByStart, before
<1>7. 1..Cardinality(P) = P
  BY <1>1, <1>2
<1>8. /\ at \in [P -> P] /\ SortByStart(list) = [k \in P |-> list[at[k]]]
      /\ \A i \in P : \E k \in P : at[k] = i /\ k = Cardinality(before[i]) + 1
      /\ \A k \in P : \A j \in 1..(k - 1) : at[j] \in before[at[k]]
  BY <1>5, <1>6, <1>7 DEF Places
<1> QED
  BY <1>8 DEF P, before

(* However the start times compare, sorting gives a list of the same length.*)
LEMMA SortLength ==
    ASSUME NEW S, NEW list \in Seq(S)
    PROVE  DOMAIN SortByStart(list) = 1..Len(list)
<1>1. DOMAIN Sooner(list) = 1..Len(list) /\ Len(list) \in Nat
  BY DEF Sooner
<1>2. Cardinality(1..Len(list)) = Len(list)
  BY <1>1, IntervalSize
<1> QED
  BY <1>1, <1>2 DEF SortByStart, Arrange
-----------------------------------------------------------------------------
(* The stack of siblings.                                                  *)

Stack(M) == Seq(Seq(M))

\* The stack without the next sibling.
Rest(levels) == [levels EXCEPT ![Len(levels)] = Tail(levels[Len(levels)])]

(* A sequence with one member replaced at its end.                         *)
LEMMA LastReplaced ==
    ASSUME NEW S, NEW list \in Seq(S), list # <<>>, NEW s \in S
    PROVE  LET new == [list EXCEPT ![Len(list)] = s]
           IN  /\ new \in Seq(S) /\ DOMAIN new = DOMAIN list
               /\ Len(list) \in DOMAIN list /\ new[Len(list)] = s
               /\ \A d \in DOMAIN list : d # Len(list) => new[d] = list[d]
  OBVIOUS

(* Taking the next sibling out leaves all others on the stack.             *)
LEMMA PopWaits ==
    ASSUME NEW M, NEW levels \in Stack(M), levels # <<>>,
           levels[Len(levels)] # <<>>
    PROVE  /\ Rest(levels) \in Stack(M)
           /\ Head(levels[Len(levels)]) \in M
           /\ Waits(levels, Head(levels[Len(levels)]))
           /\ \A s : Waits(Rest(levels), s) => Waits(levels, s)
           /\ \A s : Waits(levels, s) =>
                 s = Head(levels[Len(levels)]) \/ Waits(Rest(levels), s)
<1> DEFINE top == Len(levels)
           level == levels[top]
           rest == [levels EXCEPT ![top] = Tail(level)]
<1>1. level \in Seq(M) /\ level # <<>> /\ top \in DOMAIN levels
  BY DEF Stack
<1>2. /\ Tail(level) \in Seq(M) /\ Head(level) \in M
      /\ Head(level) = level[1] /\ 1 \in DOMAIN level
      /\ DOMAIN level = 1..Len(level) /\ DOMAIN Tail(level) = 1..(Len(level) - 1)
      /\ Len(level) \in Nat \ {0}
      /\ \A k \in 1..(Len(level) - 1) : Tail(level)[k] = level[k + 1]
  <2> HIDE DEF level
  <2> QED
    BY <1>1
<1>3. Members(Tail(level)) \subseteq Members(level)
      /\ Members(level) \subseteq {Head(level)} \cup Members(Tail(level))
      /\ Head(level) \in Members(level)
  <2> HIDE DEF level
  <2>1. ASSUME NEW k \in DOMAIN Tail(level)
        PROVE  k + 1 \in DOMAIN level /\ Tail(level)[k] = level[k + 1]
    BY <1>2
  <2>2. ASSUME NEW k \in DOMAIN level, k # 1
        PROVE  k - 1 \in DOMAIN Tail(level) /\ Tail(level)[k - 1] = level[k]
    BY <1>2, <2>2
  <2> QED
    BY <1>2, <2>1, <2>2 DEF Members
<1>4. /\ rest \in Stack(M) /\ DOMAIN rest = DOMAIN levels
      /\ rest[top] = Tail(level)
      /\ \A d \in DOMAIN levels : d # top => rest[d] = levels[d]
  <2> HIDE DEF level
  <2>1. levels \in Seq(Seq(M)) /\ Tail(level) \in Seq(M)
    BY <1>2 DEF Stack
  <2> QED
    BY <2>1, LastReplaced DEF Stack
<1>5. rest = Rest(levels)
  BY DEF Rest
<1> HIDE DEF rest, top, level
<1>6. \A s : Waits(rest, s) => Waits(levels, s)
  BY <1>1, <1>3, <1>4 DEF Waits, level
<1>7. \A s : Waits(levels, s) => s = Head(level) \/ Waits(rest, s)
  BY <1>1, <1>3, <1>4 DEF Waits, level
<1>8. Waits(levels, Head(level))
  BY <1>1, <1>3 DEF Waits, level
<1> QED
  BY <1>2, <1>4, <1>5, <1>6, <1>7, <1>8 DEF top, level

(* The children of a span go on top.                                       *)
LEMMA PushWaits ==
    ASSUME NEW M, NEW levels \in Stack(M), NEW children \in Seq(M)
    PROVE  /\ Append(levels, children) \in Stack(M)
           /\ \A s : Waits(Append(levels, children), s) <=>
                 Waits(levels, s) \/ s \in Members(children)
<1> DEFINE new == Append(levels, children)
           top == Len(levels) + 1
<1>1. /\ new \in Seq(Seq(M)) /\ DOMAIN levels = 1..Len(levels) /\ Len(levels) \in Nat
      /\ DOMAIN new = 1..top /\ new[top] = children
      /\ \A d \in 1..Len(levels) : new[d] = levels[d]
  BY DEF Stack
<1> HIDE DEF new
<1>2. DOMAIN new = DOMAIN levels \cup {top} /\ \A d \in DOMAIN levels : new[d] = levels[d]
  BY <1>1
<1>3. new[top] = children
  BY <1>1
<1> HIDE DEF top
<1>4. \A s : Waits(new, s) <=> Waits(levels, s) \/ s \in Members(children)
  BY <1>2, <1>3 DEF Waits
<1> QED
  BY <1>1, <1>4 DEF new, Stack

(* A level that has been walked to its end held nothing any more.          *)
LEMMA UpWaits ==
    ASSUME NEW M, NEW levels \in Stack(M), levels # <<>>,
           levels[Len(levels)] = <<>>
    PROVE  /\ SubSeq(levels, 1, Len(levels) - 1) \in Stack(M)
           /\ Len(levels) = 1 => SubSeq(levels, 1, Len(levels) - 1) = <<>>
           /\ \A s : Waits(SubSeq(levels, 1, Len(levels) - 1), s) <=> Waits(levels, s)
<1> DEFINE new == SubSeq(levels, 1, Len(levels) - 1)
           top == Len(levels)
<1>1. levels \in Seq(Seq(M)) /\ top \in Nat \ {0} /\ DOMAIN levels = 1..top
  BY DEF Stack
<1>2. new = [d \in 1..(top - 1) |-> levels[d]]
  BY <1>1
<1>3. new \in Seq(Seq(M))
  BY <1>1, <1>2
<1>4. top = 1 => new = <<>>
  BY <1>1
<1> HIDE DEF new
<1>5. DOMAIN levels = DOMAIN new \cup {top} /\ \A d \in DOMAIN new : new[d] = levels[d]
  BY <1>1, <1>2
<1>6. Members(levels[top]) = {}
  BY DEF Members
<1> HIDE DEF top
<1>7. \A s : Waits(new, s) <=> Waits(levels, s)
  BY <1>5, <1>6 DEF Waits
<1> QED
  BY <1>3, <1>4, <1>7 DEF new, top, Stack
-----------------------------------------------------------------------------
(* The walk.                                                               *)

(* What is kept of a list is of the list, by position and by member.       *)
LEMMA RootsAndChildren ==
    ASSUME NEW list, list \in Seq(Members(list)), NEW id
    PROVE  /\ Roots(list) \in Seq(Members(list))
           /\ \A s : s \in Members(Roots(list)) <=> s \in Members(list) /\ IsRoot(s, list)
           /\ ChildrenOf(id, list) \in Seq(Members(list))
           /\ \A s : s \in Members(ChildrenOf(id, list)) <=>
                 s \in Members(list) /\ ~IsRoot(s, list) /\ s.parent = id
<1> DEFINE roots == {i \in DOMAIN list : IsRoot(list[i], list)}
           children == {i \in DOMAIN list : ~IsRoot(list[i], list) /\ list[i].parent = id}
           M == Members(list)
<1>1. Roots(list) = Keep(list, roots) /\ ChildrenOf(id, list) = Keep(list, children)
  BY DEF Roots, ChildrenOf
<1>2. list \in Seq(M) /\ roots \in SUBSET (DOMAIN list) /\ children \in SUBSET (DOMAIN list)
  OBVIOUS
<1> HIDE DEF M, roots, children
<1>3. /\ Keep(list, roots) \in Seq(M)
      /\ \A k \in DOMAIN Keep(list, roots) : \E i \in roots : Keep(list, roots)[k] = list[i]
      /\ \A i \in roots : \E k \in DOMAIN Keep(list, roots) : Keep(list, roots)[k] = list[i]
  BY <1>2, KeepProperties
<1>4. /\ Keep(list, children) \in Seq(M)
      /\ \A k \in DOMAIN Keep(list, children) : \E i \in children : Keep(list, children)[k] = list[i]
      /\ \A i \in children : \E k \in DOMAIN Keep(list, children) : Keep(list, children)[k] = list[i]
  BY <1>2, KeepProperties
<1>5. \A s : s \in Members(Keep(list, roots)) <=> \E i \in roots : s = list[i]
  BY <1>3 DEF Members
<1>6. \A s : s \in Members(Keep(list, children)) <=> \E i \in children : s = list[i]
  BY <1>4 DEF Members
<1>7. \A s : (\E i \in roots : s = list[i]) <=> s \in Members(list) /\ IsRoot(s, list)
  BY DEF roots, Members
<1>8. \A s : (\E i \in children : s = list[i]) <=>
          s \in Members(list) /\ ~IsRoot(s, list) /\ s.parent = id
  BY DEF children, Members
<1> QED
  BY <1>1, <1>3, <1>4, <1>5, <1>6, <1>7, <1>8 DEF M

(* The members of an appended list.                                        *)
LEMMA AppendMembers ==
    ASSUME NEW S, NEW list \in Seq(S), NEW s \in S
    PROVE  /\ Append(list, s) \in Seq(S)
           /\ DOMAIN Append(list, s) = 1..(Len(list) + 1)
           /\ DOMAIN list = 1..Len(list) /\ Len(list) \in Nat
           /\ \A k \in 1..Len(list) : Append(list, s)[k] = list[k]
           /\ Append(list, s)[Len(list) + 1] = s
           /\ Ids(Append(list, s)) = Ids(list) \cup {s.id}
<1> DEFINE new == Append(list, s)
           n == Len(list)
<1>1. /\ new \in Seq(S) /\ DOMAIN new = 1..(n + 1) /\ DOMAIN list = 1..n /\ n \in Nat
      /\ \A k \in 1..n : new[k] = list[k]
      /\ new[n + 1] = s
  OBVIOUS
<1> HIDE DEF new, n
<1>2. DOMAIN new = DOMAIN list \cup {n + 1}
  BY <1>1
<1>3. Ids(new) = Ids(list) \cup {s.id}
  BY <1>1, <1>2 DEF Ids
<1> QED
  BY <1>1, <1>3 DEF new, n

\* The result and the sets of IDs and siblings, as one step changes them.
VisitOf(s) ==
    /\ stage = "walk" /\ stage' = "walk" /\ spans' = spans /\ Len(spans) > 1
    /\ s \in Members(spans) /\ Waits(todo, s) /\ s.id \notin visited
    /\ visited' = visited \cup {s.id}
    /\ ordered' = Append(ordered, s)
    /\ todo' = Append(Rest(todo), ChildrenOf(s.id, spans))
    /\ Rest(todo) \in Stack(Members(spans))
    /\ \A r : Waits(Rest(todo), r) => Waits(todo, r)
    /\ \A r : Waits(todo, r) => r = s \/ Waits(Rest(todo), r)

\* A step that only takes what has been walked off the stack.
Pruned ==
    /\ stage = "walk" /\ spans' = spans /\ Len(spans) > 1
    /\ visited' = visited /\ ordered' = ordered
    /\ stage' = "walk" \/ (stage' = "done" /\ todo' = <<>>)
    /\ todo' \in Stack(Members(spans))
    /\ \A r : Waits(todo', r) => Waits(todo, r)
    /\ \A r : Waits(todo, r) => r.id \in visited \/ Waits(todo', r)

(* A visit is the visit of a span that waits.                              *)
LEMMA VisitCase ==
    ASSUME StackTypes, WalkByPlace, Visit PROVE \E s : VisitOf(s)
<1> DEFINE s == Head(todo[Len(todo)])
           M == Members(spans)
<1>1. todo \in Stack(M) /\ todo # <<>> /\ todo[Len(todo)] # <<>>
  BY DEF StackTypes, Visit, Level, Stack
<1>2. /\ stage = "walk" /\ stage' = stage /\ spans' = spans /\ Len(spans) > 1
      /\ s.id \notin visited /\ visited' = visited \cup {s.id}
      /\ ordered' = Append(ordered, s)
      /\ todo' = Append(Rest(todo), ChildrenOf(s.id, spans))
  BY DEF Visit, Level, Rest, WalkByPlace
<1> HIDE DEF M
<1>3. /\ Rest(todo) \in Stack(M) /\ s \in M /\ Waits(todo, s)
      /\ \A r : Waits(Rest(todo), r) => Waits(todo, r)
      /\ \A r : Waits(todo, r) => r = s \/ Waits(Rest(todo), r)
  BY <1>1, PopWaits
<1> HIDE DEF s
<1>4. VisitOf(s)
  BY <1>2, <1>3 DEF VisitOf, M
<1> QED
  BY <1>4

(* Skip and Up only prune.                                                 *)
LEMMA PruneCase ==
    ASSUME StackTypes, WalkByPlace, Skip \/ Up PROVE Pruned
<1> DEFINE M == Members(spans)
           top == todo[Len(todo)]
<1>1. /\ todo \in Stack(M) /\ todo # <<>> /\ stage = "walk" /\ spans' = spans
      /\ Len(spans) > 1 /\ visited' = visited /\ ordered' = ordered
  BY DEF StackTypes, WalkByPlace, Skip, Up, Stack
<1>2. CASE Skip
  <2>1. /\ top # <<>> /\ Head(top).id \in visited
        /\ todo' = Rest(todo) /\ stage' = stage
    BY <1>2 DEF Skip, Level, Rest
  <2> HIDE DEF M
  <2>2. /\ Rest(todo) \in Stack(M)
        /\ \A r : Waits(Rest(todo), r) => Waits(todo, r)
        /\ \A r : Waits(todo, r) => r = Head(top) \/ Waits(Rest(todo), r)
    BY <1>1, <2>1, PopWaits
  <2> HIDE DEF top
  <2> QED
    BY <1>1, <2>1, <2>2 DEF Pruned, M
<1>3. CASE Up
  <2>1. /\ top = <<>> /\ todo' = SubSeq(todo, 1, Len(todo) - 1)
        /\ stage' = "walk" \/ (stage' = "done" /\ Len(todo) = 1)
    BY <1>1, <1>3 DEF Up, Level
  <2> HIDE DEF M
  <2>2. /\ todo' \in Stack(M) /\ (Len(todo) = 1 => todo' = <<>>)
        /\ \A r : Waits(todo', r) <=> Waits(todo, r)
    BY <1>1, <2>1, UpWaits
  <2> QED
    BY <1>1, <2>1, <2>2 DEF Pruned, M
<1> QED
  BY <1>2, <1>3

(* The first step of the walk puts the roots on the stack.                 *)
LEMMA StartCase ==
    ASSUME StackTypes, WalkByPlace, StartWalk
    PROVE  /\ stage' = "walk" /\ spans' \in Seq(Members(spans')) /\ Len(spans') > 1
           /\ todo' \in Stack(Members(spans'))
           /\ \A r : Waits(todo', r) <=> r \in Members(spans') /\ IsRoot(r, spans')
           /\ visited' = {} /\ ordered' = <<>>
<1>1. /\ stage = "start" /\ Len(spans) > 1 /\ stage' = "walk" /\ spans' = SortByStart(spans)
      /\ todo' = <<Roots(spans')>> /\ visited' = {} /\ ordered' = <<>>
  BY DEF StartWalk, WalkByPlace
<1>2. DOMAIN spans' = 1..Len(spans) /\ Len(spans) \in Nat
  BY <1>1, SortLength DEF StackTypes
<1>3. spans' = [k \in 1..Len(spans) |-> spans'[k]]
  <2> DEFINE n == Cardinality(DOMAIN Sooner(spans))
  <2>1. SortByStart(spans) = [k \in 1..n |-> SortByStart(spans)[k]]
    BY DEF SortByStart, Arrange
  <2>2. DOMAIN SortByStart(spans) = 1..n
    BY DEF SortByStart, Arrange
  <2> HIDE DEF n
  <2>3. 1..n = 1..Len(spans)
    BY <1>1, <1>2, <2>2
  <2> QED
    BY <1>1, <2>1, <2>3
<1>4. \A k \in 1..Len(spans) : spans'[k] \in Members(spans')
  BY <1>2 DEF Members
<1>5. spans' \in Seq(Members(spans')) /\ Len(spans') = Len(spans)
  <2> DEFINE M == Members(spans')
  <2> HIDE DEF M
  <2>1. \A k \in 1..Len(spans) : spans'[k] \in M
    BY <1>4 DEF M
  <2>2. spans' \in [1..Len(spans) -> M]
    BY <1>3, <2>1
  <2>3. spans' \in Seq(M) /\ Len(spans') = Len(spans)
    BY <1>2, <2>2
  <2> QED
    BY <2>3 DEF M
<1>6. /\ Roots(spans') \in Seq(Members(spans'))
      /\ \A s : s \in Members(Roots(spans')) <=> s \in Members(spans') /\ IsRoot(s, spans')
  BY <1>5, RootsAndChildren
<1>7. todo' \in Stack(Members(spans')) /\ DOMAIN todo' = {1} /\ todo'[1] = Roots(spans')
  BY <1>1, <1>6 DEF Stack
<1>8. \A r : Waits(todo', r) <=> r \in Members(Roots(spans'))
  BY <1>7 DEF Waits
<1> QED
  BY <1>1, <1>5, <1>6, <1>7, <1>8
LEMMA TypesStep ==
    ASSUME WalkInv, Walk PROVE StackTypes' /\ WalkByPlace'
<1> USE DEF WalkInv
<1>1. CASE ReturnShort
  <2>1. /\ stage = "start" /\ stage' = "done" /\ ordered' = spans /\ Len(spans) <= 1
        /\ spans' = spans /\ todo' = todo /\ visited' = visited /\ todo = <<>>
    BY <1>1 DEF ReturnShort, WalkByPlace
  <2> QED
    BY <2>1 DEF StackTypes, WalkByPlace
<1>2. CASE StartWalk
  <2>1. /\ stage' = "walk" /\ spans' \in Seq(Members(spans')) /\ Len(spans') > 1
        /\ todo' \in Stack(Members(spans')) /\ ordered' = <<>>
    BY <1>2, StartCase
  <2>2. ordered' \in Seq(Members(spans'))
    BY <2>1
  <2> QED
    BY <2>1, <2>2 DEF StackTypes, WalkByPlace, Stack
<1>3. CASE Visit
  <2>1. PICK s : VisitOf(s)
    BY <1>3, VisitCase
  <2> DEFINE M == Members(spans)
  <2>2. ChildrenOf(s.id, spans) \in Seq(M)
    BY RootsAndChildren DEF StackTypes
  <2>3. s \in M /\ ordered \in Seq(M) /\ Rest(todo) \in Stack(M)
    BY <2>1 DEF VisitOf, StackTypes
  <2> HIDE DEF M
  <2>4. Append(Rest(todo), ChildrenOf(s.id, spans)) \in Stack(M)
    BY <2>2, <2>3, PushWaits
  <2>5. Append(ordered, s) \in Seq(M)
    BY <2>3, AppendMembers
  <2>6. M' = M
    BY <2>1 DEF VisitOf, M
  <2> QED
    BY <2>1, <2>4, <2>5, <2>6 DEF VisitOf, StackTypes, WalkByPlace, Stack, M
<1>4. CASE Skip \/ Up
  <2>1. Pruned
    BY <1>4, PruneCase
  <2> QED
    BY <2>1 DEF Pruned, StackTypes, WalkByPlace, Stack
<1> QED
  BY <1>1, <1>2, <1>3, <1>4 DEF Walk

(* What waits can be reached, and what can be reached was walked or waits.  *)
LEMMA FrontierStep ==
    ASSUME WalkInv, Walk PROVE Frontier'
<1> USE DEF WalkInv
<1>1. CASE ReturnShort
  BY <1>1 DEF ReturnShort, Frontier
<1>2. CASE StartWalk
  <2>1. /\ stage' = "walk" /\ Len(spans') > 1 /\ visited' = {} /\ ordered' = <<>>
        /\ \A r : Waits(todo', r) <=> r \in Members(spans') /\ IsRoot(r, spans')
    BY <1>2, StartCase
  <2>2. visited' = Ids(ordered')
    BY <2>1 DEF Ids
  <2>3. \A s : Reachable(s)' <=> IsRoot(s, spans')
    BY <2>1 DEF Reachable
  <2> QED
    BY <2>1, <2>2, <2>3 DEF Frontier
<1>3. CASE Visit
  <2>1. PICK s : VisitOf(s)
    BY <1>3, VisitCase
  <2> DEFINE M == Members(spans)
             children == ChildrenOf(s.id, spans)
  <2>2. /\ spans' = spans /\ Len(spans) > 1 /\ visited' = visited \cup {s.id}
        /\ ordered' = Append(ordered, s) /\ todo' = Append(Rest(todo), children)
        /\ \A r : Waits(Rest(todo), r) => Waits(todo, r)
        /\ \A r : Waits(todo, r) => r = s \/ Waits(Rest(todo), r)
        /\ s \in M /\ Rest(todo) \in Stack(M) /\ stage = "walk"
    BY <2>1 DEF VisitOf
  <2>3. children \in Seq(M) /\ \A r : r \in Members(children) <=>
                 r \in M /\ ~IsRoot(r, spans) /\ r.parent = s.id
    BY RootsAndChildren DEF StackTypes
  <2>4. /\ visited = Ids(ordered) /\ ordered \in Seq(M)
        /\ \A r \in M : Waits(todo, r) => IsRoot(r, spans) \/ r.parent \in visited
        /\ \A r \in M : IsRoot(r, spans) \/ r.parent \in visited =>
               r.id \in visited \/ Waits(todo, r)
    BY <2>2 DEF Frontier, Reachable, StackTypes
  <2> HIDE DEF M, children
  <2>5. \A r : Waits(todo', r) <=> Waits(Rest(todo), r) \/ r \in Members(children)
    BY <2>2, <2>3, PushWaits
  <2>6. visited' = Ids(ordered')
    BY <2>2, <2>4, AppendMembers
  <2>7. \A r \in M : Waits(todo', r) => IsRoot(r, spans) \/ r.parent \in visited'
    BY <2>2, <2>3, <2>4, <2>5
  <2>8. \A r \in M : IsRoot(r, spans) \/ r.parent \in visited' =>
            r.id \in visited' \/ Waits(todo', r)
    BY <2>2, <2>3, <2>4, <2>5
  <2> QED
    BY <2>2, <2>6, <2>7, <2>8 DEF Frontier, Reachable, M
<1>4. CASE Skip \/ Up
  <2>1. Pruned
    BY <1>4, PruneCase
  <2>2. /\ spans' = spans /\ visited' = visited /\ ordered' = ordered
        /\ \A r : Waits(todo', r) => Waits(todo, r)
        /\ \A r : Waits(todo, r) => r.id \in visited \/ Waits(todo', r)
        /\ stage = "walk" /\ Len(spans) > 1
    BY <2>1 DEF Pruned
  <2> QED
    BY <2>2 DEF Frontier, Reachable
<1> QED
  BY <1>1, <1>2, <1>3, <1>4 DEF Walk

(* A span is appended once its parent was, and only if its ID was not.      *)
LEMMA ParentFirstStep ==
    ASSUME WalkInv, Walk PROVE ParentFirstAndOnce'
<1> USE DEF WalkInv
<1>1. CASE ReturnShort
  <2>1. ordered' = spans /\ spans' = spans /\ Len(spans) <= 1
        /\ Len(spans) \in Nat /\ DOMAIN spans = 1..Len(spans)
    BY <1>1 DEF ReturnShort, StackTypes
  <2> QED
    BY <2>1 DEF ParentFirstAndOnce
<1>2. CASE StartWalk
  BY <1>2, StartCase DEF ParentFirstAndOnce
<1>3. CASE Visit
  <2>1. PICK s : VisitOf(s)
    BY <1>3, VisitCase
  <2> DEFINE M == Members(spans)
             n == Len(ordered)
  <2>2. /\ spans' = spans /\ Len(spans) > 1 /\ ordered' = Append(ordered, s)
        /\ Waits(todo, s) /\ s \in M /\ s.id \notin visited /\ stage = "walk"
    BY <2>1 DEF VisitOf
  <2>3. /\ visited = Ids(ordered) /\ ordered \in Seq(M)
        /\ IsRoot(s, spans) \/ s.parent \in Ids(ordered)
    BY <2>2 DEF Frontier, Reachable, StackTypes
  <2> HIDE DEF M
  <2>4. /\ DOMAIN ordered' = 1..(n + 1) /\ DOMAIN ordered = 1..n /\ n \in Nat
        /\ \A k \in 1..n : ordered'[k] = ordered[k]
        /\ ordered'[n + 1] = s
    BY <2>2, <2>3, AppendMembers
  <2>5. \A j \in 1..n : ordered[j].id # s.id
    BY <2>2, <2>3, <2>4 DEF Ids
  <2>6. ~IsRoot(s, spans) => \E j \in 1..n : ordered[j].id = s.parent
    BY <2>3, <2>4 DEF Ids
  <2> HIDE DEF n
  <2>7. ASSUME NEW k \in 1..n
        PROVE  /\ \A j \in 1..(k - 1) : ordered'[j].id # ordered'[k].id
               /\ ~IsRoot(ordered'[k], spans) =>
                     \E j \in 1..(k - 1) : ordered'[j].id = ordered'[k].parent
    <3>1. k \in DOMAIN ordered /\ k \in Nat /\ \A j \in 1..(k - 1) : j \in 1..n
      BY <2>4
    <3>2. /\ \A j \in 1..(k - 1) : ordered[j].id # ordered[k].id
          /\ ~IsRoot(ordered[k], spans) =>
                \E j \in 1..(k - 1) : ordered[j].id = ordered[k].parent
      BY <2>2, <3>1 DEF ParentFirstAndOnce
    <3> QED
      BY <2>4, <3>1, <3>2
  <2>8. /\ \A j \in 1..((n + 1) - 1) : ordered'[j].id # ordered'[n + 1].id
        /\ ~IsRoot(ordered'[n + 1], spans) =>
              \E j \in 1..((n + 1) - 1) : ordered'[j].id = ordered'[n + 1].parent
    <3>1. (n + 1) - 1 = n
      BY <2>4
    <3> QED
      BY <2>4, <2>5, <2>6, <3>1
  <2>9. \A k \in DOMAIN ordered' : k \in 1..n \/ k = n + 1
    BY <2>4
  <2>10. ASSUME NEW k \in DOMAIN ordered'
         PROVE  /\ \A j \in 1..(k - 1) : ordered'[j].id # ordered'[k].id
                /\ ~IsRoot(ordered'[k], spans) =>
                      \E j \in 1..(k - 1) : ordered'[j].id = ordered'[k].parent
    <3>1. CASE k \in 1..n
      BY <2>7, <3>1
    <3>2. CASE k = n + 1
      BY <2>8, <3>2
    <3> QED
      BY <2>9, <3>1, <3>2
  <2> QED
    BY <2>2, <2>10 DEF ParentFirstAndOnce
<1>4. CASE Skip \/ Up
  <2>1. Pruned
    BY <1>4, PruneCase
  <2> QED
    BY <2>1 DEF Pruned, ParentFirstAndOnce
<1> QED
  BY <1>1, <1>2, <1>3, <1>4 DEF Walk

(* A call with a list of spans, whatever they are.                         *)
LEMMA InitWalkInv ==
    ASSUME NEW list, Call(list), spans \in Seq(Members(spans)) PROVE WalkInv
<1>1. /\ stage = "start" /\ todo = <<>> /\ visited = {} /\ ordered = <<>>
  BY DEF Call
<1>2. todo \in Seq(Seq(Members(spans))) /\ ordered \in Seq(Members(spans))
  BY <1>1
<1> QED
  BY <1>1, <1>2 DEF WalkInv, StackTypes, WalkByPlace, Frontier, ParentFirstAndOnce

LEMMA WalkStep ==
    ASSUME WalkInv, [BuildNext]_<<sortVars, stored>> PROVE WalkInv'
<1>1. CASE Build
  BY <1>1, TypesStep, FrontierStep, ParentFirstStep DEF Build, WalkInv
<1>2. CASE UNCHANGED sortVars
  <2>1. /\ stage' = stage /\ spans' = spans /\ todo' = todo
        /\ visited' = visited /\ ordered' = ordered
    BY <1>2 DEF sortVars
  <2>2. StackTypes' /\ WalkByPlace'
    BY <2>1 DEF WalkInv, StackTypes, WalkByPlace
  <2>3. Frontier' /\ ParentFirstAndOnce'
    BY <2>1 DEF WalkInv, Frontier, Reachable, ParentFirstAndOnce
  <2> QED
    BY <2>2, <2>3 DEF WalkInv
<1> QED
  BY <1>1, <1>2 DEF BuildNext, Sorted
-----------------------------------------------------------------------------
(* The order of the walk.                                                  *)

\* Every span of these has a place of its parent.
Reached(s, walked, list) == IsRoot(s, list) \/ s.parent \in Ids(walked)

\* No ID is in the result twice.
Distinct(walked) ==
    \A k \in DOMAIN walked : \A j \in 1..(k - 1) : walked[j].id # walked[k].id

(* Where the parent of a reached span is.                                  *)
LEMMA PlaceOfParent ==
    ASSUME NEW S, NEW walked \in Seq(S), NEW list, NEW r, Reached(r, walked, list)
    PROVE  /\ ParentPlace(r, walked, list) \in 0..Len(walked)
           /\ ~IsRoot(r, list) =>
                 /\ ParentPlace(r, walked, list) \in DOMAIN walked
                 /\ walked[ParentPlace(r, walked, list)].id = r.parent
<1>1. DOMAIN walked = 1..Len(walked) /\ Len(walked) \in Nat
  OBVIOUS
<1>2. CASE IsRoot(r, list)
  BY <1>1, <1>2 DEF ParentPlace
<1>3. CASE ~IsRoot(r, list)
  <2> DEFINE p == CHOOSE p \in DOMAIN walked : walked[p].id = r.parent
  <2>1. \E q \in DOMAIN walked : walked[q].id = r.parent
    BY <1>3 DEF Reached, Ids
  <2>2. p \in DOMAIN walked /\ walked[p].id = r.parent
    BY <2>1
  <2>3. ParentPlace(r, walked, list) = p
    BY <1>3 DEF ParentPlace
  <2> HIDE DEF p
  <2> QED
    BY <1>1, <1>3, <2>2, <2>3
<1> QED
  BY <1>2, <1>3

(* A span that is appended moves no parent, and is the parent of its       *)
(* children.                                                               *)
LEMMA PlacesKept ==
    ASSUME NEW S, NEW walked \in Seq(S), NEW list, NEW s \in S,
           s.id \notin Ids(walked), Distinct(walked)
    PROVE  /\ \A r : Reached(r, walked, list) =>
                 ParentPlace(r, Append(walked, s), list) = ParentPlace(r, walked, list)
           /\ \A r : (~IsRoot(r, list) /\ r.parent = s.id) =>
                 ParentPlace(r, Append(walked, s), list) = Len(walked) + 1
<1> DEFINE new == Append(walked, s)
           n == Len(walked)
<1>1. /\ new \in Seq(S) /\ DOMAIN new = 1..(n + 1) /\ DOMAIN walked = 1..n /\ n \in Nat
      /\ \A k \in 1..n : new[k] = walked[k]
      /\ new[n + 1] = s /\ Ids(new) = Ids(walked) \cup {s.id}
  BY AppendMembers
<1>2. \A k \in 1..n : walked[k].id # s.id
  BY <1>1 DEF Ids
<1> HIDE DEF new, n
<1>3. \A j, k \in 1..(n + 1) : new[j].id = new[k].id => j = k
  <2>1. \A j, k \in 1..n : j < k => walked[j].id # walked[k].id
    BY <1>1 DEF Distinct
  <2>2. \A j, k \in 1..n : walked[j].id = walked[k].id => j = k
    BY <1>1, <2>1
  <2>3. \A k \in 1..(n + 1) : k \in 1..n \/ k = n + 1
    BY <1>1
  <2> QED
    BY <1>1, <1>2, <2>2, <2>3
<1>4. ASSUME NEW r, Reached(r, walked, list)
      PROVE  ParentPlace(r, new, list) = ParentPlace(r, walked, list)
  <2>1. CASE IsRoot(r, list)
    BY <2>1 DEF ParentPlace
  <2>2. CASE ~IsRoot(r, list)
    <3>1. /\ ParentPlace(r, walked, list) \in DOMAIN walked
          /\ walked[ParentPlace(r, walked, list)].id = r.parent
      BY <1>4, <2>2, PlaceOfParent
    <3>2. Reached(r, new, list)
      BY <1>1, <1>4 DEF Reached
    <3>3. /\ ParentPlace(r, new, list) \in DOMAIN new
          /\ new[ParentPlace(r, new, list)].id = r.parent
      BY <1>1, <2>2, <3>2, PlaceOfParent
    <3> QED
      BY <1>1, <1>3, <3>1, <3>3
  <2> QED
    BY <2>1, <2>2
<1>5. ASSUME NEW r, ~IsRoot(r, list), r.parent = s.id
      PROVE  ParentPlace(r, new, list) = n + 1
  <2>1. Reached(r, new, list)
    BY <1>1, <1>5 DEF Reached
  <2>2. /\ ParentPlace(r, new, list) \in DOMAIN new
        /\ new[ParentPlace(r, new, list)].id = r.parent
    BY <1>1, <1>5, <2>1, PlaceOfParent
  <2>3. n + 1 \in 1..(n + 1)
    BY <1>1
  <2> QED
    BY <1>1, <1>3, <1>5, <2>2, <2>3
<1> QED
  BY <1>4, <1>5 DEF new, n

\* How the next sibling fits with those that are left.
NextFits(s, rest, walked, list) ==
    LET p == ParentPlace(s, walked, list)
    IN  /\ \A j \in (p + 1)..Len(walked) : ParentPlace(walked[j], walked, list) >= p
        /\ \A j \in DOMAIN walked :
              ParentPlace(walked[j], walked, list) = p => ComesBefore(walked[j], s, list)
        /\ \A d \in DOMAIN rest : \A k \in DOMAIN rest[d] :
              \/ ParentPlace(rest[d][k], walked, list) < p
              \/ /\ ParentPlace(rest[d][k], walked, list) = p
                 /\ ComesBefore(s, rest[d][k], list)

\* Where the members of the new levels were in the old ones.
Within(new, levels, at) ==
    /\ \A d \in DOMAIN new : \A k \in DOMAIN new[d] :
          /\ d \in DOMAIN levels /\ k + at[d] \in DOMAIN levels[d]
          /\ new[d][k] = levels[d][k + at[d]]
    /\ \A d \in DOMAIN new : d \in DOMAIN levels

(* What is left of nested levels is nested.                                *)
LEMMA FewerNested ==
    ASSUME NEW M, NEW levels \in Stack(M), NEW new \in Stack(M), NEW walked, NEW list,
           NEW at \in [DOMAIN levels -> Nat], Within(new, levels, at),
           LevelsNested(levels, walked, list)
    PROVE  LevelsNested(new, walked, list)
<1>1. /\ DOMAIN levels = 1..Len(levels) /\ Len(levels) \in Nat
      /\ DOMAIN new = 1..Len(new) /\ Len(new) \in Nat
      /\ \A d \in DOMAIN levels : DOMAIN levels[d] = 1..Len(levels[d]) /\ Len(levels[d]) \in Nat
      /\ \A d \in DOMAIN new : DOMAIN new[d] = 1..Len(new[d]) /\ Len(new[d]) \in Nat
  BY DEF Stack
<1> SUFFICES ASSUME NEW d \in DOMAIN new, NEW k \in DOMAIN new[d]
             PROVE  LET s == new[d][k]
                        p == ParentPlace(s, walked, list)
                    IN  /\ \A j \in (p + 1)..Len(walked) :
                              ParentPlace(walked[j], walked, list) >= p
                        /\ \A j \in DOMAIN walked :
                              ParentPlace(walked[j], walked, list) = p =>
                                  ComesBefore(walked[j], s, list)
                        /\ \A m \in (k + 1)..Len(new[d]) :
                              /\ ParentPlace(new[d][m], walked, list) = p
                              /\ ComesBefore(s, new[d][m], list)
                        /\ \A e \in (d + 1)..Len(new) : \A m \in DOMAIN new[e] :
                              p < ParentPlace(new[e][m], walked, list)
  BY DEF LevelsNested
<1> DEFINE s == new[d][k]
           p == ParentPlace(s, walked, list)
           i == k + at[d]
<1>2. d \in DOMAIN levels /\ i \in DOMAIN levels[d] /\ s = levels[d][i]
  BY DEF Within
<1>3. /\ \A j \in (p + 1)..Len(walked) : ParentPlace(walked[j], walked, list) >= p
      /\ \A j \in DOMAIN walked :
            ParentPlace(walked[j], walked, list) = p => ComesBefore(walked[j], s, list)
      /\ \A m \in (i + 1)..Len(levels[d]) :
            /\ ParentPlace(levels[d][m], walked, list) = p
            /\ ComesBefore(s, levels[d][m], list)
      /\ \A e \in (d + 1)..Len(levels) : \A m \in DOMAIN levels[e] :
            p < ParentPlace(levels[e][m], walked, list)
  <2> HIDE DEF i
  <2> QED
    BY <1>2 DEF LevelsNested
<1>4. at[d] \in Nat /\ k \in Nat /\ d \in Nat
  BY <1>1, <1>2
<1> HIDE DEF p
<1>5. ASSUME NEW m \in (k + 1)..Len(new[d])
      PROVE  ParentPlace(new[d][m], walked, list) = p /\ ComesBefore(s, new[d][m], list)
  <2>1. m \in DOMAIN new[d] /\ m \in Nat /\ k < m
    BY <1>1, <1>4
  <2>2. m + at[d] \in DOMAIN levels[d] /\ new[d][m] = levels[d][m + at[d]]
    BY <2>1 DEF Within
  <2>3. m + at[d] \in (i + 1)..Len(levels[d])
    <3> DEFINE shift == at[d]
               size == Len(levels[d])
    <3>1. shift \in Nat /\ size \in Nat /\ m + shift \in 1..size
      BY <1>1, <1>2, <1>4, <2>2
    <3> HIDE DEF shift, size
    <3>2. m + shift \in ((k + shift) + 1)..size
      BY <1>4, <2>1, <3>1
    <3> QED
      BY <3>2 DEF shift, size
  <2> HIDE DEF i, s
  <2> QED
    BY <1>3, <2>2, <2>3
<1>6. ASSUME NEW e \in (d + 1)..Len(new), NEW m \in DOMAIN new[e]
      PROVE  p < ParentPlace(new[e][m], walked, list)
  <2>1. e \in DOMAIN new
    BY <1>1, <1>4
  <2>2. e \in DOMAIN levels /\ m + at[e] \in DOMAIN levels[e]
        /\ new[e][m] = levels[e][m + at[e]]
    BY <2>1 DEF Within
  <2>3. e \in (d + 1)..Len(levels)
    BY <1>1, <1>4, <2>2
  <2> QED
    BY <1>3, <2>2, <2>3
<1> QED
  BY <1>3, <1>5, <1>6 DEF p

(* Taking the next sibling out.                                            *)
LEMMA PopNested ==
    ASSUME NEW M, NEW levels \in Stack(M), NEW walked, NEW list,
           levels # <<>>, levels[Len(levels)] # <<>>,
           LevelsNested(levels, walked, list)
    PROVE  /\ LevelsNested(Rest(levels), walked, list)
           /\ NextFits(Head(levels[Len(levels)]), Rest(levels), walked, list)
<1> DEFINE top == Len(levels)
           level == levels[top]
           rest == [levels EXCEPT ![top] = Tail(level)]
           s == level[1]
           at == [d \in DOMAIN levels |-> IF d = top THEN 1 ELSE 0]
<1>1. /\ level \in Seq(M) /\ level # <<>> /\ top \in DOMAIN levels
      /\ DOMAIN levels = 1..top /\ top \in Nat
  BY DEF Stack
<1>2. /\ Tail(level) \in Seq(M) /\ Head(level) = s /\ 1 \in DOMAIN level
      /\ DOMAIN level = 1..Len(level) /\ DOMAIN Tail(level) = 1..(Len(level) - 1)
      /\ Len(level) \in Nat \ {0}
      /\ \A k \in 1..(Len(level) - 1) : Tail(level)[k] = level[k + 1]
  <2> HIDE DEF level
  <2> QED
    BY <1>1
<1>3. /\ rest \in Stack(M) /\ DOMAIN rest = DOMAIN levels
      /\ rest[top] = Tail(level)
      /\ \A d \in DOMAIN levels : d # top => rest[d] = levels[d]
  <2> HIDE DEF level
  <2>1. levels \in Seq(Seq(M)) /\ Tail(level) \in Seq(M)
    BY <1>2 DEF Stack
  <2> QED
    BY <2>1, LastReplaced DEF Stack
<1>4. rest = Rest(levels)
  BY DEF Rest
<1> HIDE DEF rest
<1>5. Within(rest, levels, at) /\ at \in [DOMAIN levels -> Nat]
  <2>1. ASSUME NEW d \in DOMAIN rest, NEW k \in DOMAIN rest[d]
        PROVE  d \in DOMAIN levels /\ k + at[d] \in DOMAIN levels[d]
               /\ rest[d][k] = levels[d][k + at[d]]
    <3>1. CASE d = top
      <4>1. at[d] = 1 /\ rest[d] = Tail(level) /\ levels[d] = level
        BY <1>1, <1>3, <3>1
      <4> HIDE DEF level, at, top
      <4> QED
        BY <1>1, <1>2, <3>1, <4>1
    <3>2. CASE d # top
      <4>1. at[d] = 0 /\ rest[d] = levels[d] /\ d \in DOMAIN levels
        BY <1>3, <3>2
      <4>2. DOMAIN levels[d] = 1..Len(levels[d])
        BY <4>1 DEF Stack
      <4>3. k \in Nat
        BY <4>1, <4>2
      <4> HIDE DEF at
      <4> QED
        BY <4>1, <4>3
    <3> QED
      BY <3>1, <3>2
  <2> QED
    BY <1>3, <2>1 DEF Within
<1> HIDE DEF at
<1>6. LevelsNested(rest, walked, list)
  BY <1>3, <1>5, FewerNested
<1>7. NextFits(s, rest, walked, list)
  <2> DEFINE p == ParentPlace(s, walked, list)
  <2>1. /\ \A j \in (p + 1)..Len(walked) : ParentPlace(walked[j], walked, list) >= p
        /\ \A j \in DOMAIN walked :
              ParentPlace(walked[j], walked, list) = p => ComesBefore(walked[j], s, list)
        /\ \A m \in (1 + 1)..Len(level) :
              ParentPlace(level[m], walked, list) = p /\ ComesBefore(s, level[m], list)
    BY <1>1, <1>2 DEF LevelsNested
  <2>2. ASSUME NEW d \in DOMAIN rest, NEW k \in DOMAIN rest[d]
        PROVE  \/ ParentPlace(rest[d][k], walked, list) < p
               \/ /\ ParentPlace(rest[d][k], walked, list) = p
                  /\ ComesBefore(s, rest[d][k], list)
    <3>1. CASE d = top
      <4>1. rest[d] = Tail(level)
        BY <1>3, <3>1
      <4> HIDE DEF level, p, s, top
      <4>2. k + 1 \in (1 + 1)..Len(level) /\ rest[d][k] = level[k + 1]
        BY <1>2, <4>1
      <4> QED
        BY <2>1, <4>2
    <3>2. CASE d # top
      <4>1. rest[d] = levels[d] /\ d \in DOMAIN levels
        BY <1>3, <3>2
      <4>2. top \in (d + 1)..Len(levels)
        BY <1>1, <3>2, <4>1
      <4>3. ParentPlace(levels[d][k], walked, list) < ParentPlace(levels[top][1], walked, list)
        BY <1>2, <4>1, <4>2 DEF LevelsNested
      <4> QED
        BY <4>1, <4>3
    <3> QED
      BY <3>1, <3>2
  <2> HIDE DEF s
  <2> QED
    BY <2>1, <2>2 DEF NextFits
<1> QED
  BY <1>2, <1>4, <1>6, <1>7

(* The loop over a list of siblings ends.                                  *)
LEMMA UpNested ==
    ASSUME NEW M, NEW levels \in Stack(M), NEW walked, NEW list, levels # <<>>,
           LevelsNested(levels, walked, list)
    PROVE  LevelsNested(SubSeq(levels, 1, Len(levels) - 1), walked, list)
<1> DEFINE new == SubSeq(levels, 1, Len(levels) - 1)
           top == Len(levels)
           at == [d \in DOMAIN levels |-> 0]
<1>1. levels \in Seq(Seq(M)) /\ top \in Nat \ {0} /\ DOMAIN levels = 1..top
  BY DEF Stack
<1>2. new = [d \in 1..(top - 1) |-> levels[d]]
  BY <1>1
<1>3. new \in Seq(Seq(M))
  BY <1>1, <1>2
<1> HIDE DEF new
<1>4. \A d \in DOMAIN new : d \in DOMAIN levels /\ new[d] = levels[d] /\ at[d] = 0
  BY <1>1, <1>2
<1>5. \A d \in DOMAIN levels : DOMAIN levels[d] = 1..Len(levels[d])
  BY DEF Stack
<1>6. at \in [DOMAIN levels -> Nat]
  OBVIOUS
<1> HIDE DEF at, top
<1>7. Within(new, levels, at)
  BY <1>4, <1>5 DEF Within
<1>8. new \in Stack(M)
  BY <1>3 DEF Stack
<1>9. LevelsNested(new, walked, list)
  BY <1>6, <1>7, <1>8, FewerNested
<1> QED
  BY <1>9 DEF new

\* The children of s as the sort keeps them.
ChildrenInOrder(children, s, list) ==
    /\ \A k \in DOMAIN children : ~IsRoot(children[k], list) /\ children[k].parent = s.id
    /\ \A m \in DOMAIN children : \A k \in 1..(m - 1) :
          ComesBefore(children[k], children[m], list)

(* Roots and children come in the order of the list.                       *)
LEMMA KeptInOrder ==
    ASSUME NEW list, list \in Seq(Members(list)), NEW s
    PROVE  /\ ChildrenInOrder(ChildrenOf(s.id, list), s, list)
           /\ \A m \in DOMAIN Roots(list) : \A k \in 1..(m - 1) :
                 ComesBefore(Roots(list)[k], Roots(list)[m], list)
<1> DEFINE roots == {i \in DOMAIN list : IsRoot(list[i], list)}
           children == {i \in DOMAIN list : ~IsRoot(list[i], list) /\ list[i].parent = s.id}
           M == Members(list)
<1>1. Roots(list) = Keep(list, roots) /\ ChildrenOf(s.id, list) = Keep(list, children)
  BY DEF Roots, ChildrenOf
<1>2. list \in Seq(M) /\ roots \in SUBSET (DOMAIN list) /\ children \in SUBSET (DOMAIN list)
  OBVIOUS
<1>3. \A k \in DOMAIN ChildrenOf(s.id, list) :
          ChildrenOf(s.id, list)[k] \in Members(ChildrenOf(s.id, list))
  BY DEF Members
<1>4. \A r : r \in Members(ChildrenOf(s.id, list)) => ~IsRoot(r, list) /\ r.parent = s.id
  BY RootsAndChildren
<1> HIDE DEF M, roots, children
<1>5. \A m \in DOMAIN Keep(list, roots) : \A k \in 1..(m - 1) :
          ComesBefore(Keep(list, roots)[k], Keep(list, roots)[m], list)
  BY <1>2, KeepInOrder
<1>6. \A m \in DOMAIN Keep(list, children) : \A k \in 1..(m - 1) :
          ComesBefore(Keep(list, children)[k], Keep(list, children)[m], list)
  BY <1>2, KeepInOrder
<1> QED
  BY <1>1, <1>3, <1>4, <1>5, <1>6 DEF ChildrenInOrder

\* What a visit needs to know of the result.
Growing(walked, s, list) ==
    /\ s.id \notin Ids(walked) /\ Distinct(walked) /\ Reached(s, walked, list)
    /\ \A k \in DOMAIN walked : Reached(walked[k], walked, list)

(* Where the parents are once s is appended.                               *)
LEMMA GrownPlaces ==
    ASSUME NEW M, NEW walked \in Seq(M), NEW list, NEW s \in M, Growing(walked, s, list)
    PROVE  /\ DOMAIN Append(walked, s) = 1..(Len(walked) + 1)
           /\ DOMAIN walked = 1..Len(walked) /\ Len(walked) \in Nat
           /\ \A j \in DOMAIN walked :
                 /\ Append(walked, s)[j] = walked[j]
                 /\ ParentPlace(walked[j], walked, list) \in 0..Len(walked)
                 /\ ParentPlace(walked[j], Append(walked, s), list)
                      = ParentPlace(walked[j], walked, list)
           /\ Append(walked, s)[Len(walked) + 1] = s
           /\ ParentPlace(s, walked, list) \in 0..Len(walked)
           /\ ParentPlace(s, Append(walked, s), list) = ParentPlace(s, walked, list)
<1> DEFINE new == Append(walked, s)
           n == Len(walked)
<1>1. /\ DOMAIN new = 1..(n + 1) /\ DOMAIN walked = 1..n /\ n \in Nat
      /\ \A k \in 1..n : new[k] = walked[k]
      /\ new[n + 1] = s
  BY AppendMembers
<1>2. \A r : Reached(r, walked, list) =>
          ParentPlace(r, new, list) = ParentPlace(r, walked, list)
  BY PlacesKept DEF Growing
<1>3. \A r : Reached(r, walked, list) => ParentPlace(r, walked, list) \in 0..n
  BY PlaceOfParent
<1> QED
  BY <1>1, <1>2, <1>3 DEF Growing

(* The span that is appended fits behind the result.                       *)
LEMMA ResultGrows ==
    ASSUME NEW M, NEW walked \in Seq(M), NEW list, NEW s \in M, NEW rest,
           Growing(walked, s, list), NextFits(s, rest, walked, list),
           SubtreesUnbroken(walked, list), SiblingsInOrder(walked, list)
    PROVE  /\ SubtreesUnbroken(Append(walked, s), list)
           /\ SiblingsInOrder(Append(walked, s), list)
<1> DEFINE new == Append(walked, s)
           n == Len(walked)
<1>1. /\ DOMAIN new = 1..(n + 1) /\ DOMAIN walked = 1..n /\ n \in Nat
      /\ \A j \in DOMAIN walked :
            /\ new[j] = walked[j]
            /\ ParentPlace(walked[j], walked, list) \in 0..n
            /\ ParentPlace(walked[j], new, list) = ParentPlace(walked[j], walked, list)
      /\ new[n + 1] = s
      /\ ParentPlace(s, walked, list) \in 0..n
      /\ ParentPlace(s, new, list) = ParentPlace(s, walked, list)
  BY GrownPlaces
<1> HIDE DEF new
<1>2. ASSUME NEW k \in DOMAIN new,
             NEW j \in (ParentPlace(new[k], new, list) + 1)..(k - 1)
      PROVE  ParentPlace(new[j], new, list) >= ParentPlace(new[k], new, list)
  <2>1. CASE k \in 1..n
    <3>1. k \in DOMAIN walked /\ new[k] = walked[k]
          /\ ParentPlace(new[k], new, list) = ParentPlace(walked[k], walked, list)
      BY <1>1, <2>1
    <3>2. ParentPlace(walked[k], walked, list) \in 0..n
      BY <1>1, <3>1
    <3>3. j \in (ParentPlace(walked[k], walked, list) + 1)..(k - 1)
      BY <3>1
    <3>4. j \in DOMAIN walked
      BY <1>1, <2>1, <3>2, <3>3
    <3>5. ParentPlace(walked[j], walked, list) >= ParentPlace(walked[k], walked, list)
      BY <3>1, <3>3 DEF SubtreesUnbroken
    <3> QED
      BY <1>1, <3>1, <3>4, <3>5
  <2>2. CASE k = n + 1
    <3>1. new[k] = s /\ ParentPlace(new[k], new, list) = ParentPlace(s, walked, list)
      BY <1>1, <2>2
    <3>2. j \in (ParentPlace(s, walked, list) + 1)..n
      BY <1>1, <2>2, <3>1
    <3>3. j \in DOMAIN walked
      BY <1>1, <3>2
    <3>4. ParentPlace(walked[j], walked, list) >= ParentPlace(s, walked, list)
      BY <3>2 DEF NextFits
    <3> QED
      BY <1>1, <3>1, <3>3, <3>4
  <2>3. k \in 1..n \/ k = n + 1
    BY <1>1
  <2> QED
    BY <2>1, <2>2, <2>3
<1>3. ASSUME NEW k \in DOMAIN new, NEW j \in 1..(k - 1),
             ParentPlace(new[j], new, list) = ParentPlace(new[k], new, list)
      PROVE  ComesBefore(new[j], new[k], list)
  <2>1. j \in DOMAIN walked /\ new[j] = walked[j]
        /\ ParentPlace(new[j], new, list) = ParentPlace(walked[j], walked, list)
    BY <1>1
  <2>2. CASE k \in 1..n
    <3>1. k \in DOMAIN walked /\ new[k] = walked[k]
          /\ ParentPlace(new[k], new, list) = ParentPlace(walked[k], walked, list)
      BY <1>1, <2>2
    <3>2. ParentPlace(walked[j], walked, list) = ParentPlace(walked[k], walked, list)
      BY <1>3, <2>1, <3>1
    <3> QED
      BY <2>1, <3>1, <3>2 DEF SiblingsInOrder
  <2>3. CASE k = n + 1
    <3>1. new[k] = s /\ ParentPlace(walked[j], walked, list) = ParentPlace(s, walked, list)
      BY <1>1, <1>3, <2>1, <2>3
    <3> QED
      BY <2>1, <3>1 DEF NextFits
  <2>4. k \in 1..n \/ k = n + 1
    BY <1>1
  <2> QED
    BY <2>2, <2>3, <2>4
<1>4. SubtreesUnbroken(new, list)
  BY <1>2 DEF SubtreesUnbroken
<1>5. SiblingsInOrder(new, list)
  BY <1>3 DEF SiblingsInOrder
<1> QED
  BY <1>4, <1>5 DEF new

(* The children of the span that is appended wait above the others.        *)
LEMMA PushNested ==
    ASSUME NEW M, NEW rest \in Stack(M), NEW children \in Seq(M), NEW walked \in Seq(M),
           NEW list, NEW s \in M, Growing(walked, s, list),
           \A r : Waits(rest, r) => Reached(r, walked, list),
           NextFits(s, rest, walked, list), ChildrenInOrder(children, s, list),
           LevelsNested(rest, walked, list)
    PROVE  LevelsNested(Append(rest, children), Append(walked, s), list)
<1> DEFINE new == Append(walked, s)
           n == Len(walked)
           levels == Append(rest, children)
           top == Len(rest) + 1
<1>1. /\ DOMAIN new = 1..(n + 1) /\ DOMAIN walked = 1..n /\ n \in Nat
      /\ \A j \in DOMAIN walked :
            /\ new[j] = walked[j]
            /\ ParentPlace(walked[j], walked, list) \in 0..n
            /\ ParentPlace(walked[j], new, list) = ParentPlace(walked[j], walked, list)
      /\ new[n + 1] = s
      /\ ParentPlace(s, walked, list) \in 0..n
      /\ ParentPlace(s, new, list) = ParentPlace(s, walked, list)
  BY GrownPlaces
<1>2. /\ \A r : Reached(r, walked, list) =>
            ParentPlace(r, new, list) = ParentPlace(r, walked, list)
      /\ \A r : (~IsRoot(r, list) /\ r.parent = s.id) => ParentPlace(r, new, list) = n + 1
  BY PlacesKept DEF Growing
<1>3. /\ DOMAIN levels = 1..top /\ Len(levels) = top /\ top \in Nat
      /\ DOMAIN rest = 1..(top - 1) /\ Len(rest) = top - 1
      /\ levels[top] = children
      /\ \A d \in DOMAIN rest : levels[d] = rest[d]
  BY DEF Stack
<1>4. /\ \A d \in DOMAIN rest : DOMAIN rest[d] = 1..Len(rest[d]) /\ Len(rest[d]) \in Nat
      /\ DOMAIN children = 1..Len(children) /\ Len(children) \in Nat
  BY DEF Stack
<1>5. Len(new) = n + 1
  OBVIOUS
<1> HIDE DEF new, levels, top
<1>6. ASSUME NEW d \in DOMAIN rest, NEW k \in DOMAIN rest[d]
      PROVE  /\ ParentPlace(rest[d][k], walked, list) \in 0..n
             /\ ParentPlace(rest[d][k], new, list) = ParentPlace(rest[d][k], walked, list)
  <2>1. Reached(rest[d][k], walked, list)
    BY DEF Waits, Members
  <2> QED
    BY <1>2, <2>1, PlaceOfParent
<1>7. \A m \in DOMAIN children : ParentPlace(children[m], new, list) = n + 1
  BY <1>2 DEF ChildrenInOrder
<1> SUFFICES ASSUME NEW d \in DOMAIN levels, NEW k \in DOMAIN levels[d]
             PROVE  LET r == levels[d][k]
                        p == ParentPlace(r, new, list)
                    IN  /\ \A j \in (p + 1)..Len(new) : ParentPlace(new[j], new, list) >= p
                        /\ \A j \in DOMAIN new :
                              ParentPlace(new[j], new, list) = p => ComesBefore(new[j], r, list)
                        /\ \A m \in (k + 1)..Len(levels[d]) :
                              /\ ParentPlace(levels[d][m], new, list) = p
                              /\ ComesBefore(r, levels[d][m], list)
                        /\ \A e \in (d + 1)..Len(levels) : \A m \in DOMAIN levels[e] :
                              p < ParentPlace(levels[e][m], new, list)
  BY DEF LevelsNested, levels, new
<1> DEFINE r == levels[d][k]
           p == ParentPlace(r, new, list)
<1>8. CASE d = top
  <2>1. levels[d] = children /\ r = children[k] /\ k \in DOMAIN children /\ p = n + 1
    BY <1>3, <1>7, <1>8
  <2> HIDE DEF r, p
  <2>2. \A j \in (p + 1)..Len(new) : ParentPlace(new[j], new, list) >= p
    BY <1>1, <1>5, <2>1
  <2>3. \A j \in DOMAIN new : ParentPlace(new[j], new, list) # p
    <3>1. \A j \in DOMAIN walked : ParentPlace(new[j], new, list) # n + 1
      BY <1>1
    <3>2. ParentPlace(new[n + 1], new, list) # n + 1
      BY <1>1
    <3>3. \A j \in DOMAIN new : j \in DOMAIN walked \/ j = n + 1
      BY <1>1
    <3> QED
      BY <2>1, <3>1, <3>2, <3>3
  <2>4. ASSUME NEW m \in (k + 1)..Len(children)
        PROVE  ParentPlace(children[m], new, list) = p /\ ComesBefore(r, children[m], list)
    <3>1. m \in DOMAIN children /\ k \in 1..(m - 1)
      BY <1>4, <2>1
    <3> QED
      BY <1>7, <2>1, <3>1 DEF ChildrenInOrder
  <2>5. (d + 1)..Len(levels) = {}
    BY <1>3, <1>8
  <2> QED
    BY <2>1, <2>2, <2>3, <2>4, <2>5 DEF r, p
<1>9. CASE d # top
  <2>1. d \in DOMAIN rest /\ levels[d] = rest[d] /\ r = rest[d][k] /\ k \in DOMAIN rest[d]
    BY <1>3, <1>9
  <2>2. p \in 0..n /\ p = ParentPlace(rest[d][k], walked, list)
    BY <1>6, <2>1
  <2> HIDE DEF r, p
  <2>3. /\ \A j \in (p + 1)..n : ParentPlace(walked[j], walked, list) >= p
        /\ \A j \in DOMAIN walked :
              ParentPlace(walked[j], walked, list) = p => ComesBefore(walked[j], r, list)
        /\ \A m \in (k + 1)..Len(rest[d]) :
              /\ ParentPlace(rest[d][m], walked, list) = p
              /\ ComesBefore(r, rest[d][m], list)
        /\ \A e \in (d + 1)..Len(rest) : \A m \in DOMAIN rest[e] :
              p < ParentPlace(rest[e][m], walked, list)
    BY <2>1, <2>2 DEF LevelsNested
  <2>4. \/ p < ParentPlace(s, walked, list)
        \/ p = ParentPlace(s, walked, list) /\ ComesBefore(s, r, list)
    BY <2>1, <2>2 DEF NextFits
  <2>5. ASSUME NEW j \in (p + 1)..(n + 1) PROVE ParentPlace(new[j], new, list) >= p
    <3>1. CASE j = n + 1
      BY <1>1, <2>2, <2>4, <3>1
    <3>2. CASE j # n + 1
      <4>1. j \in (p + 1)..n /\ j \in DOMAIN walked
        BY <1>1, <2>2, <3>2
      <4> QED
        BY <1>1, <2>3, <4>1
    <3> QED
      BY <3>1, <3>2
  <2>6. ASSUME NEW j \in DOMAIN new, ParentPlace(new[j], new, list) = p
        PROVE  ComesBefore(new[j], r, list)
    <3>1. CASE j = n + 1
      BY <1>1, <2>2, <2>4, <2>6, <3>1
    <3>2. CASE j # n + 1
      <4>1. j \in DOMAIN walked
        BY <1>1, <3>2
      <4> QED
        BY <1>1, <2>3, <2>6, <4>1
    <3> QED
      BY <3>1, <3>2
  <2>7. ASSUME NEW m \in (k + 1)..Len(rest[d])
        PROVE  ParentPlace(rest[d][m], new, list) = p /\ ComesBefore(r, rest[d][m], list)
    <3>1. m \in DOMAIN rest[d]
      BY <1>4, <2>1
    <3> QED
      BY <1>6, <2>1, <2>3, <3>1
  <2>8. ASSUME NEW e \in (d + 1)..Len(levels), NEW m \in DOMAIN levels[e]
        PROVE  p < ParentPlace(levels[e][m], new, list)
    <3>1. CASE e = top
      BY <1>1, <1>3, <1>7, <2>2, <3>1
    <3>2. CASE e # top
      <4>1. e \in (d + 1)..Len(rest) /\ e \in DOMAIN rest /\ levels[e] = rest[e]
        BY <1>3, <2>1, <3>2
      <4> QED
        BY <1>6, <2>3, <4>1
    <3> QED
      BY <3>1, <3>2
  <2> QED
    BY <1>5, <2>1, <2>5, <2>6, <2>7, <2>8 DEF r, p
<1> QED
  BY <1>8, <1>9

(* The roots wait in the order of the list.                                *)
LEMMA RootsNested ==
    ASSUME NEW list, list \in Seq(Members(list))
    PROVE  LevelsNested(<<Roots(list)>>, <<>>, list)
<1> DEFINE roots == Roots(list)
           levels == <<roots>>
           empty == <<>>
<1>1. roots \in Seq(Members(list))
      /\ \A s : s \in Members(roots) => IsRoot(s, list)
  BY RootsAndChildren
<1>2. \A m \in DOMAIN roots : \A k \in 1..(m - 1) : ComesBefore(roots[k], roots[m], list)
  BY KeptInOrder
<1> HIDE DEF roots
<1>3. DOMAIN levels = {1} /\ Len(levels) = 1 /\ levels[1] = roots
  OBVIOUS
<1>4. DOMAIN empty = {} /\ Len(empty) = 0
  OBVIOUS
<1> HIDE DEF levels, empty
<1>5. DOMAIN roots = 1..Len(roots) /\ Len(roots) \in Nat
  BY <1>1
<1>6. \A k \in DOMAIN roots : ParentPlace(roots[k], empty, list) = 0
  BY <1>1 DEF ParentPlace, Members
<1> SUFFICES ASSUME NEW k \in DOMAIN roots
             PROVE  /\ \A j \in (0 + 1)..Len(empty) : ParentPlace(empty[j], empty, list) >= 0
                    /\ \A j \in DOMAIN empty :
                          ParentPlace(empty[j], empty, list) = 0 =>
                              ComesBefore(empty[j], roots[k], list)
                    /\ \A m \in (k + 1)..Len(roots) :
                          /\ ParentPlace(roots[m], empty, list) = 0
                          /\ ComesBefore(roots[k], roots[m], list)
                    /\ (1 + 1)..Len(levels) = {}
  BY <1>3, <1>6 DEF LevelsNested, levels, empty, roots
<1>7. \A m \in (k + 1)..Len(roots) : m \in DOMAIN roots /\ k \in 1..(m - 1)
  BY <1>5
<1> QED
  BY <1>2, <1>3, <1>4, <1>6, <1>7

(* Every step of the walk keeps the order of what it has walked and nests  *)
(* what waits.                                                             *)
LEMMA PreorderStep ==
    ASSUME WalkInv, PreorderInv, Walk PROVE PreorderInv'
<1> DEFINE M == Members(spans)
           top == todo[Len(todo)]
<1>1. CASE ReturnShort
  <2>1. Len(spans) <= 1 /\ spans' = spans /\ Len(spans) \in Nat
    BY <1>1 DEF ReturnShort, WalkInv, StackTypes
  <2> QED
    BY <2>1 DEF PreorderInv
<1>2. CASE StartWalk
  <2>1. spans' \in Seq(Members(spans')) /\ ordered' = <<>> /\ todo' = <<Roots(spans')>>
    BY <1>2, StartCase DEF StartWalk, WalkInv
  <2> DEFINE list == spans'
  <2>2. list \in Seq(Members(list))
    BY <2>1
  <2>3. todo' = <<Roots(list)>>
    BY <2>1
  <2> HIDE DEF list
  <2>4. LevelsNested(<<Roots(list)>>, <<>>, list)
    BY <2>2, RootsNested
  <2>5. SubtreesUnbroken(<<>>, list) /\ SiblingsInOrder(<<>>, list)
    BY DEF SubtreesUnbroken, SiblingsInOrder
  <2> QED
    BY <2>1, <2>3, <2>4, <2>5 DEF PreorderInv, list
<1>3. CASE Visit \/ Skip \/ Up
  <2>1. /\ stage = "walk" /\ spans' = spans /\ todo # <<>> /\ Len(spans) > 1
        /\ todo \in Stack(M) /\ ordered \in Seq(M) /\ spans \in Seq(M)
    BY <1>3 DEF Visit, Skip, Up, WalkInv, WalkByPlace, StackTypes, Stack
  <2>2. /\ SubtreesUnbroken(ordered, spans) /\ SiblingsInOrder(ordered, spans)
        /\ LevelsNested(todo, ordered, spans)
    BY <2>1 DEF PreorderInv
  <2>3. CASE Visit
    <3> DEFINE s == Head(top)
               children == ChildrenOf(s.id, spans)
    <3>1. /\ top # <<>> /\ s.id \notin visited /\ ordered' = Append(ordered, s)
          /\ todo' = Append(Rest(todo), children)
      BY <2>3 DEF Visit, Level, Rest
    <3> HIDE DEF M
    <3>2. /\ Rest(todo) \in Stack(M) /\ s \in M /\ Waits(todo, s)
          /\ \A r : Waits(Rest(todo), r) => Waits(todo, r)
      BY <2>1, <3>1, PopWaits
    <3>3. LevelsNested(Rest(todo), ordered, spans) /\ NextFits(s, Rest(todo), ordered, spans)
      BY <2>1, <2>2, <3>1, PopNested
    <3>4. visited = Ids(ordered) /\ \A r \in M : Waits(todo, r) => Reached(r, ordered, spans)
      BY <2>1 DEF WalkInv, Frontier, Reachable, Reached, M
    <3>5. \A d \in DOMAIN todo : \A k \in DOMAIN todo[d] : todo[d][k] \in M
      BY <2>1 DEF Stack
    <3>6. \A r : Waits(todo, r) => r \in M
      BY <3>5 DEF Waits, Members
    <3>7. Growing(ordered, s, spans)
      <4>1. \A k \in DOMAIN ordered : Reached(ordered[k], ordered, spans)
        <5> SUFFICES ASSUME NEW k \in DOMAIN ordered, ~IsRoot(ordered[k], spans)
                     PROVE  ordered[k].parent \in Ids(ordered)
          BY DEF Reached
        <5>1. PICK j \in 1..(k - 1) : ordered[j].id = ordered[k].parent
          BY <2>1 DEF WalkInv, ParentFirstAndOnce
        <5>2. j \in DOMAIN ordered
          BY <2>1
        <5> QED
          BY <5>1, <5>2 DEF Ids
      <4>2. Distinct(ordered)
        BY DEF WalkInv, ParentFirstAndOnce, Distinct
      <4> QED
        BY <3>1, <3>2, <3>4, <4>1, <4>2 DEF Growing
    <3>8. children \in Seq(M) /\ ChildrenInOrder(children, s, spans)
      BY <2>1, RootsAndChildren, KeptInOrder DEF M
    <3> HIDE DEF s, children
    <3>9. \A r : Waits(Rest(todo), r) => Reached(r, ordered, spans)
      BY <3>2, <3>4, <3>6
    <3>10. SubtreesUnbroken(Append(ordered, s), spans)
           /\ SiblingsInOrder(Append(ordered, s), spans)
      BY <2>1, <2>2, <3>2, <3>3, <3>7, ResultGrows
    <3>11. LevelsNested(Append(Rest(todo), children), Append(ordered, s), spans)
      BY <2>1, <3>2, <3>3, <3>7, <3>8, <3>9, PushNested
    <3> QED
      BY <2>1, <3>1, <3>10, <3>11 DEF PreorderInv
  <2>4. CASE Skip
    <3>1. top # <<>> /\ ordered' = ordered /\ todo' = Rest(todo)
      BY <2>4 DEF Skip, Level, Rest
    <3> HIDE DEF M
    <3>2. LevelsNested(Rest(todo), ordered, spans)
      BY <2>1, <2>2, <3>1, PopNested
    <3> QED
      BY <2>1, <2>2, <3>1, <3>2 DEF PreorderInv
  <2>5. CASE Up
    <3>1. ordered' = ordered /\ todo' = SubSeq(todo, 1, Len(todo) - 1)
      BY <2>5 DEF Up
    <3> HIDE DEF M
    <3>2. LevelsNested(SubSeq(todo, 1, Len(todo) - 1), ordered, spans)
      BY <2>1, <2>2, UpNested
    <3> QED
      BY <2>1, <2>2, <3>1, <3>2 DEF PreorderInv
  <2> QED
    BY <1>3, <2>3, <2>4, <2>5
<1> QED
  BY <1>1, <1>2, <1>3 DEF Walk
-----------------------------------------------------------------------------
(* Building the spans.                                                     *)

(* Division keeps order.                                                   *)
LEMMA DivisionMonotone ==
    ASSUME NEW a \in Nat, NEW b \in Nat, a <= b, NEW g \in Nat \ {0}
    PROVE  /\ a \div g \in Nat /\ b \div g \in Nat
           /\ (a \div g) * g <= (b \div g) * g
           /\ (a \div g) * g \in Nat
<1> DEFINE q == a \div g
           r == b \div g
<1>1. q \in Int /\ r \in Int
  OBVIOUS
<1>2. q * g <= a /\ a < (q + 1) * g /\ r * g <= b /\ b < (r + 1) * g
  OBVIOUS
<1>3. q >= 0 /\ r >= 0
  OBVIOUS
<1> HIDE DEF q, r
<1>4. q <= r
  <2> SUFFICES ASSUME q >= r + 1 PROVE FALSE
    BY <1>1
  <2>1. q * g >= (r + 1) * g
    BY <1>1, <1>3
  <2> QED
    BY <1>1, <1>2, <2>1
<1>5. q * g <= r * g /\ q * g \in Nat
  BY <1>1, <1>3, <1>4
<1> QED
  BY <1>1, <1>3, <1>5 DEF q, r

(* Rounding to float64 and back never changes the order of two times.       *)
LEMMA RoundingMonotone ==
    ASSUME NEW v \in Nat, NEW w \in Nat
    PROVE  /\ Int64Value(v) \in Nat
           /\ v <= w => Int64Value(v) <= Int64Value(w)
<1> DEFINE half == Grain \div 2
<1>1. Grain \in Nat \ {0} /\ half \in Nat
  BY GrainAssumption
<1>2. v # Missing /\ w # Missing
  BY MissingAssumption
<1>3. Int64Value(v) = ((v + half) \div Grain) * Grain
      /\ Int64Value(w) = ((w + half) \div Grain) * Grain
  BY <1>2 DEF Int64Value
<1> HIDE DEF half
<1>4. v + half \in Nat /\ w + half \in Nat /\ (v <= w => v + half <= w + half)
  BY <1>1
<1>5. ((v + half) \div Grain) * Grain \in Nat
  BY <1>1, <1>4, DivisionMonotone
<1>6. v <= w => ((v + half) \div Grain) * Grain <= ((w + half) \div Grain) * Grain
  BY <1>1, <1>4, DivisionMonotone
<1> QED
  BY <1>3, <1>5, <1>6

\* Is this span of the reply in the time that is searched?
InWindow(reply, s) == s.start \in Window(reply.now)

(* The time of the search picks the spans of the window, and only them.     *)
LEMMA RecentSpans ==
    ASSUME NEW reply \in Answers, reply.backend = "openobserve"
    PROVE  /\ Recent(reply) \in Seq(Range(reply.spans))
           /\ \A k \in DOMAIN Recent(reply) :
                 /\ Recent(reply)[k] \in Range(reply.spans)
                 /\ InWindow(reply, Recent(reply)[k])
           /\ \A s \in Range(reply.spans) : InWindow(reply, s) =>
                 \E k \in DOMAIN Recent(reply) : Recent(reply)[k] = s
           /\ \A s \in Range(reply.spans) : s.start \in Nat
<1> DEFINE list == reply.spans
           S == Range(list)
           P == {i \in DOMAIN list : list[i].start \in Window(reply.now)}
<1>1. list \in Seq(S) /\ \A i \in DOMAIN list : list[i].start \in Nat
  BY AnswersAssumption
<1>2. Recent(reply) = Keep(list, P) /\ P \in SUBSET (DOMAIN list)
  BY DEF Recent
<1>3. \A i \in P : InWindow(reply, list[i])
  BY DEF InWindow
<1>4. \A i \in DOMAIN list : InWindow(reply, list[i]) => i \in P
  BY DEF InWindow
<1>5. \A i \in DOMAIN list : list[i] \in S
  BY DEF Range
<1>6. \A s \in S : \E i \in DOMAIN list : s = list[i]
  BY DEF Range
<1> HIDE DEF P, S, list
<1>7. /\ Keep(list, P) \in Seq(S)
      /\ \A k \in DOMAIN Keep(list, P) : \E i \in P : Keep(list, P)[k] = list[i]
      /\ \A i \in P : \E k \in DOMAIN Keep(list, P) : Keep(list, P)[k] = list[i]
  BY <1>1, <1>2, KeepProperties
<1> QED
  BY <1>1, <1>2, <1>3, <1>4, <1>5, <1>6, <1>7 DEF S, list

\* What the search of OpenObserve promises of its hits.
SearchResult(reply, hits) ==
    /\ hits \in Seq(Range(reply.spans))
    /\ \A k \in DOMAIN hits : /\ hits[k] \in Range(reply.spans)
                              /\ InWindow(reply, hits[k])
    /\ \A k \in DOMAIN hits : \A j \in 1..(k - 1) : hits[j].start <= hits[k].start
    /\ \A s \in Range(reply.spans) : \A k \in DOMAIN hits :
          (InWindow(reply, s) /\ s.start < hits[k].start) =>
              \E m \in DOMAIN hits : hits[m] = s

(* The hits are spans of the window in order of time, and none of the window *)
(* that started sooner than a hit is left out.                               *)
LEMMA HitsInOrder ==
    ASSUME NEW reply \in Answers, reply.backend = "openobserve"
    PROVE  SearchResult(reply, Hits(reply))
<1> DEFINE S == Range(reply.spans)
           list == Recent(reply)
           sorted == SortByStart(list)
           size == IF Len(sorted) < MaxHits THEN Len(sorted) ELSE MaxHits
           hits == SubSeq(sorted, 1, size)
<1>1. /\ list \in Seq(S)
      /\ \A k \in DOMAIN list : list[k] \in S /\ InWindow(reply, list[k])
      /\ \A s \in S : InWindow(reply, s) => \E k \in DOMAIN list : list[k] = s
      /\ \A s \in S : s.start \in Nat
  BY RecentSpans
<1>2. Hits(reply) = hits
  BY DEF Hits, Cut
<1> HIDE DEF list, S
<1>3. /\ DOMAIN list = 1..Len(list) /\ Len(list) \in Nat
      /\ \A i \in DOMAIN list : list[i].start \in Nat
  BY <1>1
<1>4. PICK at \in [DOMAIN list -> DOMAIN list] :
              /\ sorted = [k \in DOMAIN list |-> list[at[k]]]
              /\ \A i \in DOMAIN list : \E k \in DOMAIN list :
                    at[k] = i /\ k = Cardinality(Sooner(list)[i]) + 1
              /\ \A k \in DOMAIN list : \A j \in 1..(k - 1) : at[j] \in Sooner(list)[at[k]]
  BY <1>1, <1>3, SortProperties
<1>5. /\ \A i \in DOMAIN list : \E k \in DOMAIN list : at[k] = i
      /\ \A k \in DOMAIN list : at[k] \in DOMAIN list /\ sorted[k] = list[at[k]]
  BY <1>4
<1>6. \A i, j \in DOMAIN list : j \in Sooner(list)[i] => list[j].start <= list[i].start
  BY <1>3 DEF Sooner
<1>7. \A k \in DOMAIN list : \A j \in 1..(k - 1) :
          j \in DOMAIN list /\ sorted[j].start <= sorted[k].start
  <2> SUFFICES ASSUME NEW k \in DOMAIN list, NEW j \in 1..(k - 1)
               PROVE  j \in DOMAIN list /\ sorted[j].start <= sorted[k].start
    OBVIOUS
  <2>1. j \in DOMAIN list
    BY <1>3
  <2>2. at[j] \in Sooner(list)[at[k]]
    BY <1>4
  <2> QED
    BY <1>5, <1>6, <2>1, <2>2
<1>8. sorted = [k \in 1..Len(list) |-> sorted[k]] /\ \A k \in 1..Len(list) : sorted[k] \in S
  BY <1>1, <1>3, <1>4, <1>5
<1> HIDE DEF sorted
<1>9. sorted \in Seq(S) /\ Len(sorted) = Len(list)
  <2>1. sorted \in [1..Len(list) -> S]
    BY <1>8
  <2> QED
    BY <1>3, <2>1
<1>10. size \in Nat /\ size <= Len(list)
  BY <1>3, <1>9, SearchAssumption
<1> HIDE DEF size
<1>11. hits \in Seq(S) /\ hits = [k \in 1..size |-> sorted[k]]
  BY <1>9, <1>10
<1> HIDE DEF hits
<1>12. DOMAIN hits = 1..size /\ \A k \in 1..size : k \in DOMAIN list /\ hits[k] = sorted[k]
  BY <1>3, <1>10, <1>11
<1>13. \A k \in DOMAIN hits : hits[k] \in S /\ InWindow(reply, hits[k])
  <2> SUFFICES ASSUME NEW k \in 1..size
               PROVE  hits[k] \in S /\ InWindow(reply, hits[k])
    BY <1>12
  <2>1. k \in DOMAIN list /\ hits[k] = sorted[k]
    BY <1>12
  <2>2. at[k] \in DOMAIN list /\ sorted[k] = list[at[k]]
    BY <1>5, <2>1
  <2>3. list[at[k]] \in S /\ InWindow(reply, list[at[k]])
    BY <1>1, <2>2
  <2> QED
    BY <2>1, <2>2, <2>3
<1>14. \A k \in DOMAIN hits : \A j \in 1..(k - 1) : hits[j].start <= hits[k].start
  <2> SUFFICES ASSUME NEW k \in 1..size, NEW j \in 1..(k - 1)
               PROVE  hits[j].start <= hits[k].start
    BY <1>12
  <2>1. j \in 1..size
    BY <1>10
  <2> QED
    BY <1>7, <1>12, <2>1
<1>15. ASSUME NEW s \in S, NEW k \in DOMAIN hits, InWindow(reply, s), s.start < hits[k].start
       PROVE  \E m \in DOMAIN hits : hits[m] = s
  <2>1. PICK i \in DOMAIN list : list[i] = s
    BY <1>1, <1>15
  <2>2. PICK m \in DOMAIN list : at[m] = i
    BY <1>5
  <2>3. sorted[m] = s
    BY <1>5, <2>1, <2>2
  <2>4. k \in 1..size /\ hits[k] = sorted[k] /\ k \in DOMAIN list
    BY <1>12
  <2>5. sorted[k].start \in Nat /\ s.start \in Nat
    BY <1>1, <1>3, <1>8, <2>4
  <2>6. m <= k
    <3> SUFFICES ASSUME k < m PROVE FALSE
      BY <1>3, <2>4
    <3>1. k \in 1..(m - 1)
      BY <1>3, <2>4
    <3>2. sorted[k].start <= sorted[m].start
      BY <1>7, <3>1
    <3> QED
      BY <1>15, <2>3, <2>4, <2>5, <3>2
  <2>7. m \in 1..size
    BY <1>3, <1>10, <2>4, <2>6
  <2> QED
    BY <1>12, <2>3, <2>7
<1> QED
  BY <1>2, <1>11, <1>13, <1>14, <1>15 DEF SearchResult, S

(* The hits that TraceBuild works on are a search that TraceFetch allows:    *)
(* as many of the window as there is room for, and the earliest of them.     *)
THEOREM HitsAreEarliest ==
    ASSUME NEW reply \in Answers, reply.backend = "openobserve"
    PROVE  \E hits \in Earliest({i \in DOMAIN reply.spans :
                                    reply.spans[i].start \in Window(reply.now)},
                                [i \in DOMAIN reply.spans |-> reply.spans[i].start]) :
              Range(Hits(reply)) = {reply.spans[i] : i \in hits}
<1> DEFINE all == reply.spans
           P == {i \in DOMAIN all : all[i].start \in Window(reply.now)}
           start == [i \in DOMAIN all |-> all[i].start]
           before == [i \in P |-> {j \in P : j < i}]
           n == Cardinality(P)
           list == Recent(reply)
           sorted == SortByStart(list)
           size == IF n < MaxHits THEN n ELSE MaxHits
<1>1. all \in Seq(Range(all)) /\ \A i \in DOMAIN all : all[i].start \in Nat
  BY AnswersAssumption
<1>2. P \in SUBSET DOMAIN all /\ \A i \in P : i \in Nat /\ i \in DOMAIN all
  BY <1>1
<1>3. IsFiniteSet(P) /\ n \in Nat
  <2>1. DOMAIN all = 1..Len(all) /\ Len(all) \in Nat
    BY <1>1
  <2>2. IsFiniteSet(1..Len(all))
    BY <2>1, IntervalSize
  <2> HIDE DEF P
  <2> QED
    BY <1>2, <2>1, <2>2, FS_Subset, FS_CardinalityType
<1>4. list = Arrange(all, before)
  BY DEF Recent, Keep
<1> HIDE DEF all, P
<1>5. TotalOrder(P, before)
  <2>1. \A i \in P : i \notin before[i] /\ before[i] \in SUBSET P
    BY <1>2
  <2>2. \A i, j \in P : i # j => i \in before[j] \/ j \in before[i]
    BY <1>2
  <2>3. \A i, j \in P : i \in before[j] => before[i] \subseteq before[j]
    BY <1>2
  <2>4. before \in [P -> SUBSET P]
    OBVIOUS
  <2> QED
    BY <1>3, <2>1, <2>2, <2>3, <2>4 DEF TotalOrder
<1> HIDE DEF before, n
<1>6. PICK from : Places(all, P, before, from)
  BY <1>5, Arranged
<1>7. /\ from \in [1..n -> P] /\ list = [k \in 1..n |-> all[from[k]]]
      /\ \A i \in P : \E k \in 1..n : from[k] = i
  BY <1>4, <1>6 DEF Places, n
<1>8. \A k, j \in 1..n : from[k] = from[j] => k = j
  <2>1. \A k \in 1..n : \A j \in 1..(k - 1) : from[j] \in before[from[k]]
    BY <1>6 DEF Places, n
  <2>2. \A i \in P : i \notin before[i]
    BY <1>5 DEF TotalOrder
  <2>3. \A k \in 1..n : \A j \in 1..(k - 1) : from[j] # from[k]
    BY <1>7, <2>1, <2>2
  <2>4. \A k, j \in 1..n : k # j => j \in 1..(k - 1) \/ k \in 1..(j - 1)
    BY <1>3
  <2> QED
    BY <2>3, <2>4
<1> HIDE DEF list
<1>9. /\ list \in Seq(Range(reply.spans)) /\ DOMAIN list = 1..n
      /\ \A k \in DOMAIN list : list[k].start \in Nat /\ list[k] = all[from[k]]
  <2>1. \A k \in 1..n : list[k] = all[from[k]] /\ from[k] \in DOMAIN all
    BY <1>2, <1>7
  <2>2. list \in Seq(Range(reply.spans))
    BY RecentSpans DEF list
  <2> QED
    BY <1>1, <1>7, <2>1, <2>2
<1>10. PICK at \in [DOMAIN list -> DOMAIN list] :
              /\ sorted = [k \in DOMAIN list |-> list[at[k]]]
              /\ \A i \in DOMAIN list : \E k \in DOMAIN list :
                    at[k] = i /\ k = Cardinality(Sooner(list)[i]) + 1
              /\ \A k \in DOMAIN list : \A j \in 1..(k - 1) : at[j] \in Sooner(list)[at[k]]
  BY <1>9, SortProperties
<1> HIDE DEF sorted
<1>11. \A k \in 1..n : \A j \in 1..(k - 1) :
          /\ j \in 1..n /\ at[j] # at[k]
          /\ list[at[j]].start <= list[at[k]].start
  <2> SUFFICES ASSUME NEW k \in 1..n, NEW j \in 1..(k - 1)
               PROVE  /\ j \in 1..n /\ at[j] # at[k]
                      /\ list[at[j]].start <= list[at[k]].start
    OBVIOUS
  <2>1. j \in 1..n
    BY <1>3
  <2>2. at[j] \in Sooner(list)[at[k]] /\ at[j] \in DOMAIN list /\ at[k] \in DOMAIN list
    BY <1>9, <1>10, <2>1
  <2>3. list[at[j]].start \in Nat /\ list[at[k]].start \in Nat
    BY <1>9, <2>2
  <2>4. at[j] # at[k] /\ list[at[j]].start <= list[at[k]].start
    <3> HIDE DEF sorted
    <3>1. at[j] \in 1..n
      BY <1>9, <2>2
    <3> QED
      BY <2>2, <2>3, <3>1 DEF Sooner
  <2> QED
    BY <2>1, <2>4
<1> DEFINE place == [k \in 1..size |-> from[at[k]]]
           hits == {place[k] : k \in 1..size}
<1>12. size \in Nat /\ size <= n /\ (size < n => size = MaxHits)
  BY <1>3, SearchAssumption
<1>13. \A k \in 1..n : at[k] \in 1..n /\ sorted[k] = all[from[at[k]]] /\ from[at[k]] \in P
  BY <1>7, <1>9, <1>10
<1>14. ASSUME NEW i \in P PROVE \E k \in 1..n : from[at[k]] = i
  <2>1. PICK m \in 1..n : from[m] = i
    BY <1>7
  <2>2. PICK k \in 1..n : at[k] = m
    BY <1>9, <1>10
  <2> QED
    BY <2>1, <2>2
<1>15. \A k \in 1..size : k \in 1..n /\ place[k] = from[at[k]]
  BY <1>3, <1>12
<1>16. \A k, j \in 1..size : place[k] = place[j] => k = j
  <2>1. \A k, j \in 1..n : from[at[k]] = from[at[j]] => at[k] = at[j]
    BY <1>8, <1>13
  <2>2. \A k, j \in 1..n : k # j => j \in 1..(k - 1) \/ k \in 1..(j - 1)
    BY <1>3
  <2>3. \A k, j \in 1..n : at[k] = at[j] => k = j
    BY <1>11, <2>2
  <2>4. ASSUME NEW k \in 1..size, NEW j \in 1..size, place[k] = place[j]
        PROVE  k = j
    <3>1. k \in 1..n /\ j \in 1..n /\ from[at[k]] = from[at[j]]
      BY <1>15, <2>4
    <3> QED
      BY <2>1, <2>3, <3>1
  <2> QED
    BY <2>4
<1>17. Range(Hits(reply)) = {all[i] : i \in hits}
  <2>1. Len(sorted) = n /\ sorted = [k \in 1..n |-> sorted[k]]
    BY <1>3, <1>9, <1>10
  <2>2. Hits(reply) = SubSeq(sorted, 1, size)
    BY <2>1 DEF Hits, Cut, sorted, list
  <2>3. Hits(reply) = [k \in 1..size |-> sorted[k]]
    BY <1>3, <1>12, <2>1, <2>2
  <2>4. DOMAIN Hits(reply) = 1..size /\ \A k \in 1..size : Hits(reply)[k] = all[place[k]]
    <3>1. DOMAIN Hits(reply) = 1..size /\ \A k \in 1..size : Hits(reply)[k] = sorted[k]
      BY <2>3, Zenon
    <3> HIDE DEF place, size
    <3> QED
      BY <1>13, <1>15, <3>1
  <2> HIDE DEF place, size
  <2> QED
    BY <2>4 DEF Range
<1> HIDE DEF size
<1>18. Cardinality(hits) = size
  <2>1. place \in Injection(1..size, hits) /\ place \in Surjection(1..size, hits)
    <3>1. place \in [1..size -> hits]
      OBVIOUS
    <3>2. \A i \in hits : \E k \in 1..size : place[k] = i
      OBVIOUS
    <3> HIDE DEF place, hits
    <3> QED
      BY <1>16, <3>1, <3>2 DEF Injection, Surjection, IsInjective
  <2>2. ExistsBijection(1..size, hits)
    BY <2>1 DEF ExistsBijection, Bijection
  <2>3. IsFiniteSet(1..size) /\ Cardinality(1..size) = size
    BY <1>12, IntervalSize
  <2> HIDE DEF hits
  <2> QED
    BY <2>2, <2>3, FS_Bijection
<1>19. hits \in SUBSET P
  BY <1>13, <1>15
<1>20. ASSUME NEW h \in hits, NEW s \in P, s \notin hits
       PROVE  start[h] <= start[s]
  <2>1. PICK k \in 1..size : h = from[at[k]]
    BY <1>15
  <2>2. PICK m \in 1..n : s = from[at[m]]
    BY <1>14
  <2>3. m \notin 1..size
    BY <1>15, <1>20, <2>2
  <2>4. k \in 1..(m - 1)
    BY <1>3, <1>12, <2>3
  <2>5. list[at[k]].start <= list[at[m]].start
    BY <1>11, <2>4
  <2>6. list[at[k]] = all[h] /\ list[at[m]] = all[s]
    BY <1>9, <1>13, <1>15, <2>1, <2>2
  <2>7. h \in DOMAIN all /\ s \in DOMAIN all
    BY <1>2, <1>19, <1>20
  <2> QED
    BY <2>5, <2>6, <2>7
<1>21. hits \in Earliest(P, start)
  <2>1. Cardinality(hits) = IF Cardinality(P) < MaxHits THEN Cardinality(P) ELSE MaxHits
    BY <1>18 DEF size, n
  <2> HIDE DEF hits, start
  <2> QED
    BY <1>19, <1>20, <2>1 DEF Earliest
<1> HIDE DEF hits
<1> QED
  BY <1>17, <1>21 DEF P, all, start

\* A list of spans as the sort wants it.
SpanList(list) ==
    /\ list \in Seq(Members(list))
    /\ DOMAIN list = 1..Len(list)
    /\ \A k \in DOMAIN list : list[k].start \in Nat

\* What becomes of the hits of OpenObserve.
Built(list, hits) ==
    /\ DOMAIN list = DOMAIN hits
    /\ \A k \in DOMAIN hits : list[k] = OpenObserveSpan(hits[k])

LEMMA SpansOfAnswer ==
    ASSUME NEW reply \in Answers
    PROVE  /\ SpanList(SpansOf(reply))
           /\ reply.backend = "openobserve" => Built(SpansOf(reply), Hits(reply))
<1> DEFINE list == SpansOf(reply)
<1>1. CASE reply.backend = "jaeger"
  <2> DEFINE dtos == reply.spans
             n == Len(dtos)
  <2>1. dtos \in Seq(Range(dtos)) /\ \A i \in DOMAIN dtos : dtos[i].start \in Nat
    BY AnswersAssumption
  <2>2. list = [k \in DOMAIN dtos |-> JaegerSpan(dtos[k], reply.processes)]
    BY <1>1 DEF SpansOf
  <2>3. \A k \in DOMAIN dtos : JaegerSpan(dtos[k], reply.processes).start = dtos[k].start
    BY DEF JaegerSpan
  <2> HIDE DEF dtos, list
  <2>4. n \in Nat /\ DOMAIN dtos = 1..n
    BY <2>1
  <2>5. DOMAIN list = 1..n /\ \A k \in 1..n : list[k].start \in Nat
    BY <2>1, <2>2, <2>3, <2>4
  <2>6. \A k \in 1..n : list[k] \in Members(list)
    BY <2>5 DEF Members
  <2>7. list \in [1..n -> Members(list)]
    BY <2>2, <2>4, <2>5, <2>6
  <2> HIDE DEF n
  <2>8. list \in Seq(Members(list)) /\ Len(list) = n
    BY <2>4, <2>5, <2>7
  <2>9. SpanList(list)
    BY <2>5, <2>8 DEF SpanList
  <2> QED
    BY <1>1, <2>9 DEF list
<1>2. CASE reply.backend = "openobserve"
  <2> DEFINE hits == Hits(reply)
             n == Len(hits)
  <2>1. SearchResult(reply, hits)
    BY <1>2, HitsInOrder
  <2>2. list = [k \in DOMAIN hits |-> OpenObserveSpan(hits[k])]
    BY <1>2 DEF SpansOf
  <2>3. \A k \in DOMAIN hits : hits[k].start \in Nat
    <3>1. \A s \in Range(reply.spans) : s.start \in Nat
      BY <1>2, RecentSpans
    <3> HIDE DEF hits
    <3> QED
      BY <2>1, <3>1 DEF SearchResult
  <2>4. \A k \in DOMAIN hits : OpenObserveSpan(hits[k]).start \in Nat
    <3> HIDE DEF hits
    <3>1. \A k \in DOMAIN hits : Int64Value(hits[k].start) \in Nat
      BY <2>3, RoundingMonotone
    <3> QED
      BY <3>1 DEF OpenObserveSpan
  <2>5. hits \in Seq(Range(reply.spans))
    BY <2>1 DEF SearchResult
  <2> HIDE DEF hits, list
  <2>6. n \in Nat /\ DOMAIN hits = 1..n
    BY <2>5
  <2>7. DOMAIN list = 1..n /\ \A k \in 1..n : list[k].start \in Nat
    BY <2>2, <2>4, <2>6
  <2>8. \A k \in 1..n : list[k] \in Members(list)
    BY <2>7 DEF Members
  <2>9. list \in [1..n -> Members(list)]
    BY <2>2, <2>6, <2>7, <2>8
  <2> HIDE DEF n
  <2>10. list \in Seq(Members(list)) /\ Len(list) = n
    BY <2>6, <2>7, <2>9
  <2>11. SpanList(list) /\ Built(list, hits)
    BY <2>2, <2>6, <2>7, <2>10 DEF SpanList, Built
  <2> QED
    BY <2>11 DEF list, hits
<1> QED
  BY <1>1, <1>2, AnswersAssumption

\* The same spans, maybe in another order.
Rearranged(new, list) ==
    /\ DOMAIN new = DOMAIN list
    /\ \A k \in DOMAIN list : \E i \in DOMAIN list : new[k] = list[i]
    /\ \A i \in DOMAIN list : \E k \in DOMAIN list : new[k] = list[i]

\* Of two spans that start together the one that came first is first.
KeepsTies(new, list) ==
    \A k \in DOMAIN list : \A j \in 1..(k - 1) : \E h, i \in DOMAIN list :
        /\ new[j] = list[h] /\ new[k] = list[i]
        /\ list[h].start < list[i].start \/ h < i

(* The sort loses no span, and the order of the reply decides ties.        *)
LEMMA SameSpans ==
    ASSUME NEW list, SpanList(list)
    PROVE  Rearranged(SortByStart(list), list) /\ KeepsTies(SortByStart(list), list)
<1>1. /\ list \in Seq(Members(list)) /\ DOMAIN list = 1..Len(list) /\ Len(list) \in Nat
      /\ \A k \in DOMAIN list : list[k].start \in Nat
  BY DEF SpanList
<1> DEFINE sorted == SortByStart(list)
<1>2. PICK at \in [DOMAIN list -> DOMAIN list] :
              /\ sorted = [k \in DOMAIN list |-> list[at[k]]]
              /\ \A i \in DOMAIN list : \E k \in DOMAIN list :
                    at[k] = i /\ k = Cardinality(Sooner(list)[i]) + 1
              /\ \A k \in DOMAIN list : \A j \in 1..(k - 1) : at[j] \in Sooner(list)[at[k]]
  BY <1>1, SortProperties
<1> HIDE DEF sorted
<1>3. /\ DOMAIN sorted = DOMAIN list
      /\ \A k \in DOMAIN list : at[k] \in DOMAIN list /\ sorted[k] = list[at[k]]
      /\ \A i \in DOMAIN list : \E k \in DOMAIN list : at[k] = i
  BY <1>2
<1>4. \A i, j \in DOMAIN list : j \in Sooner(list)[i] =>
          list[j].start < list[i].start \/ j < i
  BY DEF Sooner
<1>5. ASSUME NEW k \in DOMAIN list, NEW j \in 1..(k - 1)
      PROVE  \E h, i \in DOMAIN list :
                    /\ sorted[j] = list[h] /\ sorted[k] = list[i]
                    /\ list[h].start < list[i].start \/ h < i
  <2>1. j \in DOMAIN list
    BY <1>1
  <2>2. at[j] \in Sooner(list)[at[k]]
    BY <1>2
  <2> QED
    BY <1>3, <1>4, <2>1, <2>2
<1> QED
  BY <1>3, <1>5 DEF sorted, Rearranged, KeepsTies

(* A step sorts what the reply gave, or leaves it.                         *)
LEMMA SpansStep ==
    ASSUME WalkInv, SpansFromAnswer, [BuildNext]_<<sortVars, stored>>
    PROVE  SpansFromAnswer'
<1> DEFINE list == SpansOf(stored)
<1>1. stored \in Answers /\ stored' = stored /\ list' = list
  BY DEF SpansFromAnswer, BuildNext, Build
<1>2. SpanList(list)
  BY <1>1, SpansOfAnswer
<1>3. spans = IF stage = "start" \/ Len(list) <= 1 THEN list ELSE SortByStart(list)
  BY DEF SpansFromAnswer
<1>4. SpansFromAnswer' <=>
        spans' = IF stage' = "start" \/ Len(list) <= 1 THEN list ELSE SortByStart(list)
  BY <1>1 DEF SpansFromAnswer
<1> HIDE DEF list
<1>5. Len(list) \in Nat /\ (stage = "start" => spans = list)
  BY <1>2, <1>3 DEF SpanList
<1>6. CASE UNCHANGED sortVars
  BY <1>3, <1>4, <1>6 DEF sortVars
<1>7. CASE ReturnShort
  <2>1. stage = "start" /\ stage' = "done" /\ spans' = spans /\ Len(spans) <= 1
    BY <1>7 DEF ReturnShort
  <2> QED
    BY <1>4, <1>5, <2>1
<1>8. CASE StartWalk
  <2>1. stage = "start" /\ stage' = "walk" /\ Len(spans) > 1 /\ spans' = SortByStart(spans)
    BY <1>8 DEF StartWalk
  <2> QED
    BY <1>4, <1>5, <2>1
<1>9. CASE Visit \/ Skip \/ Up
  <2>1. stage = "walk" /\ stage' \in {"walk", "done"} /\ spans' = spans
    BY <1>9 DEF Visit, Skip, Up
  <2> QED
    BY <1>3, <1>4, <2>1
<1> QED
  BY <1>6, <1>7, <1>8, <1>9 DEF BuildNext, Build, Walk, Sorted, sortVars

\* Where the spans come from, whether they were sorted yet or not.
LEMMA FromHits ==
    ASSUME SpansFromAnswer, stored.backend = "openobserve"
    PROVE  /\ SearchResult(stored, Hits(stored))
           /\ \A i \in DOMAIN spans : \E h \in DOMAIN Hits(stored) :
                 spans[i] = OpenObserveSpan(Hits(stored)[h])
           /\ \A h \in DOMAIN Hits(stored) : \E i \in DOMAIN spans :
                 spans[i] = OpenObserveSpan(Hits(stored)[h])
           /\ stage # "start" => \A j \in DOMAIN spans : \A i \in 1..(j - 1) :
                 \E g, h \in DOMAIN Hits(stored) :
                    /\ spans[i] = OpenObserveSpan(Hits(stored)[g])
                    /\ spans[j] = OpenObserveSpan(Hits(stored)[h])
                    /\ \/ OpenObserveSpan(Hits(stored)[g]).start
                            < OpenObserveSpan(Hits(stored)[h]).start
                       \/ g < h
<1> DEFINE list == SpansOf(stored)
           hits == Hits(stored)
<1>1. stored \in Answers
      /\ spans = IF stage = "start" \/ Len(list) <= 1 THEN list ELSE SortByStart(list)
  BY DEF SpansFromAnswer
<1>2. SpanList(list) /\ Built(list, hits) /\ SearchResult(stored, hits)
  BY <1>1, SpansOfAnswer, HitsInOrder
<1> HIDE DEF list, hits
<1>3. /\ DOMAIN list = DOMAIN hits /\ DOMAIN list = 1..Len(list) /\ Len(list) \in Nat
      /\ \A k \in DOMAIN hits : list[k] = OpenObserveSpan(hits[k])
  BY <1>2 DEF SpanList, Built
<1>4. Rearranged(list, list) /\ (Len(list) <= 1 => KeepsTies(list, list))
  BY <1>3 DEF Rearranged, KeepsTies
<1>5. Rearranged(SortByStart(list), list) /\ KeepsTies(SortByStart(list), list)
  BY <1>2, SameSpans
<1>6. Rearranged(spans, list) /\ (stage # "start" => KeepsTies(spans, list))
  BY <1>1, <1>4, <1>5
<1>7. /\ \A i \in DOMAIN spans : \E h \in DOMAIN hits : spans[i] = OpenObserveSpan(hits[h])
      /\ \A h \in DOMAIN hits : \E i \in DOMAIN spans : spans[i] = OpenObserveSpan(hits[h])
  BY <1>3, <1>6 DEF Rearranged
<1>8. ASSUME stage # "start", NEW j \in DOMAIN spans, NEW i \in 1..(j - 1)
      PROVE  \E g, h \in DOMAIN hits :
                    /\ spans[i] = OpenObserveSpan(hits[g])
                    /\ spans[j] = OpenObserveSpan(hits[h])
                    /\ OpenObserveSpan(hits[g]).start < OpenObserveSpan(hits[h]).start
                       \/ g < h
  <2>1. j \in DOMAIN list /\ KeepsTies(spans, list)
    BY <1>6, <1>8 DEF Rearranged
  <2>2. PICK g \in DOMAIN list, h \in DOMAIN list :
            /\ spans[i] = list[g] /\ spans[j] = list[h]
            /\ list[g].start < list[h].start \/ g < h
    BY <2>1 DEF KeepsTies
  <2>3. list[g] = OpenObserveSpan(hits[g]) /\ list[h] = OpenObserveSpan(hits[h])
    BY <1>3, <2>2
  <2> QED
    BY <1>3, <2>2, <2>3
<1> QED
  BY <1>2, <1>7, <1>8 DEF hits
(* A backend's reply, before the first step.                               *)
LEMMA InitBuildInv ==
    ASSUME BuildInit PROVE BuildInv
<1>1. stored \in Answers /\ Call(SpansOf(stored)) /\ stage = "start" /\ spans = SpansOf(stored)
  BY DEF BuildInit, Call
<1>2. spans \in Seq(Members(spans))
  BY <1>1, SpansOfAnswer DEF SpanList
<1>3. WalkInv
  BY <1>1, <1>2, InitWalkInv
<1> QED
  BY <1>1, <1>3 DEF BuildInv, SpansFromAnswer

(* The inductive invariant of building a trace, for any reply.             *)
THEOREM BuildInvariant == BuildSpec => []BuildInv
<1>1. BuildInv /\ [BuildNext]_<<sortVars, stored>> => BuildInv'
  BY WalkStep, SpansStep DEF BuildInv
<1> QED
  BY InitBuildInv, <1>1, PTL DEF BuildSpec

(* The inductive invariant of the order, for any reply.                    *)
THEOREM OrderInvariant == BuildSpec => []PreorderInv
<1>1. BuildInit => PreorderInv
  BY DEF BuildInit, Call, PreorderInv
<1>2. BuildInv /\ PreorderInv /\ [BuildNext]_<<sortVars, stored>> => PreorderInv'
  <2> SUFFICES ASSUME BuildInv, PreorderInv, [BuildNext]_<<sortVars, stored>>
               PROVE  PreorderInv'
    OBVIOUS
  <2>1. CASE Build
    BY <2>1, PreorderStep DEF Build, BuildInv
  <2>2. CASE UNCHANGED sortVars
    BY <2>2 DEF sortVars, PreorderInv
  <2> QED
    BY <2>1, <2>2 DEF BuildNext, Sorted
<1> QED
  BY BuildInvariant, <1>1, <1>2, PTL DEF BuildSpec

(* Whatever IDs and parents the backend sends, a span is in the result at   *)
(* most once and after its parent: also in a trace with cycles.             *)
THEOREM ParentFirst == BuildSpec => []ParentFirstAndOnce
<1>1. BuildInv => ParentFirstAndOnce
  BY DEF BuildInv, WalkInv
<1> QED
  BY BuildInvariant, <1>1, PTL

(* When the walk is over, every span that is a root or whose parent was     *)
(* walked has its ID in the result: only repeated IDs and cycles lose one.  *)
THEOREM LossOnlyByCycles == BuildSpec => []LossExplained
<1>1. BuildInv => LossExplained
  <2> SUFFICES ASSUME BuildInv, stage = "done", Len(spans) > 1, NEW i \in DOMAIN spans,
                      IsRoot(spans[i], spans) \/ spans[i].parent \in Ids(ordered)
               PROVE  spans[i].id \in Ids(ordered)
    BY DEF LossExplained
  <2>1. todo = <<>> /\ Frontier
    BY DEF BuildInv, WalkInv, WalkByPlace
  <2>2. visited = Ids(ordered) /\ \A s \in Members(spans) :
            Reachable(s) => s.id \in visited \/ Waits(todo, s)
    BY <2>1 DEF Frontier
  <2>3. ~Waits(todo, spans[i]) /\ spans[i] \in Members(spans)
    BY <2>1 DEF Waits, Members
  <2>4. Reachable(spans[i])
    BY <2>2 DEF Reachable
  <2> QED
    BY <2>2, <2>3, <2>4
<1> QED
  BY BuildInvariant, <1>1, PTL

(* Rounding to float64 makes start times equal but never moves a span of    *)
(* OpenObserve before one that started sooner.                              *)
THEOREM TrueOrderKept == BuildSpec => []RoundingKeepsOrder
<1>1. BuildInv => RoundingKeepsOrder
  <2> SUFFICES ASSUME SpansFromAnswer, stored.backend = "openobserve", stage # "start",
                      NEW j \in DOMAIN spans, NEW i \in 1..(j - 1)
               PROVE  spans[i].attributes.start <= spans[j].attributes.start
    BY DEF BuildInv, RoundingKeepsOrder
  <2> DEFINE hits == Hits(stored)
  <2>1. PICK g \in DOMAIN hits, h \in DOMAIN hits :
            /\ spans[i] = OpenObserveSpan(hits[g])
            /\ spans[j] = OpenObserveSpan(hits[h])
            /\ OpenObserveSpan(hits[g]).start < OpenObserveSpan(hits[h]).start \/ g < h
    BY FromHits
  <2>2. SearchResult(stored, hits) /\ \A s \in Range(stored.spans) : s.start \in Nat
    BY FromHits, RecentSpans DEF SpansFromAnswer
  <2> HIDE DEF hits
  <2>3. /\ \A k \in DOMAIN hits : hits[k].start \in Nat
        /\ \A k \in DOMAIN hits : \A m \in 1..(k - 1) : hits[m].start <= hits[k].start
        /\ \A k \in DOMAIN hits : k \in Nat \ {0}
    BY <2>2 DEF SearchResult
  <2>4. /\ spans[i].attributes = hits[g] /\ spans[j].attributes = hits[h]
        /\ Int64Value(hits[g].start) < Int64Value(hits[h].start) \/ g < h
    BY <2>1 DEF OpenObserveSpan
  <2>5. hits[g].start <= hits[h].start
    <3>1. CASE g < h
      <4>1. g \in 1..(h - 1)
        BY <2>3, <3>1
      <4> QED
        BY <2>3, <4>1
    <3>2. CASE Int64Value(hits[g].start) < Int64Value(hits[h].start)
      <4> DEFINE a == hits[g].start
                 b == hits[h].start
      <4>1. a \in Nat /\ b \in Nat
        BY <2>3
      <4> HIDE DEF a, b
      <4>2. Int64Value(a) \in Nat /\ Int64Value(b) \in Nat
            /\ (b <= a => Int64Value(b) <= Int64Value(a))
        BY <4>1, RoundingMonotone
      <4>3. Int64Value(a) < Int64Value(b)
        BY <3>2 DEF a, b
      <4>4. a <= b
        BY <4>1, <4>2, <4>3
      <4> QED
        BY <4>4 DEF a, b
    <3> QED
      BY <2>4, <3>1, <3>2
  <2> QED
    BY <2>4, <2>5
<1> QED
  BY BuildInvariant, <1>1, PTL

(* Where parents start before their children, a trace that was cut at the   *)
(* size of the search still has every parent the search could find.         *)
THEOREM CutLosesNoParent == BuildSpec => []CutKeepsParents
<1>1. BuildInv => CutKeepsParents
  <2> SUFFICES ASSUME SpansFromAnswer, stored.backend = "openobserve",
                      CausalClock(stored.spans),
                      NEW i \in DOMAIN spans, NEW p \in Range(stored.spans),
                      spans[i].parent # NoId, p.id = spans[i].parent,
                      p.start >= stored.now - Buffer
               PROVE  p.id \in Ids(spans)
    BY DEF BuildInv, CutKeepsParents
  <2> DEFINE hits == Hits(stored)
  <2>1. /\ \A k \in DOMAIN spans : \E h \in DOMAIN hits : spans[k] = OpenObserveSpan(hits[h])
        /\ \A h \in DOMAIN hits : \E k \in DOMAIN spans : spans[k] = OpenObserveSpan(hits[h])
        /\ SearchResult(stored, hits)
    BY FromHits
  <2> HIDE DEF hits
  <2>2. PICK h \in DOMAIN hits : spans[i] = OpenObserveSpan(hits[h])
    BY <2>1
  <2> DEFINE child == hits[h]
  <2>3. child \in Range(stored.spans) /\ InWindow(stored, child)
    BY <2>1 DEF SearchResult
  <2>4. spans[i].parent = StringValue(child.parent)
    BY <2>2 DEF OpenObserveSpan
  <2> HIDE DEF child
  <2>5. child.parent = p.id /\ p.id \notin {NoId, Missing}
    BY <2>4, MissingAssumption DEF StringValue
  <2>6. p.start < child.start
    <3>1. PICK c \in DOMAIN stored.spans : child = stored.spans[c]
      BY <2>3 DEF Range
    <3>2. PICK q \in DOMAIN stored.spans : p = stored.spans[q]
      BY DEF Range
    <3> QED
      BY <2>5, <3>1, <3>2 DEF CausalClock
  <2>7. stored.now \in Nat /\ \A s \in Range(stored.spans) : s.start \in Nat
    BY AnswersAssumption, RecentSpans DEF SpansFromAnswer
  <2>8. InWindow(stored, p)
    BY <2>3, <2>6, <2>7, SearchAssumption DEF InWindow, Window
  <2>9. PICK m \in DOMAIN hits : hits[m] = p
    BY <2>1, <2>6, <2>8 DEF SearchResult, child
  <2>10. PICK k \in DOMAIN spans : spans[k] = OpenObserveSpan(p)
    BY <2>1, <2>9
  <2>11. spans[k].id = p.id
    BY <2>5, <2>10 DEF OpenObserveSpan, StringValue
  <2> QED
    BY <2>11 DEF Ids
<1> QED
  BY BuildInvariant, <1>1, PTL

-----------------------------------------------------------------------------
(* Numbers in ascending order, and their nearest ranks.                    *)

\* The positions that Ascending puts before each position.
Below(numbers) ==
    [i \in DOMAIN numbers |->
        {j \in DOMAIN numbers : \/ numbers[j] < numbers[i]
                                \/ numbers[j] = numbers[i] /\ j < i}]

(* The number at rank r has r - 1 positions before it.                      *)
LEMMA AscendingRanks ==
    ASSUME NEW n \in Nat, NEW numbers \in [1..n -> Int]
    PROVE  \E at \in [1..n -> 1..n] :
              /\ Ascending(numbers) = [k \in 1..n |-> numbers[at[k]]]
              /\ \A k \in 1..n : Cardinality(Below(numbers)[at[k]]) = k - 1
              /\ \A k \in 1..n : \A j \in 1..(k - 1) : numbers[at[j]] <= numbers[at[k]]
              /\ \A i \in 1..n : \E k \in 1..n : at[k] = i
<1> DEFINE P == 1..n
           before == Below(numbers)
<1>1. IsFiniteSet(P) /\ Cardinality(P) = n
  BY IntervalSize
<1>2. DOMAIN numbers = P /\ \A i \in P : i \in Int /\ numbers[i] \in Int
  OBVIOUS
<1> HIDE DEF P
<1>3. before = [i \in P |-> {j \in P : \/ numbers[j] < numbers[i]
                                       \/ numbers[j] = numbers[i] /\ j < i}]
  BY <1>2 DEF Below
<1>4. Ascending(numbers) = Arrange(numbers, before)
  BY <1>2, <1>3 DEF Ascending
<1> HIDE DEF before
<1>5. TotalOrder(P, before)
  BY <1>1, <1>2, <1>3 DEF TotalOrder
<1>6. PICK at : Places(numbers, P, before, at)
  BY <1>5, Arranged
<1>7. /\ at \in [1..n -> P] /\ Arrange(numbers, before) = [k \in 1..n |-> numbers[at[k]]]
      /\ \A i \in P : \E k \in 1..n : at[k] = i /\ k = Cardinality(before[i]) + 1
      /\ \A k \in 1..n : \A j \in 1..(k - 1) : at[j] \in before[at[k]]
  BY <1>1, <1>6 DEF Places
<1>8. ASSUME NEW k \in 1..n
      PROVE  Cardinality(before[at[k]]) = k - 1
  <2>1. at[k] \in P /\ k \in Nat
    BY <1>7
  <2>2. PICK m \in 1..n : at[m] = at[k] /\ m = Cardinality(before[at[k]]) + 1
    BY <1>7, <2>1
  <2>3. at[k] \notin before[at[k]]
    BY <1>5, <2>1 DEF TotalOrder
  <2>4. CASE m < k
    <3>1. m \in 1..(k - 1)
      BY <2>4
    <3> QED
      BY <1>7, <2>2, <2>3, <3>1
  <2>5. CASE k < m
    <3>1. k \in 1..(m - 1)
      BY <2>5
    <3> QED
      BY <1>7, <2>2, <2>3, <3>1
  <2>6. CASE m = k
    <3>1. Cardinality(before[at[k]]) \in Nat
      <4>1. before[at[k]] \in SUBSET P
        BY <1>5, <2>1 DEF TotalOrder
      <4> QED
        BY <1>1, <4>1, FS_Subset, FS_CardinalityType
    <3> QED
      BY <2>2, <2>6, <3>1
  <2> QED
    BY <2>1, <2>4, <2>5, <2>6
<1>9. ASSUME NEW k \in 1..n, NEW j \in 1..(k - 1)
      PROVE  numbers[at[j]] <= numbers[at[k]]
  <2>1. at[k] \in P /\ at[j] \in before[at[k]] /\ at[j] \in P
    <3>1. j \in 1..n
      OBVIOUS
    <3> QED
      BY <1>7, <3>1
  <2> QED
    BY <1>2, <1>3, <2>1
<1> QED
  BY <1>4, <1>7, <1>8, <1>9 DEF P, before

\* How many of the numbers are not above v.
UpTo(v, numbers) == {k \in DOMAIN numbers : numbers[k] <= v}

(* The number at rank r has at least r numbers up to it, and any smaller    *)
(* one has fewer.                                                           *)
LEMMA CountUpTo ==
    ASSUME NEW n \in Nat, NEW numbers \in [1..n -> Int], NEW r \in 1..n
    PROVE  LET value == Ascending(numbers)[r]
           IN  /\ value \in Int
               /\ Cardinality(UpTo(value, numbers)) >= r
               /\ \A v \in Int : v < value =>
                     /\ Cardinality(UpTo(v, numbers)) \in Nat
                     /\ Cardinality(UpTo(v, numbers)) <= r - 1
               /\ Cardinality(UpTo(value, numbers)) \in Nat
<1>1. PICK at \in [1..n -> 1..n] :
          /\ Ascending(numbers) = [k \in 1..n |-> numbers[at[k]]]
          /\ \A k \in 1..n : Cardinality(Below(numbers)[at[k]]) = k - 1
  BY AscendingRanks
<1> DEFINE i == at[r]
           B == Below(numbers)[i]
           value == Ascending(numbers)[r]
<1>2. i \in 1..n /\ value = numbers[i] /\ value \in Int /\ Cardinality(B) = r - 1
  BY <1>1
<1>3. /\ B \subseteq 1..n /\ i \notin B /\ DOMAIN numbers = 1..n
      /\ \A k \in B : numbers[k] <= numbers[i]
      /\ \A k \in 1..n : numbers[k] < numbers[i] => k \in B
  <2>1. DOMAIN numbers = 1..n /\ \A k \in 1..n : numbers[k] \in Int
    OBVIOUS
  <2>2. i \in 1..n
    BY <1>2
  <2> DEFINE P == 1..n
  <2>3. \A k \in P : k \in Int
    OBVIOUS
  <2> HIDE DEF i, P
  <2>4. B = {j \in P : \/ numbers[j] < numbers[i]
                       \/ numbers[j] = numbers[i] /\ j < i}
    BY <2>1, <2>2 DEF Below, P
  <2> HIDE DEF B
  <2>5. /\ i \in P /\ DOMAIN numbers = P /\ numbers[i] \in Int
        /\ \A k \in P : numbers[k] \in Int
    BY <2>1, <2>2 DEF P
  <2>6. B \subseteq P
    BY <2>4
  <2>7. i \notin B
    <3>1. ~(numbers[i] < numbers[i]) /\ ~(i < i)
      BY <2>3, <2>5
    <3> QED
      BY <2>4, <3>1
  <2>8. ASSUME NEW k \in B PROVE numbers[k] <= numbers[i]
    <3>1. numbers[k] < numbers[i] \/ numbers[k] = numbers[i]
      BY <2>4
    <3>2. numbers[k] \in Int /\ numbers[i] \in Int
      BY <2>5, <2>6
    <3>3. \A a, b \in Int : a < b \/ a = b => a <= b
      OBVIOUS
    <3> QED
      BY <3>1, <3>2, <3>3
  <2>9. \A k \in P : numbers[k] < numbers[i] => k \in B
    BY <2>4
  <2> QED
    BY <2>5, <2>6, <2>7, <2>8, <2>9 DEF P
<1> HIDE DEF i, B, value
<1>4. IsFiniteSet(1..n) /\ IsFiniteSet(B)
  BY <1>3, IntervalSize, FS_Subset
<1>5. \A v \in Int : UpTo(v, numbers) \subseteq 1..n
  BY <1>3 DEF UpTo
<1>6. \A v \in Int : IsFiniteSet(UpTo(v, numbers))
                     /\ Cardinality(UpTo(v, numbers)) \in Nat
  BY <1>4, <1>5, FS_Subset, FS_CardinalityType
<1>7. Cardinality(UpTo(value, numbers)) >= r
  <2>1. B \cup {i} \subseteq UpTo(value, numbers)
    <3>1. \A k \in 1..n : numbers[k] <= value => k \in UpTo(value, numbers)
      BY <1>3 DEF UpTo
    <3>2. numbers[i] <= numbers[i]
      BY <1>2
    <3> QED
      BY <1>2, <1>3, <3>1, <3>2
  <2>2. IsFiniteSet(B \cup {i}) /\ Cardinality(B \cup {i}) = Cardinality(B) + 1
    BY <1>3, <1>4, FS_AddElement
  <2>3. Cardinality(B \cup {i}) <= Cardinality(UpTo(value, numbers))
    BY <1>2, <1>6, <2>1, FS_Subset
  <2> QED
    BY <1>2, <1>6, <2>2, <2>3
<1>8. ASSUME NEW v \in Int, v < value
      PROVE  Cardinality(UpTo(v, numbers)) <= r - 1
  <2>1. UpTo(v, numbers) \subseteq B
    BY <1>2, <1>3, <1>8 DEF UpTo
  <2>2. Cardinality(UpTo(v, numbers)) <= Cardinality(B)
    BY <1>4, <2>1, FS_Subset
  <2> QED
    BY <1>2, <2>2
<1> QED
  BY <1>2, <1>6, <1>7, <1>8 DEF value

\* r is the least rank that is enough for p of a hundred.
LeastRank(r, p, n) == r \in 1..n /\ r * 100 >= p * n /\ (r - 1) * 100 < p * n

(* The rank of the code is the least that is enough for its percentage.     *)
LEMMA IndexIsLeast ==
    ASSUME NEW n \in Nat \ {0}, NEW p \in {50, 90, 99}
    PROVE  LeastRank(1 + PercentileIndex(n, p), p, n)
<1>1. CASE p = 50
  BY <1>1 DEF PercentileIndex, LeastRank
<1>2. CASE p = 90
  BY <1>2 DEF PercentileIndex, LeastRank
<1>3. CASE p = 99
  BY <1>3 DEF PercentileIndex, LeastRank
<1> QED
  BY <1>1, <1>2, <1>3

(* A percentile of sorted numbers is the nearest rank.                      *)
LEMMA PercentileIsNearest ==
    ASSUME NEW n \in Nat \ {0}, NEW numbers \in [1..n -> Int],
           NEW p \in {50, 90, 99}
    PROVE  IsNearestRank(Ascending(numbers)[1 + PercentileIndex(n, p)], p, numbers)
<1> DEFINE r == 1 + PercentileIndex(n, p)
           value == Ascending(numbers)[r]
<1>0. LeastRank(r, p, n)
  BY IndexIsLeast
<1>2. p \in Nat /\ p * n \in Nat
  OBVIOUS
<1> HIDE DEF r
<1>1. r \in 1..n /\ r * 100 >= p * n /\ (r - 1) * 100 < p * n
  BY <1>0 DEF LeastRank
<1>3. /\ value \in Int
      /\ Cardinality(UpTo(value, numbers)) >= r
      /\ \A v \in Int : v < value =>
            /\ Cardinality(UpTo(v, numbers)) \in Nat
            /\ Cardinality(UpTo(v, numbers)) <= r - 1
      /\ Cardinality(UpTo(value, numbers)) \in Nat
  BY <1>1, CountUpTo
<1> HIDE DEF value
<1>4. Len(numbers) = n /\ \A v \in Range(numbers) : v \in Int
  BY DEF Range
<1>5. Cardinality(UpTo(value, numbers)) * 100 >= p * n
  BY <1>1, <1>2, <1>3
<1>6. ASSUME NEW v \in Int, Cardinality(UpTo(v, numbers)) * 100 >= p * n
      PROVE  value <= v
  BY <1>1, <1>2, <1>3, <1>6
<1>7. IsNearestRank(value, p, numbers) <=>
        /\ Cardinality(UpTo(value, numbers)) * 100 >= p * n
        /\ \A v \in Range(numbers) :
              Cardinality(UpTo(v, numbers)) * 100 >= p * n => value <= v
  <2>1. \A v : UpTo(v, numbers) = {k \in DOMAIN numbers : numbers[k] <= v}
    BY DEF UpTo
  <2>2. Len(numbers) = n
    BY <1>4
  <2> QED
    BY <2>1, <2>2, Zenon DEF IsNearestRank
<1>8. IsNearestRank(value, p, numbers)
  BY <1>4, <1>5, <1>6, <1>7
<1> QED
  BY <1>8 DEF value, r

(* The percentiles that are taken of sorted numbers are right.              *)
LEMMA RanksOfSorted ==
    ASSUME NEW n \in Nat \ {0}, NEW numbers \in [1..n -> Int]
    PROVE  RanksCorrect(Statistics(Ascending(numbers)), numbers)
<1> DEFINE sorted == Ascending(numbers)
<1>1. Len(sorted) = n
  BY AscendingRanks
<1>2. /\ IsNearestRank(sorted[1 + PercentileIndex(n, 50)], 50, numbers)
      /\ IsNearestRank(sorted[1 + PercentileIndex(n, 90)], 90, numbers)
      /\ IsNearestRank(sorted[1 + PercentileIndex(n, 99)], 99, numbers)
  BY PercentileIsNearest
<1> HIDE DEF sorted
<1>3. /\ Statistics(sorted).p50 = sorted[1 + PercentileIndex(n, 50)]
      /\ Statistics(sorted).p90 = sorted[1 + PercentileIndex(n, 90)]
      /\ Statistics(sorted).p99 = sorted[1 + PercentileIndex(n, 99)]
  BY <1>1 DEF Statistics
<1> QED
  BY <1>2, <1>3 DEF RanksCorrect, sorted

(* The least and the greatest of some numbers.                              *)
LEMMA Extremes ==
    ASSUME NEW n \in Nat \ {0}, NEW numbers \in [1..n -> Int]
    PROVE  \E low, high \in 1..n : \A k \in 1..n :
              numbers[low] <= numbers[k] /\ numbers[k] <= numbers[high]
<1>0. n \in Nat
  OBVIOUS
<1>1. PICK at \in [1..n -> 1..n] :
          /\ Ascending(numbers) = [k \in 1..n |-> numbers[at[k]]]
          /\ \A k \in 1..n : Cardinality(Below(numbers)[at[k]]) = k - 1
          /\ \A k \in 1..n : \A j \in 1..(k - 1) : numbers[at[j]] <= numbers[at[k]]
          /\ \A i \in 1..n : \E k \in 1..n : at[k] = i
  BY <1>0, AscendingRanks, Zenon
<1>2. at[1] \in 1..n /\ at[n] \in 1..n
  BY <1>1
<1>3. ASSUME NEW i \in 1..n
      PROVE  numbers[at[1]] <= numbers[i] /\ numbers[i] <= numbers[at[n]]
  <2>1. PICK k \in 1..n : at[k] = i
    BY <1>1
  <2>2. k = 1 \/ 1 \in 1..(k - 1)
    OBVIOUS
  <2>3. k = n \/ k \in 1..(n - 1)
    OBVIOUS
  <2>4. n \in 1..n /\ numbers[i] <= numbers[i]
    <3>1. numbers[i] \in Int
      OBVIOUS
    <3>2. n \in 1..n
      OBVIOUS
    <3> QED
      BY <3>1, <3>2
  <2>5. numbers[at[1]] <= numbers[i]
    BY <1>1, <2>1, <2>2, <2>4
  <2>6. numbers[i] <= numbers[at[n]]
    BY <1>1, <2>1, <2>3, <2>4
  <2> QED
    BY <2>5, <2>6
<1> QED
  BY <1>2, <1>3
-----------------------------------------------------------------------------
(* What the walk uses up.                                                  *)

(* The image of a finite set is finite.                                    *)
LEMMA FiniteImage ==
    ASSUME NEW S, IsFiniteSet(S), NEW f, DOMAIN f = S
    PROVE  IsFiniteSet({f[x] : x \in S})
<1> DEFINE T == {f[x] : x \in S}
<1>1. [x \in S |-> f[x]] \in Surjection(S, T)
  BY DEF Surjection
<1> HIDE DEF T
<1>2. IsFiniteSet(T)
  BY <1>1, FS_Surjection
<1> QED
  BY <1>2 DEF T

(* The places of a stack are finitely many pairs.                          *)
LEMMA PendingFinite ==
    ASSUME NEW M, NEW levels \in Stack(M)
    PROVE  /\ IsFiniteSet(Pending(levels))
           /\ \A x : x \in Pending(levels) <=>
                 \E d \in DOMAIN levels : \E k \in 0..Len(levels[d]) : x = <<d, k>>
<1> DEFINE n == Len(levels)
           row == [d \in 1..n |-> {d} \X (0..Len(levels[d]))]
<1>1. DOMAIN levels = 1..n /\ n \in Nat /\ \A d \in 1..n : Len(levels[d]) \in Nat
  BY DEF Stack
<1>2. Pending(levels) = UNION {row[d] : d \in 1..n}
  BY <1>1 DEF Pending
<1>3. \A x : x \in Pending(levels) <=>
          \E d \in DOMAIN levels : \E k \in 0..Len(levels[d]) : x = <<d, k>>
  BY DEF Pending
<1> HIDE DEF n
<1>4. ASSUME NEW d \in 1..n PROVE IsFiniteSet(row[d])
  <2> DEFINE size == Len(levels[d])
  <2>1. size \in Nat
    BY <1>1
  <2> HIDE DEF size
  <2>2. IsFiniteSet(0..size)
    <3>1. 0 \in Int /\ size \in Int
      BY <2>1
    <3> QED
      BY <3>1, FS_Interval
  <2>3. IsFiniteSet({d})
    BY FS_Singleton
  <2>4. IsFiniteSet({d} \X (0..size))
    BY <2>2, <2>3, FS_Product
  <2> QED
    BY <2>4 DEF size
<1>5. DOMAIN row = 1..n
  OBVIOUS
<1> HIDE DEF row
<1>6. IsFiniteSet(1..n)
  BY <1>1, IntervalSize
<1> DEFINE rows == {row[d] : d \in 1..n}
<1>7. IsFiniteSet(rows)
  <2> DEFINE D == 1..n
  <2>1. IsFiniteSet(D) /\ DOMAIN row = D
    BY <1>5, <1>6
  <2> HIDE DEF D
  <2>2. IsFiniteSet({row[d] : d \in D})
    BY <2>1, FiniteImage
  <2> QED
    BY <2>2 DEF D
<1>8. \A T \in rows : IsFiniteSet(T)
  BY <1>4
<1> HIDE DEF rows
<1>9. IsFiniteSet(UNION rows)
  BY <1>7, <1>8, FS_UNION
<1>10. UNION rows = Pending(levels)
  BY <1>2 DEF rows
<1> QED
  BY <1>3, <1>9, <1>10

(* A proper part of a finite set is smaller.                               *)
LEMMA SmallerPart ==
    ASSUME NEW S, NEW T, IsFiniteSet(S), T \subseteq S, NEW x \in S, x \notin T
    PROVE  Cardinality(T) < Cardinality(S)
<1>1. /\ IsFiniteSet(T) /\ Cardinality(T) <= Cardinality(S)
      /\ Cardinality(S) = Cardinality(T) => S = T
  BY FS_Subset
<1>2. Cardinality(T) \in Nat /\ Cardinality(S) \in Nat
  BY <1>1, FS_CardinalityType
<1> QED
  BY <1>1, <1>2

(* Skipping a span takes the last place of the innermost level.            *)
LEMMA PopUsesUp ==
    ASSUME NEW M, NEW levels \in Stack(M), levels # <<>>, levels[Len(levels)] # <<>>
    PROVE  Cardinality(Pending(Rest(levels))) < Cardinality(Pending(levels))
<1> DEFINE top == Len(levels)
           level == levels[top]
           rest == Rest(levels)
<1>1. /\ level \in Seq(M) /\ level # <<>> /\ top \in DOMAIN levels
      /\ \A d \in DOMAIN levels : Len(levels[d]) \in Nat
  BY DEF Stack
<1>2. Tail(level) \in Seq(M) /\ Len(Tail(level)) = Len(level) - 1 /\ Len(level) \in Nat \ {0}
  <2> HIDE DEF level
  <2> QED
    BY <1>1
<1>3. /\ DOMAIN rest = DOMAIN levels /\ rest[top] = Tail(level)
      /\ \A d \in DOMAIN levels : d # top => rest[d] = levels[d]
  <2> HIDE DEF level
  <2>1. levels \in Seq(Seq(M)) /\ Tail(level) \in Seq(M)
    BY <1>2 DEF Stack
  <2> DEFINE new == [levels EXCEPT ![top] = Tail(level)]
  <2>2. /\ DOMAIN new = DOMAIN levels /\ new[top] = Tail(level)
        /\ \A d \in DOMAIN levels : d # top => new[d] = levels[d]
    BY <2>1, LastReplaced
  <2>3. rest = new
    BY DEF Rest, level
  <2> HIDE DEF new, rest
  <2> QED
    BY <2>2, <2>3
<1>4. rest \in Stack(M)
  BY PopWaits
<1> HIDE DEF rest
<1>5. /\ IsFiniteSet(Pending(levels))
      /\ \A x : x \in Pending(levels) <=>
             \E d \in DOMAIN levels : \E k \in 0..Len(levels[d]) : x = <<d, k>>
      /\ \A x : x \in Pending(rest) <=>
             \E d \in DOMAIN rest : \E k \in 0..Len(rest[d]) : x = <<d, k>>
  BY <1>4, PendingFinite
<1> DEFINE last == Len(level)
<1>6. last \in 0..Len(levels[top]) /\ last \notin 0..Len(rest[top])
  <2> HIDE DEF level
  <2>1. Len(level) \in 0..Len(level) /\ Len(level) \notin 0..Len(Tail(level))
    BY <1>2
  <2> QED
    BY <1>3, <2>1 DEF level
<1>7. \A d \in DOMAIN levels : 0..Len(rest[d]) \subseteq 0..Len(levels[d])
  <2>1. 0..Len(rest[top]) \subseteq 0..Len(levels[top])
    <3> HIDE DEF level
    <3>1. 0..Len(Tail(level)) \subseteq 0..Len(level)
      BY <1>2
    <3> QED
      BY <1>3, <3>1 DEF level
  <2> QED
    BY <1>3, <2>1
<1> HIDE DEF last, level, top
<1>8. Pending(rest) \subseteq Pending(levels)
  BY <1>3, <1>5, <1>7
<1>9. <<top, last>> \in Pending(levels) /\ <<top, last>> \notin Pending(rest)
  BY <1>1, <1>5, <1>6
<1>10. Cardinality(Pending(rest)) < Cardinality(Pending(levels))
  BY <1>5, <1>8, <1>9, SmallerPart
<1> QED
  BY <1>10 DEF rest

(* Leaving a level takes its end.                                          *)
LEMMA UpUsesUp ==
    ASSUME NEW M, NEW levels \in Stack(M), levels # <<>>
    PROVE  Cardinality(Pending(SubSeq(levels, 1, Len(levels) - 1)))
             < Cardinality(Pending(levels))
<1> DEFINE new == SubSeq(levels, 1, Len(levels) - 1)
           top == Len(levels)
<1>1. levels \in Seq(Seq(M)) /\ top \in Nat \ {0} /\ DOMAIN levels = 1..top
      /\ \A d \in 1..top : Len(levels[d]) \in Nat
  BY DEF Stack
<1>2. new = [d \in 1..(top - 1) |-> levels[d]]
  BY <1>1
<1>3. new \in Stack(M)
  BY <1>1, <1>2 DEF Stack
<1> HIDE DEF new, top
<1>4. DOMAIN new = 1..(top - 1) /\ \A d \in 1..(top - 1) : new[d] = levels[d] /\ d \in 1..top
  BY <1>1, <1>2
<1>5. /\ IsFiniteSet(Pending(levels))
      /\ \A x : x \in Pending(levels) <=>
             \E d \in DOMAIN levels : \E k \in 0..Len(levels[d]) : x = <<d, k>>
      /\ \A x : x \in Pending(new) <=>
             \E d \in DOMAIN new : \E k \in 0..Len(new[d]) : x = <<d, k>>
  BY <1>3, PendingFinite
<1>6. Pending(new) \subseteq Pending(levels)
  BY <1>1, <1>4, <1>5
<1>7. top \in 1..top /\ top \notin 1..(top - 1) /\ 0 \in 0..Len(levels[top])
  BY <1>1
<1>8. <<top, 0>> \in Pending(levels) /\ <<top, 0>> \notin Pending(new)
  <2>1. <<top, 0>> \in Pending(levels)
    BY <1>1, <1>5, <1>7
  <2>2. \A d \in DOMAIN new : \A k : <<top, 0>> # <<d, k>>
    BY <1>4, <1>7
  <2>3. <<top, 0>> \notin Pending(new)
    BY <1>5, <2>2
  <2> QED
    BY <2>1, <2>3
<1>9. Cardinality(Pending(new)) < Cardinality(Pending(levels))
  BY <1>5, <1>6, <1>8, SmallerPart
<1> QED
  BY <1>9 DEF new, top

(* Every step of the walk uses something up.                               *)
LEMMA WalkStepUsesUp ==
    ASSUME WalkInv, Walk PROVE UsesUp
<1> DEFINE M == Members(spans)
<1>1. CASE ReturnShort \/ StartWalk
  BY <1>1 DEF ReturnShort, StartWalk, UsesUp
<1>2. CASE Visit \/ Skip \/ Up
  <2>1. /\ stage = "walk" /\ stage' \in {"walk", "done"} /\ spans' = spans
        /\ todo \in Stack(M) /\ spans \in Seq(M) /\ todo # <<>>
    BY <1>2 DEF Visit, Skip, Up, WalkInv, StackTypes, Stack
  <2> HIDE DEF M
  <2>2. IsFiniteSet(Pending(todo))
    BY <2>1, PendingFinite
  <2>3. IsFiniteSet(Unwalked)
    <3> DEFINE D == 1..Len(spans)
               id == [k \in D |-> spans[k].id]
    <3>1. IsFiniteSet(D) /\ DOMAIN id = D /\ DOMAIN spans = D
      BY <2>1, IntervalSize
    <3>2. Ids(spans) = {id[k] : k \in D}
      BY <3>1 DEF Ids
    <3> HIDE DEF D, id
    <3>3. IsFiniteSet({id[k] : k \in D})
      BY <3>1, FiniteImage
    <3>4. Unwalked \in SUBSET Ids(spans) /\ IsFiniteSet(Ids(spans))
      BY <3>2, <3>3 DEF Unwalked
    <3> QED
      BY <3>4, FS_Subset
  <2>4. CASE Visit
    <3>1. PICK s : VisitOf(s)
      BY <2>4, VisitCase DEF WalkInv
    <3>2. s \in Members(spans) /\ s.id \notin visited /\ visited' = visited \cup {s.id}
      BY <3>1 DEF VisitOf
    <3>3. s.id \in Ids(spans)
      BY <3>2 DEF Members, Ids
    <3>4. Unwalked' \subseteq Unwalked /\ s.id \in Unwalked /\ s.id \notin Unwalked'
      BY <2>1, <3>2, <3>3 DEF Unwalked
    <3>5. Cardinality(Unwalked') < Cardinality(Unwalked)
      BY <2>3, <3>4, SmallerPart
    <3> QED
      BY <2>1, <2>2, <2>3, <3>5 DEF UsesUp
  <2>5. CASE Skip
    <3>1. todo[Len(todo)] # <<>> /\ todo' = Rest(todo) /\ visited' = visited
      BY <2>5 DEF Skip, Level, Rest
    <3>2. Cardinality(Pending(Rest(todo))) < Cardinality(Pending(todo))
      BY <2>1, <3>1, PopUsesUp
    <3>3. Unwalked' = Unwalked
      BY <2>1, <3>1 DEF Unwalked
    <3> QED
      BY <2>1, <2>2, <2>3, <3>1, <3>2, <3>3 DEF UsesUp
  <2>6. CASE Up
    <3>1. todo' = SubSeq(todo, 1, Len(todo) - 1) /\ visited' = visited
      BY <2>6 DEF Up
    <3>2. Cardinality(Pending(SubSeq(todo, 1, Len(todo) - 1))) < Cardinality(Pending(todo))
      BY <2>1, UpUsesUp
    <3>3. Unwalked' = Unwalked
      BY <2>1, <3>1 DEF Unwalked
    <3> QED
      BY <2>1, <2>2, <2>3, <3>1, <3>2, <3>3 DEF UsesUp
  <2> QED
    BY <1>2, <2>4, <2>5, <2>6
<1> QED
  BY <1>1, <1>2 DEF Walk

(* Whatever the list, also with cycles, the walk uses up IDs and places of *)
(* the stack, of which there are finitely many: it cannot go on for ever.  *)
THEOREM WalkIsBounded == BuildSpec => WalkUsesUp
<1>1. BuildInv /\ [BuildNext]_<<sortVars, stored>> => [UsesUp]_sortVars
  BY WalkStepUsesUp DEF BuildInv, BuildNext, Build, Sorted
<1> QED
  BY BuildInvariant, <1>1, PTL DEF BuildSpec, WalkUsesUp

-----------------------------------------------------------------------------
(* The pre-order.                                                          *)

(* What the walk is at work on is in order of start time.                  *)
LEMMA SpansSorted ==
    ASSUME SpansFromAnswer, stage # "start", Len(spans) > 1
    PROVE  \A j \in DOMAIN spans : \A i \in 1..(j - 1) : spans[i].start <= spans[j].start
<1> DEFINE list == SpansOf(stored)
<1>1. SpanList(list) /\ spans = IF Len(list) <= 1 THEN list ELSE SortByStart(list)
  BY SpansOfAnswer DEF SpansFromAnswer
<1> HIDE DEF list
<1>2. spans = SortByStart(list)
  BY <1>1
<1>3. /\ list \in Seq(Members(list)) /\ DOMAIN list = 1..Len(list) /\ Len(list) \in Nat
      /\ \A k \in DOMAIN list : list[k].start \in Nat
  BY <1>1 DEF SpanList
<1>4. PICK at \in [DOMAIN list -> DOMAIN list] :
              /\ SortByStart(list) = [k \in DOMAIN list |-> list[at[k]]]
              /\ \A i \in DOMAIN list : \E k \in DOMAIN list :
                    at[k] = i /\ k = Cardinality(Sooner(list)[i]) + 1
              /\ \A k \in DOMAIN list : \A j \in 1..(k - 1) : at[j] \in Sooner(list)[at[k]]
  BY <1>3, SortProperties
<1>5. \A i, j \in DOMAIN list : j \in Sooner(list)[i] => list[j].start <= list[i].start
  BY <1>3 DEF Sooner
<1>6. ASSUME NEW j \in DOMAIN list, NEW i \in 1..(j - 1)
      PROVE  spans[i].start <= spans[j].start
  <2>1. i \in DOMAIN list /\ at[i] \in Sooner(list)[at[j]]
    BY <1>3, <1>4
  <2>2. at[i] \in DOMAIN list /\ at[j] \in DOMAIN list
        /\ spans[i] = list[at[i]] /\ spans[j] = list[at[j]]
    BY <1>2, <1>4, <2>1
  <2> QED
    BY <1>5, <2>1, <2>2
<1>7. DOMAIN spans = DOMAIN list
  BY <1>2, <1>4
<1> QED
  BY <1>6, <1>7

(* Without a cycle the walk leaves no ID out: of the spans left out, one   *)
(* nearest to a root would have a parent that was left out too.            *)
LEMMA NothingLeftOut ==
    ASSUME WalkInv, LossExplained, stage = "done", Len(spans) > 1, Acyclic(spans)
    PROVE  Ids(ordered) = Ids(spans)
<1> DEFINE n == Len(spans)
<1>1. /\ ordered \in Seq(Members(spans)) /\ spans \in Seq(Members(spans))
      /\ n \in Nat \ {0} /\ DOMAIN spans = 1..n
  BY DEF WalkInv, StackTypes
<1>2. Ids(ordered) \subseteq Ids(spans)
  <2>1. \A k \in DOMAIN ordered : ordered[k] \in Members(spans)
    BY <1>1
  <2> QED
    BY <2>1 DEF Ids, Members
<1>3. PICK depth \in [1..n -> 1..n] : \A i, j \in 1..n :
        (~IsRoot(spans[j], spans) /\ spans[j].parent = spans[i].id) => depth[i] < depth[j]
  BY <1>1 DEF Acyclic
<1> HIDE DEF n
<1> SUFFICES ASSUME NEW lost \in 1..n, spans[lost].id \notin Ids(ordered) PROVE FALSE
  BY <1>1, <1>2 DEF Ids
<1> DEFINE numbers == [k \in 1..n |->
                          IF spans[k].id \in Ids(ordered) THEN n + 1 ELSE depth[k]]
<1>4. numbers \in [1..n -> Int]
      /\ \A k \in 1..n : numbers[k] = IF spans[k].id \in Ids(ordered) THEN n + 1 ELSE depth[k]
  BY <1>1
<1> HIDE DEF numbers
<1>5. PICK low, high \in 1..n : \A k \in 1..n :
              numbers[low] <= numbers[k] /\ numbers[k] <= numbers[high]
  BY <1>1, <1>4, Extremes
<1>6. spans[low].id \notin Ids(ordered) /\ numbers[low] = depth[low]
  <2>1. numbers[low] <= depth[lost] /\ depth[lost] \in 1..n
    BY <1>4, <1>5
  <2>2. numbers[low] # n + 1
    BY <1>1, <1>4, <2>1
  <2> QED
    BY <1>4, <2>2
<1>7. ~IsRoot(spans[low], spans) /\ spans[low].parent \notin Ids(ordered)
  BY <1>1, <1>6 DEF LossExplained
<1>8. PICK up \in 1..n : spans[up].id = spans[low].parent
  BY <1>1, <1>7 DEF IsRoot, Known, Ids
<1>9. depth[up] < depth[low] /\ numbers[up] = depth[up]
  BY <1>3, <1>4, <1>7, <1>8
<1>10. numbers[low] <= numbers[up] /\ depth[up] \in Int /\ depth[low] \in Int
  BY <1>3, <1>5
<1> QED
  BY <1>6, <1>9, <1>10

(* The result is a pre-order for any answer: each subtree in one piece,    *)
(* siblings by start time, and every ID unless there is a cycle.           *)
THEOREM PreorderCorrect == BuildSpec => []WalksInPreorder
<1>1. BuildInv /\ PreorderInv /\ LossExplained => WalksInPreorder
  <2> SUFFICES ASSUME BuildInv, PreorderInv, LossExplained, Len(spans) > 1
               PROVE  /\ SubtreesUnbroken(ordered, spans)
                      /\ SiblingsInOrder(ordered, spans)
                      /\ stage # "start" => \A j \in DOMAIN spans : \A i \in 1..(j - 1) :
                                                spans[i].start <= spans[j].start
                      /\ (stage = "done" /\ Acyclic(spans)) => Ids(ordered) = Ids(spans)
    BY DEF WalksInPreorder
  <2>1. CASE stage = "start"
    <3>1. ordered = <<>>
      BY <2>1 DEF BuildInv, WalkInv, WalkByPlace
    <3>2. SubtreesUnbroken(<<>>, spans) /\ SiblingsInOrder(<<>>, spans)
      BY DEF SubtreesUnbroken, SiblingsInOrder
    <3> QED
      BY <2>1, <3>1, <3>2
  <2>2. CASE stage # "start"
    <3>1. SubtreesUnbroken(ordered, spans) /\ SiblingsInOrder(ordered, spans)
      BY <2>2 DEF PreorderInv
    <3>2. \A j \in DOMAIN spans : \A i \in 1..(j - 1) : spans[i].start <= spans[j].start
      BY <2>2, SpansSorted DEF BuildInv
    <3>3. (stage = "done" /\ Acyclic(spans)) => Ids(ordered) = Ids(spans)
      BY NothingLeftOut DEF BuildInv
    <3> QED
      BY <3>1, <3>2, <3>3
  <2> QED
    BY <2>1, <2>2
<1> QED
  BY BuildInvariant, OrderInvariant, LossOnlyByCycles, <1>1, PTL

\* The list once, parents first, subtrees in one piece, siblings as they come.
IsPreorder(walked, list) ==
    /\ walked \in Seq(Members(list)) /\ Ids(walked) = Ids(list) /\ Distinct(walked)
    /\ \A k \in DOMAIN walked : ~IsRoot(walked[k], list) =>
          \E j \in 1..(k - 1) : walked[j].id = walked[k].parent
    /\ SubtreesUnbroken(walked, list)
    /\ SiblingsInOrder(walked, list)

(* Equal IDs are equal positions.                                          *)
LEMMA IdsApart ==
    ASSUME NEW S, NEW walked \in Seq(S), Distinct(walked)
    PROVE  \A j, k \in DOMAIN walked : walked[j].id = walked[k].id => j = k
<1>1. DOMAIN walked = 1..Len(walked) /\ Len(walked) \in Nat
  OBVIOUS
<1>2. \A j, k \in DOMAIN walked : j < k => walked[j].id # walked[k].id
  BY <1>1 DEF Distinct
<1> QED
  BY <1>1, <1>2

(* In a pre-order the parent of the k-th span has a place before k.        *)
LEMMA ParentBefore ==
    ASSUME NEW list, NEW walked, IsPreorder(walked, list), NEW k \in DOMAIN walked
    PROVE  /\ ParentPlace(walked[k], walked, list) \in 0..(k - 1)
           /\ ~IsRoot(walked[k], list) =>
                 /\ ParentPlace(walked[k], walked, list) \in DOMAIN walked
                 /\ walked[ParentPlace(walked[k], walked, list)].id = walked[k].parent
<1> DEFINE M == Members(list)
<1>1. /\ walked \in Seq(M) /\ Distinct(walked)
      /\ ~IsRoot(walked[k], list) =>
            \E j \in 1..(k - 1) : walked[j].id = walked[k].parent
  BY DEF IsPreorder
<1> HIDE DEF M
<1>2. DOMAIN walked = 1..Len(walked) /\ Len(walked) \in Nat /\ k \in Nat \ {0}
  BY <1>1
<1>3. CASE IsRoot(walked[k], list)
  BY <1>2, <1>3 DEF ParentPlace
<1>4. CASE ~IsRoot(walked[k], list)
  <2>1. PICK j \in 1..(k - 1) : walked[j].id = walked[k].parent
    BY <1>1, <1>4
  <2>2. j \in DOMAIN walked
    BY <1>2
  <2>3. Reached(walked[k], walked, list)
    BY <2>1, <2>2 DEF Reached, Ids
  <2>4. /\ ParentPlace(walked[k], walked, list) \in DOMAIN walked
        /\ walked[ParentPlace(walked[k], walked, list)].id = walked[k].parent
    BY <1>1, <1>4, <2>3, PlaceOfParent
  <2>5. ParentPlace(walked[k], walked, list) = j
    BY <1>1, <2>1, <2>2, <2>4, IdsApart
  <2> QED
    BY <1>2, <2>1, <2>4, <2>5
<1> QED
  BY <1>3, <1>4

\* Two results are the same up to the k-th span.
SameUpTo(k, walked, other) == \A j \in 1..(k - 1) : walked[j] = other[j]

(* Where two pre-orders part, the span of one has its parent no earlier    *)
(* than that of the other, and comes before it if they are siblings.       *)
LEMMA WherePreordersPart ==
    ASSUME NEW list, list \in Seq(Members(list)), Distinct(list),
           NEW walked, NEW other, IsPreorder(walked, list), IsPreorder(other, list),
           NEW k \in DOMAIN walked, k \in DOMAIN other, SameUpTo(k, walked, other),
           walked[k] # other[k]
    PROVE  /\ ParentPlace(walked[k], walked, list) >= ParentPlace(other[k], other, list)
           /\ ParentPlace(walked[k], walked, list) = ParentPlace(other[k], other, list) =>
                 ComesBefore(walked[k], other[k], list)
<1> DEFINE M == Members(list)
           s == other[k]
           p == ParentPlace(s, other, list)
<1>1. /\ walked \in Seq(M) /\ other \in Seq(M) /\ Distinct(walked) /\ Distinct(other)
      /\ Ids(walked) = Ids(list) /\ Ids(other) = Ids(list)
      /\ SubtreesUnbroken(walked, list) /\ SiblingsInOrder(walked, list)
  BY DEF IsPreorder
<1>2. \A i, j \in DOMAIN list : list[i].id = list[j].id => i = j
  BY IdsApart
<1>3. \A r, t \in M : r.id = t.id => r = t
  BY <1>2 DEF Members
<1> HIDE DEF M
<1>4. s \in M /\ s.id \in Ids(list)
  <2>1. s.id \in Ids(other)
    BY DEF Ids
  <2> QED
    BY <1>1, <2>1
<1>5. \A j \in DOMAIN walked : walked[j] \in M
  BY <1>1
<1>6. /\ DOMAIN walked = 1..Len(walked) /\ Len(walked) \in Nat
      /\ DOMAIN other = 1..Len(other) /\ Len(other) \in Nat /\ k \in Nat \ {0}
  BY <1>1
<1>7. PICK m \in DOMAIN walked : walked[m].id = s.id
  BY <1>1, <1>4 DEF Ids
<1>8. walked[m] = s
  BY <1>3, <1>4, <1>5, <1>7
<1>9. \A i, j \in DOMAIN other : other[i].id = other[j].id => i = j
  BY <1>1, IdsApart
<1>10. k < m
  <2> SUFFICES ASSUME m <= k PROVE FALSE
    BY <1>6
  <2>1. m # k
    BY <1>8
  <2>2. m \in 1..(k - 1) /\ m \in DOMAIN other
    BY <1>6, <2>1
  <2>3. other[m] = s
    BY <1>8, <2>2 DEF SameUpTo
  <2> QED
    BY <1>9, <2>1, <2>2, <2>3
<1>11. /\ p \in 0..(k - 1)
       /\ ~IsRoot(s, list) => p \in DOMAIN other /\ other[p].id = s.parent
  BY ParentBefore
<1>12. /\ ParentPlace(s, walked, list) \in 0..(m - 1)
       /\ ~IsRoot(s, list) =>
             /\ ParentPlace(s, walked, list) \in DOMAIN walked
             /\ walked[ParentPlace(s, walked, list)].id = s.parent
  BY <1>8, ParentBefore
<1>13. ParentPlace(s, walked, list) = p
  <2>1. CASE IsRoot(s, list)
    BY <2>1 DEF ParentPlace
  <2>2. CASE ~IsRoot(s, list)
    <3>1. p \in 1..(k - 1) /\ other[p].id = s.parent
      BY <1>6, <1>11, <2>2
    <3>2. p \in DOMAIN walked /\ walked[p].id = s.parent
      BY <1>6, <3>1 DEF SameUpTo
    <3> HIDE DEF p
    <3> QED
      BY <1>1, <1>12, <2>2, <3>2, IdsApart
  <2> QED
    BY <2>1, <2>2
<1> HIDE DEF p, s
<1>14. k \in (p + 1)..(m - 1) /\ k \in 1..(m - 1)
  BY <1>6, <1>10, <1>11
<1>15. ParentPlace(walked[k], walked, list) >= p
  BY <1>1, <1>8, <1>13, <1>14 DEF SubtreesUnbroken
<1>16. ParentPlace(walked[k], walked, list) = p => ComesBefore(walked[k], s, list)
  BY <1>1, <1>8, <1>13, <1>14 DEF SiblingsInOrder
<1> QED
  BY <1>15, <1>16 DEF p, s

(* A list of spans with IDs of their own has at most one pre-order.        *)
LEMMA OnePreorder ==
    ASSUME NEW list, list \in Seq(Members(list)), Distinct(list),
           NEW walked, NEW other, IsPreorder(walked, list), IsPreorder(other, list)
    PROVE  walked = other
<1> DEFINE M == Members(list)
           m == Len(walked)
           n == Len(other)
<1>1. /\ walked \in Seq(M) /\ other \in Seq(M) /\ Distinct(walked) /\ Distinct(other)
      /\ Ids(walked) = Ids(list) /\ Ids(other) = Ids(list)
  BY DEF IsPreorder
<1> HIDE DEF M
<1>2. /\ DOMAIN walked = 1..m /\ m \in Nat /\ DOMAIN other = 1..n /\ n \in Nat
      /\ walked = [k \in 1..m |-> walked[k]] /\ other = [k \in 1..n |-> other[k]]
  BY <1>1
<1> HIDE DEF m, n
<1>3. /\ \A i, j \in DOMAIN walked : walked[i].id = walked[j].id => i = j
      /\ \A i, j \in DOMAIN other : other[i].id = other[j].id => i = j
  BY <1>1, IdsApart
<1>4. ASSUME NEW k \in 1..m, k \in 1..n, SameUpTo(k, walked, other) PROVE walked[k] = other[k]
  <2> SUFFICES ASSUME walked[k] # other[k] PROVE FALSE
    OBVIOUS
  <2> DEFINE p == ParentPlace(walked[k], walked, list)
             q == ParentPlace(other[k], other, list)
  <2>1. p >= q /\ (p = q => ComesBefore(walked[k], other[k], list))
    BY <1>2, <1>4, WherePreordersPart
  <2>2. SameUpTo(k, other, walked)
    BY <1>4 DEF SameUpTo
  <2>3. q >= p /\ (q = p => ComesBefore(other[k], walked[k], list))
    BY <1>2, <1>4, <2>2, WherePreordersPart
  <2>4. p \in 0..(k - 1) /\ q \in 0..(k - 1)
    BY <1>2, <1>4, ParentBefore
  <2> HIDE DEF p, q
  <2>5. ComesBefore(walked[k], other[k], list) /\ ComesBefore(other[k], walked[k], list)
    BY <2>1, <2>3, <2>4
  <2>6. /\ \A i, j \in DOMAIN list : list[i].id = list[j].id => i = j
        /\ \A i \in DOMAIN list : i \in Nat
    BY IdsApart
  <2> QED
    BY <2>5, <2>6 DEF ComesBefore
<1>5. \A k \in 1..m : k \in 1..n => walked[k] = other[k]
  <2> SUFFICES ASSUME NEW part \in 1..m, part \in 1..n, walked[part] # other[part]
               PROVE  FALSE
    OBVIOUS
  <2> DEFINE numbers == [k \in 1..m |->
                            IF k \in 1..n /\ walked[k] # other[k] THEN k ELSE m + 1]
  <2>1. /\ numbers \in [1..m -> Int]
        /\ \A k \in 1..m : numbers[k] =
               IF k \in 1..n /\ walked[k] # other[k] THEN k ELSE m + 1
    BY <1>2
  <2> HIDE DEF numbers
  <2>2. m \in Nat \ {0}
    BY <1>2
  <2>3. PICK low, high \in 1..m : \A k \in 1..m :
              numbers[low] <= numbers[k] /\ numbers[k] <= numbers[high]
    BY <2>1, <2>2, Extremes
  <2>4. numbers[low] <= part
    BY <2>1, <2>3
  <2>5. low \in 1..n /\ walked[low] # other[low] /\ numbers[low] = low
    BY <1>2, <2>1, <2>4
  <2>6. \A j \in 1..(low - 1) : walked[j] = other[j]
    <3> SUFFICES ASSUME NEW j \in 1..(low - 1), walked[j] # other[j] PROVE FALSE
      OBVIOUS
    <3>1. j \in 1..m /\ j \in 1..n /\ j < low
      BY <1>2, <2>5
    <3>2. numbers[j] = j
      BY <2>1, <3>1
    <3>3. numbers[low] <= numbers[j]
      BY <2>3, <3>1
    <3> QED
      BY <2>5, <3>1, <3>2, <3>3
  <2> QED
    BY <1>4, <2>5, <2>6 DEF SameUpTo
<1>6. m = n
  <2>1. ~(m < n)
    <3> SUFFICES ASSUME m < n PROVE FALSE
      OBVIOUS
    <3>1. m + 1 \in DOMAIN other
      BY <1>2
    <3>2. PICK j \in 1..m : walked[j].id = other[m + 1].id
      <4>1. other[m + 1].id \in Ids(other)
        BY <3>1 DEF Ids
      <4>2. other[m + 1].id \in Ids(walked)
        BY <1>1, <4>1
      <4> QED
        BY <1>2, <4>2 DEF Ids
    <3>3. j \in DOMAIN other /\ other[j].id = other[m + 1].id /\ j # m + 1
      BY <1>2, <1>5, <3>2
    <3> QED
      BY <1>3, <3>1, <3>3
  <2>2. ~(n < m)
    <3> SUFFICES ASSUME n < m PROVE FALSE
      OBVIOUS
    <3>1. n + 1 \in DOMAIN walked
      BY <1>2
    <3>2. PICK j \in 1..n : other[j].id = walked[n + 1].id
      <4>1. walked[n + 1].id \in Ids(walked)
        BY <3>1 DEF Ids
      <4>2. walked[n + 1].id \in Ids(other)
        BY <1>1, <4>1
      <4> QED
        BY <1>2, <4>2 DEF Ids
    <3>3. j \in DOMAIN walked /\ walked[j].id = walked[n + 1].id /\ j # n + 1
      BY <1>2, <1>5, <3>2
    <3> QED
      BY <1>3, <3>1, <3>3
  <2> QED
    BY <1>2, <2>1, <2>2
<1> QED
  BY <1>2, <1>5, <1>6

(* A trace with IDs of its own for every span and without a cycle has one  *)
(* pre-order, and the sort returns it.                                     *)
THEOREM TheOnlyPreorder ==
    BuildSpec => [](
        (stage = "done" /\ Len(spans) > 1 /\ Distinct(spans) /\ Acyclic(spans)) =>
            /\ IsPreorder(ordered, spans)
            /\ \A other : IsPreorder(other, spans) => other = ordered)
<1> DEFINE TheOne ==
        (stage = "done" /\ Len(spans) > 1 /\ Distinct(spans) /\ Acyclic(spans)) =>
            /\ IsPreorder(ordered, spans)
            /\ \A other : IsPreorder(other, spans) => other = ordered
<1>1. BuildInv /\ WalksInPreorder => TheOne
  <2> SUFFICES ASSUME BuildInv, WalksInPreorder, stage = "done", Len(spans) > 1,
                      Distinct(spans), Acyclic(spans)
               PROVE  /\ IsPreorder(ordered, spans)
                      /\ \A other : IsPreorder(other, spans) => other = ordered
    OBVIOUS
  <2>1. /\ ordered \in Seq(Members(spans)) /\ spans \in Seq(Members(spans))
        /\ ParentFirstAndOnce
    BY DEF BuildInv, WalkInv, StackTypes
  <2>2. /\ SubtreesUnbroken(ordered, spans) /\ SiblingsInOrder(ordered, spans)
        /\ Ids(ordered) = Ids(spans)
    BY DEF WalksInPreorder
  <2>3. Distinct(ordered)
    BY <2>1 DEF ParentFirstAndOnce, Distinct
  <2>4. \A k \in DOMAIN ordered : ~IsRoot(ordered[k], spans) =>
            \E j \in 1..(k - 1) : ordered[j].id = ordered[k].parent
    BY <2>1 DEF ParentFirstAndOnce
  <2>5. IsPreorder(ordered, spans)
    BY <2>1, <2>2, <2>3, <2>4 DEF IsPreorder
  <2> QED
    BY <2>1, <2>5, OnePreorder
<1> QED
  BY BuildInvariant, PreorderCorrect, <1>1, PTL

\* No two spans of the list start together.
StartsApart(list) ==
    \A i, j \in DOMAIN list : list[i].start = list[j].start => i = j

\* The spans of a set that start before a time.
StartedBefore(time, S) == {s \in S : s.start < time}

\* Which span has the k-th place depends on the spans only.
PlacedByStart(sorted, S) ==
    /\ \A k \in DOMAIN sorted :
          sorted[k] \in S /\ k = Cardinality(StartedBefore(sorted[k].start, S)) + 1
    /\ \A s \in S : \E k \in DOMAIN sorted : sorted[k] = s

(* Without ties the place of a span is the number of earlier spans, plus 1. *)
LEMMA PlaceByStart ==
    ASSUME NEW list, SpanList(list), StartsApart(list)
    PROVE  /\ SortByStart(list) = [k \in 1..Cardinality(Members(list)) |-> SortByStart(list)[k]]
           /\ PlacedByStart(SortByStart(list), Members(list))
<1> DEFINE P == DOMAIN list
           S == Members(list)
           sorted == SortByStart(list)
<1>1. /\ list \in Seq(S) /\ P = 1..Len(list) /\ Len(list) \in Nat
      /\ \A k \in P : k \in Nat /\ list[k].start \in Nat
  BY DEF SpanList
<1>2. /\ \A i, j \in P : list[i].start = list[j].start => i = j
      /\ \A i \in P : list[i] \in S
      /\ \A s \in S : \E i \in P : list[i] = s
  BY DEF StartsApart, Members
<1>3. PICK at \in [P -> P] :
          /\ sorted = [k \in P |-> list[at[k]]]
          /\ \A i \in P : \E k \in P : at[k] = i /\ k = Cardinality(Sooner(list)[i]) + 1
          /\ \A k \in P : \A j \in 1..(k - 1) : at[j] \in Sooner(list)[at[k]]
  <2> HIDE DEF S, sorted
  <2>1. list \in Seq(S) /\ \A i \in DOMAIN list : list[i].start \in Nat
    BY <1>1
  <2> QED
    BY <2>1, SortProperties DEF sorted
<1>4. \A i \in P : Sooner(list)[i] = {j \in P : list[j].start < list[i].start}
  BY <1>1, <1>2 DEF Sooner
<1>5. IsFiniteSet(P) /\ Cardinality(P) = Len(list)
  <2>1. IsFiniteSet(1..Len(list)) /\ Cardinality(1..Len(list)) = Len(list)
    BY <1>1, IntervalSize
  <2> QED
    BY <1>1, <2>1
<1> HIDE DEF P, S, sorted
<1>6. Cardinality(S) = Len(list)
  <2> DEFINE f == [i \in P |-> list[i]]
  <2>1. f \in Bijection(P, S)
    BY <1>2 DEF Bijection, Injection, Surjection, IsInjective
  <2>2. ExistsBijection(P, S)
    BY <2>1 DEF ExistsBijection
  <2> QED
    BY <1>5, <2>2, FS_Bijection
<1>7. ASSUME NEW i \in P
      PROVE  Cardinality(Sooner(list)[i]) = Cardinality(StartedBefore(list[i].start, S))
  <2> DEFINE before == {j \in P : list[j].start < list[i].start}
             earlier == StartedBefore(list[i].start, S)
             f == [j \in before |-> list[j]]
  <2>1. f \in Bijection(before, earlier)
    <3>1. \A j \in before : j \in P /\ list[j] \in earlier
      BY <1>2 DEF StartedBefore
    <3>2. \A s \in earlier : \E j \in before : list[j] = s
      BY <1>2 DEF StartedBefore
    <3> HIDE DEF before, earlier
    <3> QED
      BY <1>2, <3>1, <3>2 DEF Bijection, Injection, Surjection, IsInjective
  <2>2. before \in SUBSET P
    OBVIOUS
  <2>3. Sooner(list)[i] = before
    BY <1>4
  <2> HIDE DEF before, earlier, f
  <2>4. ExistsBijection(before, earlier)
    BY <2>1 DEF ExistsBijection
  <2>5. IsFiniteSet(before)
    BY <1>5, <2>2, FS_Subset
  <2>6. Cardinality(before) = Cardinality(earlier)
    BY <2>4, <2>5, FS_Bijection
  <2> QED
    BY <2>3, <2>6 DEF earlier
<1>8. ASSUME NEW k \in P
      PROVE  sorted[k] \in S /\ k = Cardinality(StartedBefore(sorted[k].start, S)) + 1
  <2>1. at[k] \in P /\ sorted[k] = list[at[k]]
    BY <1>3
  <2>2. PICK m \in P : at[m] = at[k] /\ m = Cardinality(Sooner(list)[at[k]]) + 1
    BY <1>3, <2>1
  <2>3. \A i \in P : i \notin Sooner(list)[i]
    BY <1>1, <1>4
  <2>4. m = k
    <3>1. m \in Nat \ {0} /\ k \in Nat \ {0}
      BY <1>1 DEF P
    <3>2. ASSUME m < k PROVE FALSE
      <4>1. m \in 1..(k - 1)
        BY <3>1, <3>2
      <4>2. at[m] \in Sooner(list)[at[k]]
        BY <1>3, <4>1
      <4> QED
        BY <2>1, <2>2, <2>3, <4>2
    <3>3. ASSUME k < m PROVE FALSE
      <4>1. k \in 1..(m - 1)
        BY <3>1, <3>3
      <4>2. at[k] \in Sooner(list)[at[m]]
        BY <1>3, <4>1
      <4> QED
        BY <2>1, <2>2, <2>3, <4>2
    <3> QED
      BY <3>1, <3>2, <3>3
  <2> QED
    BY <1>2, <1>7, <2>1, <2>2, <2>4
<1>9. \A s \in S : \E k \in P : sorted[k] = s
  BY <1>2, <1>3
<1>10. DOMAIN sorted = P
  BY <1>3
<1>11. PlacedByStart(sorted, S)
  BY <1>8, <1>9, <1>10 DEF PlacedByStart
<1>12. sorted = [k \in 1..Cardinality(S) |-> sorted[k]]
  BY <1>1, <1>3, <1>6 DEF P
<1> QED
  BY <1>11, <1>12 DEF sorted, S

(* In whatever order a backend sends spans that start at different times,  *)
(* the walk is at work on one list, so the trace comes out in one order    *)
(* (sort.go:16).                                                           *)
THEOREM ReplyOrderIsNoMatter ==
    ASSUME NEW list, SpanList(list), StartsApart(list),
           NEW other, SpanList(other), StartsApart(other),
           Members(list) = Members(other)
    PROVE  SortByStart(list) = SortByStart(other)
<1> DEFINE S == Members(list)
           n == Cardinality(S)
           one == SortByStart(list)
           two == SortByStart(other)
<1>1. one = [k \in 1..n |-> one[k]] /\ PlacedByStart(one, S)
  BY PlaceByStart
<1>2. two = [k \in 1..n |-> two[k]] /\ PlacedByStart(two, S)
  BY PlaceByStart
<1> HIDE DEF S, n, one, two
<1>3. DOMAIN one = 1..n /\ DOMAIN two = 1..n
  BY <1>1, <1>2
<1>4. ASSUME NEW k \in 1..n PROVE one[k] = two[k]
  <2>1. one[k] \in S /\ k = Cardinality(StartedBefore(one[k].start, S)) + 1
    BY <1>1, <1>3 DEF PlacedByStart
  <2>2. PICK m \in 1..n : two[m] = one[k]
    BY <1>2, <1>3, <2>1 DEF PlacedByStart
  <2>3. m = Cardinality(StartedBefore(two[m].start, S)) + 1
    BY <1>2, <1>3 DEF PlacedByStart
  <2> QED
    BY <2>1, <2>2, <2>3
<1> QED
  BY <1>1, <1>2, <1>4 DEF one, two

-----------------------------------------------------------------------------
(* The trace just built has a duration, and so has each of its spans.      *)

LEMMA MillisecondsType ==
    ASSUME NEW duration \in Int
    PROVE  Milliseconds(duration) \in Int
<1>1. \A d \in Nat : d \div PerMilli \in Int
  BY UnitAssumption
<1>2. CASE duration < 0
  <2>1. -duration \in Nat
    BY <1>2
  <2> QED
    BY <1>1, <1>2, <2>1 DEF Milliseconds
<1>3. CASE ~(duration < 0)
  BY <1>1, <1>3 DEF Milliseconds
<1> QED
  BY <1>2, <1>3

\* A span with times, and with names that can be compared.
Regular(s) ==
    /\ s.start \in Int /\ s.end \in Int /\ s.duration \in Int
    /\ s.service \in DOMAIN Rank /\ s.operation \in DOMAIN Rank

(* Whatever fields a hit lacks, the span made of it has times and names.   *)
LEMMA AnswerIsRegular ==
    ASSUME NEW reply \in Answers
    PROVE  \A k \in DOMAIN SpansOf(reply) : Regular(SpansOf(reply)[k])
<1>1. CASE reply.backend = "jaeger"
  <2>1. \A i \in DOMAIN reply.spans :
            /\ reply.spans[i].start \in Nat /\ reply.spans[i].duration \in Int
            /\ reply.spans[i].operation \in DOMAIN Rank
    <3>1. \A i \in DOMAIN reply.spans : reply.spans[i] \in Range(reply.spans)
      BY DEF Range
    <3>2. \A s \in Range(reply.spans) : s.operation \in DOMAIN Rank
      BY <1>1, NamesAssumption
    <3>3. \A i \in DOMAIN reply.spans :
              reply.spans[i].start \in Nat /\ reply.spans[i].duration \in Int
      BY <1>1, AnswersAssumption
    <3> QED
      BY <3>1, <3>2, <3>3
  <2>2. SpansOf(reply) =
            [k \in DOMAIN reply.spans |-> JaegerSpan(reply.spans[k], reply.processes)]
    BY <1>1 DEF SpansOf
  <2>3. ASSUME NEW dto, dto.start \in Nat, dto.duration \in Int,
               dto.operation \in DOMAIN Rank
        PROVE  Regular(JaegerSpan(dto, reply.processes))
    <3> DEFINE processes == reply.processes
    <3>0. ServiceOf(dto, processes) \in DOMAIN Rank
      BY <1>1, NamesAssumption DEF ServiceOf, Range
    <3> HIDE DEF processes
    <3>1. /\ JaegerSpan(dto, processes).start = dto.start
          /\ JaegerSpan(dto, processes).end = dto.start + dto.duration
          /\ JaegerSpan(dto, processes).duration = dto.duration
          /\ JaegerSpan(dto, processes).service = ServiceOf(dto, processes)
          /\ JaegerSpan(dto, processes).operation = dto.operation
      BY DEF JaegerSpan
    <3>2. Regular(JaegerSpan(dto, processes))
      BY <2>3, <3>0, <3>1 DEF Regular
    <3> QED
      BY <3>2 DEF processes
  <2> QED
    BY <2>1, <2>2, <2>3
<1>2. CASE reply.backend = "openobserve"
  <2> DEFINE hits == Hits(reply)
  <2>1. SpansOf(reply) = [k \in DOMAIN hits |-> OpenObserveSpan(hits[k])]
    BY <1>2 DEF SpansOf
  <2>2. \A k \in DOMAIN hits : hits[k] \in Range(reply.spans)
    BY <1>2, HitsInOrder DEF SearchResult
  <2>3. \A s \in Range(reply.spans) :
            /\ s.start \in Nat
            /\ s.end \in Nat \cup {Missing} /\ s.duration \in Nat \cup {Missing}
            /\ s.service \in DOMAIN Rank \cup {Missing}
            /\ s.operation \in DOMAIN Rank \cup {Missing}
    <3> SUFFICES ASSUME NEW i \in DOMAIN reply.spans
                 PROVE  LET s == reply.spans[i]
                        IN  /\ s.start \in Nat /\ s.end \in Nat \cup {Missing}
                            /\ s.duration \in Nat \cup {Missing}
                            /\ s.service \in DOMAIN Rank \cup {Missing}
                            /\ s.operation \in DOMAIN Rank \cup {Missing}
      BY DEF Range
    <3>1. reply.backend # "jaeger"
      BY <1>2
    <3>2. /\ reply.spans[i].service \in DOMAIN Rank \cup {Missing}
          /\ reply.spans[i].operation \in DOMAIN Rank \cup {Missing}
      BY <3>1, NamesAssumption DEF Range
    <3> QED
      BY <1>2, <3>1, <3>2, AnswersAssumption
  <2>4. \A value \in Nat \cup {Missing} : Int64Value(value) \in Int
    <3>1. Int64Value(Missing) \in Int
      BY DEF Int64Value
    <3>2. \A value \in Nat : Int64Value(value) \in Int
      BY RoundingMonotone
    <3> QED
      BY <3>1, <3>2
  <2>6. \A name \in DOMAIN Rank \cup {Missing} : StringValue(name) \in DOMAIN Rank
    BY NamesAssumption DEF StringValue
  <2> HIDE DEF hits
  <2>5. ASSUME NEW k \in DOMAIN hits PROVE Regular(OpenObserveSpan(hits[k]))
    <3> DEFINE hit == hits[k]
    <3>1. /\ hit.start \in Nat /\ hit.end \in Nat \cup {Missing}
          /\ hit.duration \in Nat \cup {Missing}
          /\ hit.service \in DOMAIN Rank \cup {Missing}
          /\ hit.operation \in DOMAIN Rank \cup {Missing}
      BY <2>2, <2>3
    <3> HIDE DEF hit
    <3>2. /\ OpenObserveSpan(hit).start = Int64Value(hit.start)
          /\ OpenObserveSpan(hit).end = Int64Value(hit.end)
          /\ OpenObserveSpan(hit).duration = Int64Value(hit.duration)
          /\ OpenObserveSpan(hit).service = StringValue(hit.service)
          /\ OpenObserveSpan(hit).operation = StringValue(hit.operation)
      BY DEF OpenObserveSpan
    <3>3. Int64Value(hit.start) \in Int /\ Int64Value(hit.end) \in Int
          /\ Int64Value(hit.duration) \in Int
      BY <2>4, <3>1
    <3>4. StringValue(hit.service) \in DOMAIN Rank
          /\ StringValue(hit.operation) \in DOMAIN Rank
      BY <2>6, <3>1
    <3>5. Regular(OpenObserveSpan(hit))
      BY <3>2, <3>3, <3>4 DEF Regular
    <3> QED
      BY <3>5 DEF hit
  <2> QED
    BY <2>1, <2>5
<1> QED
  BY <1>1, <1>2, AnswersAssumption

(* Sorting keeps the times.                                                *)
LEMMA SpansAreRegular ==
    ASSUME SpansFromAnswer
    PROVE  \A s \in Members(spans) : Regular(s)
<1> DEFINE list == SpansOf(stored)
<1>1. stored \in Answers
      /\ spans = IF stage = "start" \/ Len(list) <= 1 THEN list ELSE SortByStart(list)
  BY DEF SpansFromAnswer
<1>2. SpanList(list) /\ \A k \in DOMAIN list : Regular(list[k])
  BY <1>1, SpansOfAnswer, AnswerIsRegular
<1> HIDE DEF list
<1>3. Rearranged(SortByStart(list), list)
  BY <1>2, SameSpans
<1> QED
  BY <1>1, <1>2, <1>3 DEF Rearranged, Members

\* A trace with the durations that the analytics look at.
Measured(t) ==
    /\ t.duration \in Int
    /\ t.spans \in Seq(Range(t.spans))
    /\ \A s \in Range(t.spans) :
          /\ s.duration \in Int
          /\ s.service \in DOMAIN Rank /\ s.operation \in DOMAIN Rank

(* The trace that is built can be measured.                                *)
LEMMA TraceIsMeasured ==
    ASSUME BuildInv
    PROVE  Measured(Trace)
<1> DEFINE n == Len(spans)
           M == Members(spans)
<1>1. SpansFromAnswer /\ spans \in Seq(M) /\ ordered \in Seq(M)
  BY DEF BuildInv, WalkInv, StackTypes
<1>2. n \in Nat /\ DOMAIN spans = 1..n /\ (spans = <<>> <=> n = 0)
  BY <1>1
<1>3. \A s \in M : Regular(s)
  BY <1>1, SpansAreRegular
<1>4. StartTime(spans) \in Int /\ EndTime(spans) \in Int
  <2>1. CASE n = 0
    BY <1>2, <2>1 DEF StartTime, EndTime
  <2>2. CASE n # 0
    <3> DEFINE starts == [k \in 1..n |-> spans[k].start]
               ends   == [k \in 1..n |-> spans[k].end]
    <3>1. \A k \in 1..n : spans[k].start \in Int /\ spans[k].end \in Int
      BY <1>2, <1>3 DEF Regular, Members
    <3>2. n \in Nat \ {0} /\ starts \in [1..n -> Int] /\ ends \in [1..n -> Int]
      BY <1>2, <2>2, <3>1
    <3> HIDE DEF n, M
    <3>3. PICK low \in 1..n : \A k \in 1..n : starts[low] <= starts[k]
      <4> HIDE DEF starts
      <4> QED
        BY <3>2, Extremes
    <3>4. PICK high \in 1..n : \A k \in 1..n : ends[k] <= ends[high]
      <4> HIDE DEF ends
      <4> QED
        BY <3>2, Extremes
    <3>5. Min({spans[k].start : k \in DOMAIN spans}) \in Int
      <4> DEFINE S == {spans[k].start : k \in DOMAIN spans}
      <4>1. \E x \in S : \A y \in S : x <= y
        BY <1>2, <3>3
      <4>2. S \subseteq Int
        BY <1>2, <3>1
      <4> HIDE DEF S
      <4>3. Min(S) \in S
        BY <4>1 DEF Min
      <4> QED
        BY <4>2, <4>3 DEF S
    <3>6. Max({spans[k].end : k \in DOMAIN spans}) \in Int
      <4> DEFINE S == {spans[k].end : k \in DOMAIN spans}
      <4>1. \E x \in S : \A y \in S : y <= x
        BY <1>2, <3>4
      <4>2. S \subseteq Int
        BY <1>2, <3>1
      <4> HIDE DEF S
      <4>3. \E x \in S : \A y \in S : x >= y
        BY <4>1, <4>2
      <4>4. Max(S) \in S
        BY <4>3 DEF Max
      <4> QED
        BY <4>2, <4>4 DEF S
    <3> QED
      BY <1>2, <2>2, <3>5, <3>6 DEF StartTime, EndTime
  <2> QED
    BY <2>1, <2>2
<1>5. /\ Trace.duration = EndTime(spans) - StartTime(spans)
      /\ Trace.spans = ordered
  BY DEF Trace
<1>6. ordered \in Seq(Range(ordered)) /\ \A s \in Range(ordered) : s \in M
  <2> HIDE DEF M
  <2>1. Len(ordered) \in Nat /\ DOMAIN ordered = 1..Len(ordered)
        /\ ordered = [k \in 1..Len(ordered) |-> ordered[k]]
    BY <1>1
  <2>2. \A k \in 1..Len(ordered) : ordered[k] \in Range(ordered) /\ ordered[k] \in M
    BY <1>1, <2>1 DEF Range
  <2>3. ordered \in [1..Len(ordered) -> Range(ordered)]
    BY <2>1, <2>2
  <2>4. \A s \in Range(ordered) : s \in M
    BY <2>1, <2>2 DEF Range
  <2>5. ordered \in Seq(Range(ordered))
    BY <2>1, <2>3
  <2> QED
    BY <2>4, <2>5
<1> HIDE DEF M
<1>7. Trace.duration \in Int
  BY <1>4, <1>5
<1>8. \A s \in Range(Trace.spans) :
          /\ s.duration \in Int
          /\ s.service \in DOMAIN Rank /\ s.operation \in DOMAIN Rank
  BY <1>3, <1>5, <1>6 DEF Regular
<1> QED
  BY <1>5, <1>6, <1>7, <1>8 DEF Measured
-----------------------------------------------------------------------------
(* The data of all traces of a test.                                       *)

(* What is collected are traces with durations.                            *)
LEMMA CollectedAreMeasured ==
    ASSUME BuildInv, NEW others \in OtherRuns
    PROVE  /\ Collected(others) \in Seq(Range(others) \cup {Trace})
           /\ \A i \in DOMAIN Collected(others) : Measured(Collected(others)[i])
<1> DEFINE S == Range(others) \cup {Trace}
           all == Append(others, Trace)
           P == {k \in DOMAIN all : all[k] # NoTrace}
<1>1. others \in Seq(S)
  <2>1. others \in Seq(Range(others))
    BY OtherRunsAssumption
  <2> DEFINE n == Len(others)
             R == Range(others)
  <2>2. n \in Nat /\ others \in [1..n -> R]
    <3> HIDE DEF R
    <3>1. others \in Seq(R)
      BY <2>1 DEF R
    <3> QED
      BY <3>1
  <2>3. others \in [1..n -> S]
    <3> HIDE DEF n
    <3> QED
      BY <2>2 DEF R
  <2> HIDE DEF S
  <2> QED
    BY <2>2, <2>3
<1>2. Trace \in S /\ P \in SUBSET (DOMAIN all)
  OBVIOUS
<1>3. \A t \in S : t # NoTrace => Measured(t)
  BY TraceIsMeasured, OtherRunsAssumption DEF Measured
<1> HIDE DEF S
<1>4. all \in Seq(S)
  BY <1>1, <1>2
<1>5. Collected(others) = Keep(all, P)
  BY DEF Collected
<1> HIDE DEF all
<1>6. \A k \in P : all[k] \in S /\ all[k] # NoTrace
  BY <1>4
<1> HIDE DEF P
<1>7. /\ Keep(all, P) \in Seq(S)
      /\ \A k \in DOMAIN Keep(all, P) : \E i \in P : Keep(all, P)[k] = all[i]
  BY <1>2, <1>4, KeepProperties
<1>8. \A k \in DOMAIN Keep(all, P) : Measured(Keep(all, P)[k])
  BY <1>3, <1>6, <1>7
<1> QED
  BY <1>5, <1>7, <1>8 DEF S

(* The places of the spans are finitely many pairs of numbers.             *)
LEMMA SpanPlacesFinite ==
    ASSUME NEW S, NEW traces \in Seq(S),
           \A i \in DOMAIN traces : Measured(traces[i])
    PROVE  /\ IsFiniteSet(SpanPlaces(traces))
           /\ \A p \in SpanPlaces(traces) :
                 /\ p = <<p[1], p[2]>> /\ p[1] \in Int /\ p[2] \in Int
                 /\ p[1] \in DOMAIN traces
                 /\ p[2] >= 1 /\ SpanAt(p, traces).duration \in Int
                 /\ SpanAt(p, traces).service \in DOMAIN Rank
                 /\ SpanAt(p, traces).operation \in DOMAIN Rank
<1> DEFINE of(i) == {<<i, k>> : k \in DOMAIN traces[i].spans}
<1>1. DOMAIN traces = 1..Len(traces) /\ Len(traces) \in Nat
  OBVIOUS
<1>2. ASSUME NEW i \in DOMAIN traces
      PROVE  /\ IsFiniteSet(of(i))
             /\ \A k \in DOMAIN traces[i].spans :
                   /\ k \in Nat \ {0} /\ traces[i].spans[k].duration \in Int
                   /\ traces[i].spans[k].service \in DOMAIN Rank
                   /\ traces[i].spans[k].operation \in DOMAIN Rank
  <2> DEFINE list == traces[i].spans
             n == Len(list)
             f == [k \in 1..n |-> <<i, k>>]
  <2>1. /\ list \in Seq(Range(list))
        /\ \A s \in Range(list) :
              /\ s.duration \in Int
              /\ s.service \in DOMAIN Rank /\ s.operation \in DOMAIN Rank
    BY <1>2 DEF Measured
  <2> HIDE DEF list
  <2>2. n \in Nat /\ DOMAIN list = 1..n /\ \A k \in 1..n : list[k] \in Range(list)
    BY <2>1
  <2>3. DOMAIN f = 1..n /\ IsFiniteSet(1..n)
    BY <2>2, IntervalSize
  <2>4. of(i) = {f[k] : k \in 1..n}
    BY <2>2 DEF list
  <2> HIDE DEF f, of
  <2>5. IsFiniteSet(of(i))
    BY <2>3, <2>4, FiniteImage
  <2>6. \A k \in DOMAIN list :
            /\ k \in Nat \ {0} /\ list[k].duration \in Int
            /\ list[k].service \in DOMAIN Rank /\ list[k].operation \in DOMAIN Rank
    BY <2>1, <2>2
  <2> QED
    BY <2>5, <2>6 DEF list, of
<1> DEFINE parts == {of(i) : i \in DOMAIN traces}
<1>3. IsFiniteSet(parts)
  <2> DEFINE g == [i \in 1..Len(traces) |-> of(i)]
  <2>1. DOMAIN g = 1..Len(traces) /\ parts = {g[i] : i \in 1..Len(traces)}
    BY <1>1
  <2>2. IsFiniteSet(1..Len(traces))
    BY <1>1, IntervalSize
  <2> HIDE DEF g, parts
  <2> QED
    BY <2>1, <2>2, FiniteImage
<1>4. \A T \in parts : IsFiniteSet(T)
  <2> HIDE DEF of
  <2> QED
    BY <1>2
<1>5. SpanPlaces(traces) = UNION parts
  BY DEF SpanPlaces
<1>6. IsFiniteSet(SpanPlaces(traces))
  <2> HIDE DEF parts
  <2> QED
    BY <1>3, <1>4, <1>5, FS_UNION
<1>7. ASSUME NEW p \in SpanPlaces(traces)
      PROVE  /\ p = <<p[1], p[2]>> /\ p[1] \in Int /\ p[2] \in Int
             /\ p[1] \in DOMAIN traces
             /\ p[2] >= 1 /\ SpanAt(p, traces).duration \in Int
             /\ SpanAt(p, traces).service \in DOMAIN Rank
             /\ SpanAt(p, traces).operation \in DOMAIN Rank
  <2>0. PICK i \in DOMAIN traces : p \in of(i)
    BY DEF SpanPlaces
  <2>1. PICK k \in DOMAIN traces[i].spans : p = <<i, k>>
    BY <2>0
  <2>2. i \in Int /\ p[1] = i /\ p[2] = k
    BY <1>1, <2>1
  <2>3. /\ k \in Nat \ {0} /\ traces[i].spans[k].duration \in Int
        /\ traces[i].spans[k].service \in DOMAIN Rank
        /\ traces[i].spans[k].operation \in DOMAIN Rank
    BY <1>2, <2>1
  <2> QED
    BY <2>1, <2>2, <2>3 DEF SpanAt
<1> QED
  BY <1>6, <1>7

\* A list of n spans with one key.
Listed(list, key, n) ==
    /\ list \in Seq(Range(list)) /\ Len(list) = n
    /\ \A k \in 1..n :
          /\ list[k].span.duration \in Int /\ list[k].position \in Nat
          /\ list[k].span.service \in DOMAIN Rank
          /\ list[k].span.operation \in DOMAIN Rank
          /\ GetSpanKey(list[k].span) = key

(* The spans with one key make a list that is not empty.                   *)
LEMMA OccurrencesListed ==
    ASSUME NEW S, NEW traces \in Seq(S),
           \A i \in DOMAIN traces : Measured(traces[i]),
           NEW key \in SpanKeys(traces)
    PROVE  \E n \in Nat \ {0} : Listed(Occurrences(key, traces), key, n)
<1> DEFINE P == PlacesOf(key, traces)
           before == [p \in P |-> Earlier(p, P)]
           list == [p \in P |->
                      [span |-> SpanAt(p, traces), position |-> p[2] - 1,
                       whole |-> Milliseconds(traces[p[1]].duration)]]
           n == Cardinality(P)
<1>1. Occurrences(key, traces) = Arrange(list, before)
  BY DEF Occurrences
<1>2. /\ IsFiniteSet(SpanPlaces(traces)) /\ P \subseteq SpanPlaces(traces)
      /\ \A p \in P : /\ p = <<p[1], p[2]>> /\ p[1] \in Int /\ p[2] \in Int
                      /\ p[2] >= 1 /\ SpanAt(p, traces).duration \in Int
                      /\ SpanAt(p, traces).service \in DOMAIN Rank
                      /\ SpanAt(p, traces).operation \in DOMAIN Rank
                      /\ GetSpanKey(SpanAt(p, traces)) = key
  BY SpanPlacesFinite DEF PlacesOf
<1>3. P # {}
  BY DEF PlacesOf, SpanKeys
<1>4. \A p \in P :
          /\ list[p].span.duration \in Int /\ list[p].position \in Nat
          /\ list[p].span.service \in DOMAIN Rank
          /\ list[p].span.operation \in DOMAIN Rank
          /\ GetSpanKey(list[p].span) = key
  <2> SUFFICES ASSUME NEW p \in P
               PROVE  /\ list[p].span.duration \in Int /\ list[p].position \in Nat
                      /\ list[p].span.service \in DOMAIN Rank
                      /\ list[p].span.operation \in DOMAIN Rank
                      /\ GetSpanKey(list[p].span) = key
    OBVIOUS
  <2>1. list[p].span = SpanAt(p, traces) /\ list[p].position = p[2] - 1
    OBVIOUS
  <2> HIDE DEF list, P
  <2> QED
    BY <1>2, <2>1
<1> HIDE DEF P, list
<1>5. IsFiniteSet(P) /\ n \in Nat \ {0}
  <2>1. IsFiniteSet(P)
    BY <1>2, FS_Subset
  <2> QED
    BY <1>3, <2>1, FS_CardinalityType, FS_EmptySet
<1>6. TotalOrder(P, before)
  <2>1. before \in [P -> SUBSET P]
    BY DEF Earlier
  <2>2. \A p, q \in P :
            q \in before[p] <=> (q[1] < p[1] \/ (q[1] = p[1] /\ q[2] < p[2]))
    BY DEF Earlier
  <2> HIDE DEF before
  <2>3. \A p \in P : p \notin before[p]
    BY <1>2, <2>2
  <2>4. ASSUME NEW p \in P, NEW q \in P, p # q
        PROVE  p \in before[q] \/ q \in before[p]
    <3>1. p[1] # q[1] \/ p[2] # q[2]
      BY <1>2, <2>4
    <3> QED
      BY <1>2, <2>2, <3>1
  <2>5. ASSUME NEW p \in P, NEW q \in P, p \in before[q], NEW o \in before[p]
        PROVE  o \in before[q]
    <3>1. o \in P
      BY <2>1, <2>5
    <3> QED
      BY <1>2, <2>2, <2>5, <3>1
  <2> QED
    BY <1>5, <2>1, <2>3, <2>4, <2>5 DEF TotalOrder
<1> HIDE DEF before
<1>7. PICK at : Places(list, P, before, at)
  BY <1>6, Arranged
<1> HIDE DEF n
<1>8. /\ at \in [1..n -> P]
      /\ Arrange(list, before) = [k \in 1..n |-> list[at[k]]]
  BY <1>7 DEF Places, n
<1> DEFINE made == Arrange(list, before)
<1>9. \A k \in 1..n : made[k] = list[at[k]] /\ at[k] \in P
  BY <1>8
<1>10. DOMAIN made = 1..n /\ made = [k \in 1..n |-> made[k]]
  BY <1>8
<1> HIDE DEF made
<1>11. made \in Seq(Range(made)) /\ Len(made) = n
  <2>1. made \in [1..n -> Range(made)]
    BY <1>10 DEF Range
  <2> QED
    BY <1>5, <2>1
<1>12. Listed(made, key, n)
  BY <1>4, <1>9, <1>11 DEF Listed
<1> QED
  BY <1>1, <1>5, <1>12 DEF made

(* Every percentile of a report is the nearest rank, for any traces of any  *)
(* number of runs and whatever spans they have.                             *)
THEOREM PercentilesCorrect == BuildSpec => []PercentilesAreNearestRank
<1>1. BuildInv => PercentilesAreNearestRank
  <2> SUFFICES ASSUME BuildInv, NEW others \in OtherRuns
               PROVE  LET data == TracesData(Collected(others))
                      IN  /\ RanksCorrect(TraceStatistics(data).durations,
                                          DurationsOf(data.traces))
                          /\ \A of \in data.spansData :
                                RanksCorrect(SpanStatistics(of).durations,
                                             SpanDurations(of.occurrences))
    BY DEF PercentilesAreNearestRank, TestData
  <2> DEFINE traces == Collected(others)
             S == Range(others) \cup {Trace}
             data == TracesData(traces)
             n == Len(traces)
  <2>1. traces \in Seq(S) /\ \A i \in DOMAIN traces : Measured(traces[i])
    BY CollectedAreMeasured
  <2> HIDE DEF traces, S
  <2>2. /\ data.traces = traces
        /\ data.sortedDurations = Ascending(DurationsOf(traces))
        /\ data.spansData = {SpansData(list) :
                list \in {Occurrences(key, traces) : key \in SpanKeys(traces)}}
    BY DEF TracesData
  <2> HIDE DEF data
  <2>3. n \in Nat /\ DOMAIN traces = 1..n /\ (traces = <<>> <=> n = 0)
    BY <2>1
  <2>4. DurationsOf(traces) \in [1..n -> Int]
    BY <2>1, <2>3, MillisecondsType DEF DurationsOf, Measured
  <2>5. RanksCorrect(TraceStatistics(data).durations, DurationsOf(traces))
    <3>1. CASE n = 0
      <4>1. Len(DurationsOf(traces)) = 0 /\ DOMAIN DurationsOf(traces) = {}
        BY <2>4, <3>1
      <4> HIDE DEF n
      <4>2. \A value, p : p \in {50, 90, 99} =>
                IsNearestRank(value, p, DurationsOf(traces))
        <5> SUFFICES ASSUME NEW value, NEW p \in {50, 90, 99}
                     PROVE  IsNearestRank(value, p, DurationsOf(traces))
          OBVIOUS
        <5>1. \A v : {k \in DOMAIN DurationsOf(traces) : DurationsOf(traces)[k] <= v} = {}
          BY <4>1
        <5>2. Range(DurationsOf(traces)) = {}
          BY <4>1 DEF Range
        <5>3. 0 * 100 >= p * 0 /\ Cardinality({}) = 0
          BY FS_EmptySet
        <5> QED
          BY <4>1, <5>1, <5>2, <5>3 DEF IsNearestRank
      <4> QED
        BY <4>2 DEF RanksCorrect
    <3>2. CASE n # 0
      <4>1. n \in Nat \ {0}
        BY <2>3, <3>2
      <4>2. TraceStatistics(data).durations = Statistics(Ascending(DurationsOf(traces)))
        BY <2>2, <2>3, <3>2 DEF TraceStatistics
      <4> HIDE DEF n
      <4> QED
        BY <2>4, <4>1, <4>2, RanksOfSorted
    <3> QED
      BY <3>1, <3>2
  <2>6. ASSUME NEW of \in data.spansData
        PROVE  RanksCorrect(SpanStatistics(of).durations, SpanDurations(of.occurrences))
    <3>1. PICK key \in SpanKeys(traces) : of = SpansData(Occurrences(key, traces))
      BY <2>2
    <3> DEFINE list == Occurrences(key, traces)
    <3>0. PICK m \in Nat \ {0} : Listed(list, key, m)
      BY <2>1, OccurrencesListed
    <3> HIDE DEF list
    <3>2. SpanDurations(list) \in [1..m -> Int]
      <4>1. DOMAIN list = 1..m /\ \A k \in 1..m : list[k].span.duration \in Int
        BY <3>0 DEF Listed
      <4> QED
        BY <4>1, MillisecondsType DEF SpanDurations
    <3>3. of.occurrences = list /\ of.sortedDurations = Ascending(SpanDurations(list))
      BY <3>1 DEF SpansData, list
    <3>4. SpanStatistics(of).durations = Statistics(of.sortedDurations)
      BY DEF SpanStatistics
    <3> QED
      BY <3>2, <3>3, <3>4, RanksOfSorted
  <2> QED
    BY <2>2, <2>5, <2>6 DEF data, traces
<1> QED
  BY BuildInvariant, <1>1, PTL
-----------------------------------------------------------------------------
(* The table of spans.                                                     *)

\* The lists of all elements in which none comes after one it belongs before.
Sortings(R, before) ==
    {rows \in SetToSeqs(R) :
        \A j \in DOMAIN rows : \A i \in 1..(j - 1) : rows[j] \notin before[rows[i]]}

(* In such a list an element has its rank: k - 1 elements belong before the *)
(* one at place k.                                                          *)
LEMMA PlaceIsRank ==
    ASSUME NEW R, NEW before, TotalOrder(R, before),
           NEW rows \in Sortings(R, before), NEW k \in 1..Cardinality(R)
    PROVE  rows[k] \in R /\ Cardinality(before[rows[k]]) = k - 1
<1> DEFINE n == Cardinality(R)
           D == 1..n
           first == 1..(k - 1)
           earlier == {rows[j] : j \in first}
<1>1. /\ rows \in [D -> R]
      /\ \A i, j \in D : i # j => rows[i] # rows[j]
      /\ \A j \in D : \A i \in 1..(j - 1) : rows[j] \notin before[rows[i]]
  BY DEF Sortings, SetToSeqs
<1>2. IsFiniteSet(R) /\ n \in Nat
  BY FS_CardinalityType DEF TotalOrder
<1>3. IsFiniteSet(D) /\ Cardinality(D) = n
  BY <1>2, IntervalSize
<1>4. \A r \in R : \E j \in D : rows[j] = r
  <2> HIDE DEF D
  <2>1. rows \in Injection(D, R)
    BY <1>1 DEF Injection, IsInjective
  <2>2. rows \in Surjection(D, R)
    BY <1>2, <1>3, <2>1, FS_Injection
  <2> QED
    BY <2>2 DEF Surjection
<1>5. k \in D /\ first \subseteq D /\ \A j \in first : j \in Int /\ j < k
  BY <1>2
<1>6. earlier \subseteq before[rows[k]]
  <2> SUFFICES ASSUME NEW j \in first PROVE rows[j] \in before[rows[k]]
    OBVIOUS
  <2>1. rows[j] \in R /\ rows[k] \in R /\ rows[j] # rows[k]
    BY <1>1, <1>5
  <2>2. rows[k] \notin before[rows[j]]
    BY <1>1, <1>5
  <2> QED
    BY <2>1, <2>2 DEF TotalOrder
<1>7. before[rows[k]] \subseteq earlier
  <2> SUFFICES ASSUME NEW r \in before[rows[k]] PROVE r \in earlier
    OBVIOUS
  <2>1. rows[k] \in R /\ r \in R /\ rows[k] \notin before[rows[k]]
    BY <1>1, <1>5 DEF TotalOrder
  <2>2. PICK j \in D : rows[j] = r
    BY <1>4, <2>1
  <2>3. j # k
    BY <2>1, <2>2
  <2>4. ~(k < j)
    <3> SUFFICES ASSUME k < j PROVE FALSE
      OBVIOUS
    <3>1. k \in 1..(j - 1)
      BY <1>2
    <3>2. rows[j] \notin before[rows[k]]
      BY <1>1, <3>1
    <3> QED
      BY <2>2, <3>2
  <2>5. j \in first
    BY <1>2, <2>3, <2>4
  <2> QED
    BY <2>2, <2>5
<1>8. Cardinality(earlier) = k - 1
  <2>1. k - 1 \in Nat
    BY <1>2
  <2>2. IsFiniteSet(first) /\ Cardinality(first) = k - 1
    BY <2>1, IntervalSize
  <2> DEFINE f == [j \in first |-> rows[j]]
  <2>3. f \in [first -> earlier] /\ DOMAIN f = first
        /\ \A j \in first : f[j] = rows[j]
    OBVIOUS
  <2>4. \A r \in earlier : \E j \in first : f[j] = r
    OBVIOUS
  <2> HIDE DEF f
  <2>5. \A i, j \in first : f[i] = f[j] => i = j
    BY <1>1, <1>5, <2>3
  <2> HIDE DEF first, earlier
  <2>6. f \in Bijection(first, earlier)
    BY <2>3, <2>4, <2>5 DEF Bijection, Injection, Surjection, IsInjective
  <2> QED
    BY <2>2, <2>6, FS_Bijection DEF ExistsBijection
<1>9. before[rows[k]] = earlier
  BY <1>6, <1>7
<1>10. rows[k] \in R
  BY <1>1, <1>5
<1> HIDE DEF earlier
<1> QED
  BY <1>8, <1>9, <1>10

(* A total order leaves one sorting.                                        *)
LEMMA OneSorting ==
    ASSUME NEW R, NEW before, TotalOrder(R, before)
    PROVE  \E table : Sortings(R, before) = {table}
<1> DEFINE n == Cardinality(R)
<1>1. n \in Nat
  BY FS_CardinalityType DEF TotalOrder
<1>2. \E table : table \in Sortings(R, before)
  <2>1. PICK at : Places(R, R, before, at)
    BY Arranged
  <2>2. /\ at \in [1..n -> R]
        /\ \A k \in 1..n : \A j \in 1..(k - 1) : at[j] \in before[at[k]]
    BY <2>1 DEF Places
  <2>3. ASSUME NEW k \in 1..n, NEW j \in 1..(k - 1)
        PROVE  at[k] \notin before[at[j]] /\ at[j] # at[k]
    <3>1. at[k] \in R /\ at[j] \in R /\ at[j] \in before[at[k]]
      BY <1>1, <2>2
    <3> QED
      BY <3>1 DEF TotalOrder
  <2>4. \A i, j \in 1..n : i # j => at[i] # at[j]
    <3> SUFFICES ASSUME NEW i \in 1..n, NEW j \in 1..n, i # j
                 PROVE  at[i] # at[j]
      OBVIOUS
    <3>1. i \in 1..(j - 1) \/ j \in 1..(i - 1)
      BY <1>1
    <3> QED
      BY <2>3, <3>1
  <2>5. DOMAIN at = 1..n
    BY <2>2
  <2> QED
    BY <2>2, <2>3, <2>4, <2>5 DEF Sortings, SetToSeqs
<1>3. ASSUME NEW f \in Sortings(R, before), NEW g \in Sortings(R, before)
      PROVE  f = g
  <2>1. f \in [1..n -> R] /\ g \in [1..n -> R]
    BY DEF Sortings, SetToSeqs
  <2>2. ASSUME NEW k \in 1..n PROVE f[k] = g[k]
    <3>1. /\ f[k] \in R /\ Cardinality(before[f[k]]) = k - 1
          /\ g[k] \in R /\ Cardinality(before[g[k]]) = k - 1
      BY PlaceIsRank
    <3>2. /\ \A r \in R : Cardinality(before[r]) \in 0..(n - 1)
          /\ \A q, r \in R : q \in before[r] => Cardinality(before[q]) < Cardinality(before[r])
      BY Ranks DEF TotalOrder
    <3>3. f[k] \notin before[g[k]] /\ g[k] \notin before[f[k]]
      BY <1>1, <3>1, <3>2
    <3> QED
      BY <3>1, <3>3 DEF TotalOrder
  <2> HIDE DEF n
  <2>3. f = [k \in 1..n |-> f[k]] /\ g = [k \in 1..n |-> g[k]]
    BY <2>1
  <2>4. \A k \in 1..n : f[k] = g[k]
    BY <2>2
  <2> QED
    BY <2>3, <2>4
<1>4. PICK table : table \in Sortings(R, before)
  BY <1>2
<1>5. Sortings(R, before) = {table}
  BY <1>3, <1>4
<1> QED
  BY <1>5

(* Multiplying by a positive number keeps an order and loses none.          *)
LEMMA PositiveFactor ==
    ASSUME NEW a \in Int, NEW b \in Int, NEW y \in Nat \ {0}
    PROVE  /\ a <= b <=> a * y <= b * y
           /\ a < b <=> a * y < b * y
<1>1. ASSUME NEW c \in Int, NEW d \in Int, c <= d PROVE c * y <= d * y
  <2>1. PICK e \in Nat : d = c + e
    <3>1. d - c \in Nat /\ d = c + (d - c)
      BY <1>1
    <3> QED
      BY <3>1
  <2>2. e * y >= 0 /\ d * y = c * y + e * y /\ e * y \in Int /\ c * y \in Int
    BY <2>1
  <2> QED
    BY <2>2
<1>2. ASSUME NEW c \in Int, NEW d \in Int, c < d PROVE c * y < d * y
  <2>1. c + 1 <= d /\ c + 1 \in Int
    BY <1>2
  <2>2. (c + 1) * y <= d * y
    BY <1>1, <2>1
  <2>3. (c + 1) * y = c * y + y /\ c * y \in Int /\ d * y \in Int
    OBVIOUS
  <2> QED
    BY <2>2, <2>3
<1>3. a * y \in Int /\ b * y \in Int
  OBVIOUS
<1>4. CASE a < b
  BY <1>2, <1>3, <1>4
<1>5. CASE b < a
  BY <1>2, <1>3, <1>5
<1>6. CASE a = b
  BY <1>3, <1>6
<1> QED
  BY <1>4, <1>5, <1>6

(* Fractions compared by their cross products are in a weak order.          *)
LEMMA FractionsInOrder ==
    ASSUME NEW m \in Nat, NEW n \in Nat, NEW p \in Nat,
           NEW x \in Nat \ {0}, NEW y \in Nat \ {0}, NEW z \in Nat \ {0},
           m * y <= n * x, n * z <= p * y
    PROVE  /\ m * z <= p * x
           /\ m * y < n * x \/ n * z < p * y => m * z < p * x
<1> DEFINE a == m * z
           b == p * x
           c == m * y
           d == n * x
           e == n * z
           f == p * y
<1>1. a \in Int /\ b \in Int /\ c \in Int /\ d \in Int /\ e \in Int /\ f \in Int
  OBVIOUS
<1>2. a * y = c * z
  OBVIOUS
<1>3. d * z = e * x
  OBVIOUS
<1>4. f * x = b * y
  OBVIOUS
<1>5. c <= d /\ e <= f
  OBVIOUS
<1> HIDE DEF a, b, c, d, e, f
<1>6. c * z <= d * z /\ (c < d => c * z < d * z)
  BY <1>1, <1>5, PositiveFactor
<1>7. e * x <= f * x /\ (e < f => e * x < f * x)
  BY <1>1, <1>5, PositiveFactor
<1> DEFINE ay == a * y
           by == b * y
           dz == d * z
<1>8. ay \in Int /\ by \in Int /\ dz \in Int
  BY <1>1
<1>9. ay <= dz /\ dz <= by /\ (c < d => ay < dz) /\ (e < f => dz < by)
  BY <1>2, <1>3, <1>4, <1>6, <1>7
<1>10. (a <= b <=> ay <= by) /\ (a < b <=> ay < by)
  BY <1>1, PositiveFactor
<1> HIDE DEF ay, by, dz
<1>11. a <= b /\ (c < d \/ e < f => a < b)
  BY <1>8, <1>9, <1>10
<1> QED
  BY <1>11 DEF a, b, c, d, e, f

\* A row with values that can be compared.
Comparable(row) ==
    /\ row.position[1] \in Nat /\ row.position[2] \in Nat \ {0}
    /\ row.service \in DOMAIN Rank /\ row.operation \in DOMAIN Rank

(* Positions of rows are in a weak order.                                   *)
LEMMA PositionsInOrder ==
    ASSUME NEW a, NEW b, NEW c, Comparable(a), Comparable(b), Comparable(c),
           ~Less(b.position, a.position), ~Less(c.position, b.position)
    PROVE  /\ ~Less(c.position, a.position)
           /\ Less(a.position, b.position) \/ Less(b.position, c.position) =>
                 Less(a.position, c.position)
<1> DEFINE m == a.position[1]
           x == a.position[2]
           n == b.position[1]
           y == b.position[2]
           p == c.position[1]
           z == c.position[2]
<1>1. /\ m \in Nat /\ n \in Nat /\ p \in Nat
      /\ x \in Nat \ {0} /\ y \in Nat \ {0} /\ z \in Nat \ {0}
  BY DEF Comparable
<1>2. /\ Less(b.position, a.position) <=> n * x < m * y
      /\ Less(c.position, b.position) <=> p * y < n * z
      /\ Less(c.position, a.position) <=> p * x < m * z
      /\ Less(a.position, b.position) <=> m * y < n * x
      /\ Less(b.position, c.position) <=> n * z < p * y
      /\ Less(a.position, c.position) <=> m * z < p * x
  BY DEF Less
<1> HIDE DEF m, n, p, x, y, z
<1>3. /\ m * y \in Int /\ n * x \in Int /\ n * z \in Int
      /\ p * y \in Int /\ m * z \in Int /\ p * x \in Int
  BY <1>1
<1>4. m * y <= n * x /\ n * z <= p * y
  <2>1. ~(n * x < m * y) /\ ~(p * y < n * z)
    BY <1>2
  <2> QED
    BY <1>3, <2>1
<1>5. m * z <= p * x /\ (m * y < n * x \/ n * z < p * y => m * z < p * x)
  BY <1>1, <1>4, FractionsInOrder
<1>6. ~(p * x < m * z)
  BY <1>3, <1>5
<1> QED
  BY <1>2, <1>5, <1>6

(* No two positions are each less than the other.                           *)
LEMMA PositionsAsymmetric ==
    ASSUME NEW a, NEW b, Comparable(a), Comparable(b), Less(a.position, b.position)
    PROVE  ~Less(b.position, a.position)
<1> DEFINE u == a.position[1] * b.position[2]
           v == b.position[1] * a.position[2]
<1>1. u \in Int /\ v \in Int
  BY DEF Comparable
<1>2. (Less(a.position, b.position) <=> u < v) /\ (Less(b.position, a.position) <=> v < u)
  BY DEF Less
<1> HIDE DEF u, v
<1> QED
  BY <1>1, <1>2

\* The names of a row come before those of another.
NamesBefore(a, b) ==
    \/ Rank[a.service] < Rank[b.service]
    \/ a.service = b.service /\ Rank[a.operation] < Rank[b.operation]

(* Names are in an order that tells any two pairs apart.                    *)
LEMMA NamesInOrder ==
    ASSUME NEW a, NEW b, NEW c, Comparable(a), Comparable(b), Comparable(c)
    PROVE  /\ ~NamesBefore(a, a)
           /\ NamesBefore(a, b) /\ NamesBefore(b, c) => NamesBefore(a, c)
           /\ \/ a.service = b.service /\ a.operation = b.operation
              \/ NamesBefore(a, b) \/ NamesBefore(b, a)
<1>1. /\ Rank[a.service] \in Int /\ Rank[b.service] \in Int /\ Rank[c.service] \in Int
      /\ Rank[a.operation] \in Int /\ Rank[b.operation] \in Int
      /\ Rank[c.operation] \in Int
  BY RankAssumption DEF Comparable
<1>2. /\ Rank[a.service] = Rank[b.service] => a.service = b.service
      /\ Rank[a.operation] = Rank[b.operation] => a.operation = b.operation
  BY RankAssumption DEF Comparable
<1>3. ~NamesBefore(a, a)
  BY <1>1 DEF NamesBefore
<1>4. NamesBefore(a, b) /\ NamesBefore(b, c) => NamesBefore(a, c)
  BY <1>1 DEF NamesBefore
<1>5. \/ a.service = b.service /\ a.operation = b.operation
      \/ NamesBefore(a, b) \/ NamesBefore(b, a)
  BY <1>1, <1>2 DEF NamesBefore
<1> QED
  BY <1>3, <1>4, <1>5

(* The comparison of rows is a total order of rows with different names.    *)
LEMMA RowsInOrder ==
    ASSUME NEW R, IsFiniteSet(R), \A r \in R : Comparable(r),
           \A q, r \in R :
              q.service = r.service /\ q.operation = r.operation => q = r
    PROVE  TotalOrder(R, [r \in R |-> {q \in R : Before(q, r)}])
<1> DEFINE before == [r \in R |-> {q \in R : Before(q, r)}]
<1>1. \A q, r \in R : q \in before[r] <=> Before(q, r)
  OBVIOUS
<1>2. before \in [R -> SUBSET R]
  OBVIOUS
<1> HIDE DEF before
<1>3. \A q, r : Before(q, r) <=> \/ Less(q.position, r.position)
                                 \/ /\ ~Less(r.position, q.position)
                                    /\ NamesBefore(q, r)
  BY DEF Before, NamesBefore
<1>4. ASSUME NEW q \in R, NEW r \in R, Before(q, r)
      PROVE  ~Less(r.position, q.position)
  <2>1. CASE Less(q.position, r.position)
    BY <2>1, PositionsAsymmetric
  <2>2. CASE ~Less(q.position, r.position)
    BY <1>3, <1>4, <2>2
  <2> QED
    BY <2>1, <2>2
<1>5. \A r \in R : ~Before(r, r)
  <2> SUFFICES ASSUME NEW r \in R PROVE ~Before(r, r)
    OBVIOUS
  <2>1. ~Less(r.position, r.position)
    BY PositionsAsymmetric
  <2>2. ~NamesBefore(r, r)
    BY NamesInOrder
  <2> QED
    BY <1>3, <2>1, <2>2
<1>6. \A q, r \in R : q # r => Before(q, r) \/ Before(r, q)
  <2> SUFFICES ASSUME NEW q \in R, NEW r \in R, q # r
               PROVE  Before(q, r) \/ Before(r, q)
    OBVIOUS
  <2>1. NamesBefore(q, r) \/ NamesBefore(r, q)
    BY NamesInOrder
  <2> QED
    BY <1>3, <2>1
<1>7. ASSUME NEW p \in R, NEW q \in R, NEW r \in R, Before(p, q), Before(q, r)
      PROVE  Before(p, r)
  <2>1. ~Less(q.position, p.position) /\ ~Less(r.position, q.position)
    BY <1>4, <1>7
  <2>2. /\ ~Less(r.position, p.position)
        /\ Less(p.position, q.position) \/ Less(q.position, r.position) =>
              Less(p.position, r.position)
    BY <2>1, PositionsInOrder
  <2>3. NamesBefore(p, q) /\ NamesBefore(q, r) => NamesBefore(p, r)
    BY NamesInOrder
  <2> QED
    BY <1>3, <1>7, <2>2, <2>3
<1>8. \A q, r \in R : q \in before[r] => before[q] \subseteq before[r]
  <2> SUFFICES ASSUME NEW q \in R, NEW r \in R, q \in before[r], NEW p \in before[q]
               PROVE  p \in before[r]
    OBVIOUS
  <2>1. p \in R
    BY <1>2
  <2> QED
    BY <1>1, <1>7, <2>1
<1>9. TotalOrder(R, before)
  BY <1>1, <1>2, <1>5, <1>6, <1>8 DEF TotalOrder
<1> QED
  BY <1>9 DEF before

(* A row has the names that make its key and a position.                    *)
LEMMA RowOfKey ==
    ASSUME NEW key, NEW list, NEW n \in Nat \ {0}, Listed(list, key, n)
    PROVE  /\ Comparable(SpanStatistics(SpansData(list)))
           /\ GetSpanKey(SpanStatistics(SpansData(list))) = key
<1> DEFINE row == SpanStatistics(SpansData(list))
           of(k) == {<<k, before>> : before \in 1..list[k].position}
           parts == {of(k) : k \in DOMAIN list}
<1>1. /\ Len(list) = n /\ DOMAIN list = 1..n
      /\ \A k \in 1..n : list[k].position \in Nat
      /\ list[1].span.service \in DOMAIN Rank /\ list[1].span.operation \in DOMAIN Rank
      /\ GetSpanKey(list[1].span) = key
  BY DEF Listed
<1>2. /\ row.service = list[1].span.service
      /\ row.operation = list[1].span.operation
      /\ row.position = MeanPosition(list)
  BY DEF SpanStatistics, SpansData
<1> HIDE DEF row
<1>3. ASSUME NEW k \in DOMAIN list PROVE IsFiniteSet(of(k))
  <2> DEFINE D == 1..list[k].position
             f == [before \in D |-> <<k, before>>]
  <2>1. DOMAIN f = D /\ of(k) = {f[before] : before \in D}
    OBVIOUS
  <2>2. IsFiniteSet(D)
    BY <1>1, IntervalSize
  <2> HIDE DEF D, f, of
  <2>3. IsFiniteSet({f[before] : before \in D})
    BY <2>1, <2>2, FiniteImage
  <2> QED
    BY <2>1, <2>3
<1>4. IsFiniteSet(parts)
  <2> DEFINE D == DOMAIN list
             f == [k \in D |-> of(k)]
  <2>1. DOMAIN f = D /\ parts = {f[k] : k \in D}
    OBVIOUS
  <2>2. IsFiniteSet(D)
    BY <1>1, IntervalSize
  <2> HIDE DEF D, f, parts
  <2> QED
    BY <2>1, <2>2, FiniteImage
<1>5. \A T \in parts : IsFiniteSet(T)
  <2> HIDE DEF of
  <2> QED
    BY <1>3
<1>6. MeanPosition(list) = <<Cardinality(UNION parts), n>>
  BY <1>1 DEF MeanPosition
<1> HIDE DEF parts
<1>7. Cardinality(UNION parts) \in Nat
  BY <1>4, <1>5, FS_UNION, FS_CardinalityType
<1>8. row.position[1] \in Nat /\ row.position[2] \in Nat \ {0}
  BY <1>2, <1>6, <1>7
<1>9. Comparable(row)
  BY <1>1, <1>2, <1>8 DEF Comparable
<1>10. GetSpanKey(row) = key
  BY <1>1, <1>2 DEF GetSpanKey
<1> QED
  BY <1>9, <1>10 DEF row

(* The table has one row for each key, and the rows are finitely many.      *)
LEMMA RowsOfData ==
    ASSUME NEW S, NEW traces \in Seq(S),
           \A i \in DOMAIN traces : Measured(traces[i])
    PROVE  LET R == SpanRows(TracesData(traces))
           IN  /\ IsFiniteSet(R)
               /\ \A r \in R : Comparable(r)
               /\ \A q, r \in R : GetSpanKey(q) = GetSpanKey(r) => q = r
<1> DEFINE keys == SpanKeys(traces)
           row == [key \in keys |-> SpanStatistics(SpansData(Occurrences(key, traces)))]
           R == {row[key] : key \in keys}
<1>1. SpanRows(TracesData(traces)) = R
  BY DEF SpanRows, TracesData
<1>2. ASSUME NEW key \in keys
      PROVE  Comparable(row[key]) /\ GetSpanKey(row[key]) = key
  <2>1. PICK n \in Nat \ {0} : Listed(Occurrences(key, traces), key, n)
    BY OccurrencesListed
  <2>2. row[key] = SpanStatistics(SpansData(Occurrences(key, traces)))
    OBVIOUS
  <2> QED
    BY <2>1, <2>2, RowOfKey
<1>3. IsFiniteSet(keys)
  <2> DEFINE P == SpanPlaces(traces)
             f == [p \in P |-> GetSpanKey(SpanAt(p, traces))]
  <2>1. IsFiniteSet(P)
    BY SpanPlacesFinite
  <2>2. DOMAIN f = P /\ keys = {f[p] : p \in P}
    BY DEF SpanKeys
  <2> HIDE DEF P, f
  <2> QED
    BY <2>1, <2>2, FiniteImage
<1>4. DOMAIN row = keys
  OBVIOUS
<1> HIDE DEF keys, row
<1>5. IsFiniteSet(R)
  BY <1>3, <1>4, FiniteImage
<1>6. /\ \A r \in R : Comparable(r)
      /\ \A q, r \in R : GetSpanKey(q) = GetSpanKey(r) => q = r
  BY <1>2
<1> QED
  BY <1>1, <1>5, <1>6

(* Two rows never compare equal, so the report of the same traces is one,   *)
(* in whatever order the map gives its keys.                                *)
THEOREM ReportUnique == BuildSpec => []ReportIsUnique
<1>1. BuildInv => ReportIsUnique
  <2> SUFFICES ASSUME BuildInv, NEW others \in OtherRuns
               PROVE  Cardinality(Exports(TracesData(Collected(others)))) = 1
    BY DEF ReportIsUnique, TestData
  <2> DEFINE traces == Collected(others)
             S == Range(others) \cup {Trace}
             data == TracesData(traces)
             R == SpanRows(data)
             before == [r \in R |-> {q \in R : Before(q, r)}]
  <2>1. traces \in Seq(S) /\ \A i \in DOMAIN traces : Measured(traces[i])
    BY CollectedAreMeasured
  <2> HIDE DEF traces, S
  <2>2. /\ IsFiniteSet(R) /\ \A r \in R : Comparable(r)
        /\ \A q, r \in R : GetSpanKey(q) = GetSpanKey(r) => q = r
    BY <2>1, RowsOfData
  <2> HIDE DEF data, R
  <2>3. \A q, r \in R : q.service = r.service /\ q.operation = r.operation => q = r
    BY <2>2 DEF GetSpanKey
  <2>4. TotalOrder(R, before)
    BY <2>2, <2>3, RowsInOrder
  <2>5. PICK table : Sortings(R, before) = {table}
    BY <2>4, OneSorting
  <2>6. SpanTables(data) = Sortings(R, before)
    <3>1. \A rows \in SetToSeqs(R) : \A j \in DOMAIN rows : \A i \in 1..(j - 1) :
              Before(rows[j], rows[i]) <=> rows[j] \in before[rows[i]]
      <4> SUFFICES ASSUME NEW rows \in SetToSeqs(R), NEW j \in DOMAIN rows,
                          NEW i \in 1..(j - 1)
                   PROVE  Before(rows[j], rows[i]) <=> rows[j] \in before[rows[i]]
        OBVIOUS
      <4> DEFINE n == Cardinality(R)
      <4>1. n \in Nat /\ rows \in [1..n -> R]
        BY <2>2, FS_CardinalityType DEF SetToSeqs
      <4>2. rows[i] \in R /\ rows[j] \in R
        <5>1. j \in 1..n /\ i \in 1..n
          BY <4>1
        <5> QED
          BY <4>1, <5>1
      <4> QED
        BY <4>2
    <3> HIDE DEF before
    <3> QED
      BY <3>1 DEF SpanTables, Sortings, R
  <2> DEFINE trace == TraceStatistics(data)
             list == TracesToJSON(data.traces)
  <2>7. Exports(data) = [trace : {trace}, spans : {table}, traces : {list}]
    BY <2>5, <2>6 DEF Exports
  <2> HIDE DEF trace, list
  <2>8. Exports(data) = {[trace |-> trace, spans |-> table, traces |-> list]}
    <3> DEFINE E == [trace : {trace}, spans : {table}, traces : {list}]
               report == [trace |-> trace, spans |-> table, traces |-> list]
    <3>1. report \in E
      OBVIOUS
    <3>2. ASSUME NEW e \in E PROVE e = report
      OBVIOUS
    <3> HIDE DEF E, report
    <3>3. E = {report}
      BY <3>1, <3>2
    <3> QED
      BY <2>7, <3>3 DEF E, report
  <2>9. Cardinality(Exports(data)) = 1
    BY <2>8, FS_Singleton
  <2> QED
    BY <2>9 DEF data, traces
<1> QED
  BY BuildInvariant, <1>1, PTL
=============================================================================
