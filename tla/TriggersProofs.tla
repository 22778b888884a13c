--------------------------- MODULE TriggersProofs ---------------------------
(***************************************************************************)
(* Proofs about Triggers, for any trigger sections and any number of runs. *)
(* TriggersInv is inductive: requests and spans stay with the ID of their  *)
(* run (IdsInv), the call knows its ID and its connections (CallInv), and  *)
(* a message on a connection that held is not lost (FlushInv).             *)
(***************************************************************************)
EXTENDS Triggers, TLAPS

(* A reader of a request finds the ID of its run, or the one of the test   *)
(* file (natsTrigger.go:117, httpTrigger.go:110, grpcTrigger.go:176).      *)
LEMMA ReadableIds ==
    ASSUME NEW d, NEW i PROVE Readable(d, i) \subseteq {Fixed, i}
BY DEF Readable, NATSHeader, AddedHeader

(* The variables keep their types.                                         *)
LEMMA TypeStep == ASSUME TypeOK, [Next]_vars PROVE TypeOK'
<1>1. run \in Ids /\ Fixed \in Ids
  BY DEF TypeOK, Ids
<1>2. Request \in Requests
  BY <1>1 DEF TypeOK, Request, Requests
<1>3. \A m \in Requests : m.run \in Runs
  BY DEF Requests
<1>4. \A i \in Ids : work[i] \in SUBSET Runs
  BY DEF TypeOK
<1> USE DEF TypeOK, Outside, calls, network, Leave, Released
<1>5. CASE HTTPSteps
  BY <1>2, <1>5 DEF HTTPSteps, SendHTTP, SendHTTPFails, HTTPAnswered, HTTPTimeout
<1>6. CASE GrpcSteps
  <2>1. CASE CompileProto \/ StartReflection \/ EndReflection
    BY <2>1 DEF CompileProto, StartReflection, EndReflection
  <2>2. CASE DescribeFails \/ Invoke \/ InvokeReturns
    BY <1>2, <2>2 DEF DescribeFails, Invoke, InvokeReturns
  <2> QED
    BY <1>6, <2>1, <2>2 DEF GrpcSteps
<1>7. CASE MessagingSteps
  <2>1. CASE Connect \/ ConnectFails \/ PublishFails
    BY <2>1 DEF Connect, ConnectFails, PublishFails
  <2>2. CASE Flushed \/ Acknowledged
    BY <2>2 DEF Flushed, Acknowledged
  <2>3. CASE Publish
    BY <1>2, <2>3 DEF Publish
  <2> QED
    BY <1>7, <2>1, <2>2, <2>3 DEF MessagingSteps
<1>8. CASE Client
  BY <1>8 DEF Client, IdleClosed, LinkLost, Reconnect
<1>9. CASE Environment
  <2>1. ASSUME NEW m \in net, Lose(m) \/ Accept(m) PROVE TypeOK'
    BY <2>1 DEF Lose, Accept
  <2>2. ASSUME NEW m \in accepted, NEW i \in Ids, Handle(m, i) PROVE TypeOK'
    <3>1. work' \in [Ids -> SUBSET Runs]
      BY <1>3, <1>4, <2>2 DEF Handle
    <3> QED
      BY <2>2, <3>1 DEF Handle
  <2> QED
    BY <1>9, <2>1, <2>2 DEF Environment
<1>10. CASE NewTrigger \/ TraceIdTrigger \/ Generate \/ GenerateFails
  BY <1>1, <1>10 DEF NewTrigger, TraceIdTrigger, Generate, GenerateFails
<1>11. CASE Fetch
  BY <1>4, <1>11 DEF Fetch
<1>12. CASE NextRun
  <2>1. run + 1 \in Runs
    BY <1>12, TriggersAssumption DEF NextRun, Runs
  <2> QED
    BY <1>12, <2>1 DEF NextRun
<1>13. CASE UNCHANGED vars
  BY <1>13 DEF vars
<1> QED
  BY <1>5, <1>6, <1>7, <1>8, <1>9, <1>10, <1>11, <1>12, <1>13 DEF Next

(* The call of Trigger knows its own ID and the connections it has opened, *)
(* and the deferred calls close them (grpcTrigger.go:162, 322;             *)
(* natsTrigger.go:102), or give them back to the pool (httpTrigger.go:122). *)
LEMMA CallStep == ASSUME TypeOK, CallInv, [Next]_vars PROVE CallInv'
<1> USE DEF CallInv, Outside, Messaging, calls, network, Leave, Released
<1>1. CASE HTTPSteps
  BY <1>1 DEF HTTPSteps, SendHTTP, SendHTTPFails, HTTPAnswered, HTTPTimeout
<1>2. CASE GrpcSteps
  BY <1>2 DEF GrpcSteps, CompileProto, StartReflection, EndReflection,
              DescribeFails, Invoke, InvokeReturns
<1>3. CASE MessagingSteps
  BY <1>3 DEF MessagingSteps, Connect, ConnectFails, Publish, Flushed,
              Acknowledged, PublishFails
<1>4. CASE Client
  BY <1>4 DEF Client, IdleClosed, LinkLost, Reconnect
<1>5. CASE Environment
  BY <1>5 DEF Environment, Lose, Accept, Handle
<1>6. CASE NewTrigger \/ TraceIdTrigger \/ Generate \/ GenerateFails
  BY <1>6 DEF NewTrigger, TraceIdTrigger, Generate, GenerateFails
<1>7. CASE Fetch \/ NextRun
  BY <1>7 DEF Fetch, NextRun
<1>8. CASE UNCHANGED vars
  BY <1>8 DEF vars
<1> QED
  BY <1>1, <1>2, <1>3, <1>4, <1>5, <1>6, <1>7, <1>8 DEF Next

(* Requests and spans stay with the ID of their run.                       *)
LEMMA IdsStep == ASSUME TypeOK, CallInv, IdsInv, [Next]_vars PROVE IdsInv'
<1>1. pc \notin Outside => Request.id = Request.run
  BY DEF CallInv, Request
<1> USE DEF IdsInv, calls, network, Leave, Released
<1>2. CASE HTTPSteps
  BY <1>1, <1>2 DEF HTTPSteps, SendHTTP, SendHTTPFails, HTTPAnswered, HTTPTimeout, Outside
<1>3. CASE GrpcSteps
  BY <1>1, <1>3 DEF GrpcSteps, CompileProto, StartReflection, EndReflection,
              DescribeFails, Invoke, InvokeReturns, Outside
<1>4. CASE MessagingSteps
  BY <1>1, <1>4 DEF MessagingSteps, Connect, ConnectFails, Publish, Flushed,
              Acknowledged, PublishFails, Outside
<1>5. CASE Client
  BY <1>5 DEF Client, IdleClosed, LinkLost, Reconnect
<1>6. CASE Environment
  <2>1. ASSUME NEW m \in net, Lose(m) \/ Accept(m) PROVE IdsInv'
    BY <2>1 DEF Lose, Accept
  <2>2. ASSUME NEW m \in accepted, NEW i \in Ids, Handle(m, i) PROVE IdsInv'
    <3>1. m.run = m.id /\ i \in Readable(dto, m.run)
      BY <2>2 DEF Handle
    <3>2. work' = [work EXCEPT ![i] = @ \cup {m.run}] /\ dto' = dto
      BY <2>2 DEF Handle
    <3>3. \A j \in Ids : work'[j] \subseteq work[j] \cup (IF j = i THEN {m.run} ELSE {})
      BY <3>2 DEF TypeOK
    <3>4. \A j \in Ids : \A r \in work'[j] : j \in Readable(dto, r)
      BY <3>1, <3>3
    <3> QED
      BY <2>2, <3>2, <3>4 DEF Handle
  <2> QED
    BY <1>6, <2>1, <2>2 DEF Environment
<1>7. CASE NewTrigger \/ TraceIdTrigger \/ Generate \/ GenerateFails
  BY <1>7 DEF NewTrigger, TraceIdTrigger, Generate, GenerateFails
<1>8. CASE Fetch \/ NextRun
  BY <1>8 DEF Fetch, NextRun
<1>9. CASE UNCHANGED vars
  BY <1>9 DEF vars
<1> QED
  BY <1>2, <1>3, <1>4, <1>5, <1>6, <1>7, <1>8, <1>9 DEF Next

(* An ID is returned after its request was received: the answer, the       *)
(* answer to the ping of Flush and the acknowledgement come after it.      *)
LEMMA ReceivedStep ==
    ASSUME TypeOK, CallInv, FlushInv, ReturnedWasReceived, [Next]_vars
    PROVE  FlushInv' /\ ReturnedWasReceived'
<1> USE DEF CallInv, FlushInv, ReturnedWasReceived, Outside, Messaging, calls,
        network, Request, Leave, Released
<1>1. CASE HTTPSteps
  BY <1>1 DEF HTTPSteps, SendHTTP, SendHTTPFails, HTTPAnswered, HTTPTimeout
<1>2. CASE GrpcSteps
  BY <1>2 DEF GrpcSteps, CompileProto, StartReflection, EndReflection,
              DescribeFails, Invoke, InvokeReturns
<1>3. CASE MessagingSteps
  BY <1>3 DEF MessagingSteps, Connect, ConnectFails, Publish, Flushed,
              Acknowledged, PublishFails, TypeOK
<1>4. CASE Client
  BY <1>4 DEF Client, IdleClosed, LinkLost, Reconnect
<1>5. CASE Environment
  BY <1>5 DEF Environment, Lose, Accept, Handle
<1>6. CASE NewTrigger \/ TraceIdTrigger \/ Generate \/ GenerateFails
  BY <1>6 DEF NewTrigger, TraceIdTrigger, Generate, GenerateFails
<1>7. CASE Fetch \/ NextRun
  BY <1>7 DEF Fetch, NextRun
<1>8. CASE UNCHANGED vars
  BY <1>8 DEF vars
<1> QED
  BY <1>1, <1>2, <1>3, <1>4, <1>5, <1>6, <1>7, <1>8 DEF Next

(* A trace that a run fetches under an ID of its own has only its spans.   *)
LEMMA FetchedStep ==
    ASSUME TypeOK, CallInv, IdsInv, NoCrossTalk, [Next]_vars PROVE NoCrossTalk'
<1> USE DEF NoCrossTalk, calls, network, Leave, Released
<1>1. CASE HTTPSteps \/ Client
  BY <1>1 DEF HTTPSteps, SendHTTP, SendHTTPFails, HTTPAnswered, HTTPTimeout,
              Client, IdleClosed, LinkLost, Reconnect
<1>2. CASE GrpcSteps
  BY <1>2 DEF GrpcSteps, CompileProto, StartReflection, EndReflection,
              DescribeFails, Invoke, InvokeReturns
<1>3. CASE MessagingSteps
  BY <1>3 DEF MessagingSteps, Connect, ConnectFails, Publish, Flushed,
              Acknowledged, PublishFails
<1>4. CASE Environment
  BY <1>4 DEF Environment, Lose, Accept, Handle
<1>5. CASE NewTrigger \/ TraceIdTrigger \/ Generate \/ GenerateFails \/ NextRun
  BY <1>5 DEF NewTrigger, TraceIdTrigger, Generate, GenerateFails, NextRun
<1>6. CASE Fetch
  <2>1. SUFFICES ASSUME dto.type # "traceid", NEW r \in work[id] PROVE r = run
    BY <1>6 DEF Fetch
  <2>2. id = run /\ id # Fixed
    BY <1>6, <2>1 DEF Fetch, CallInv, TypeOK, Runs, Fixed
  <2>3. id \in Readable(dto, r)
    BY <2>1 DEF IdsInv, TypeOK
  <2> QED
    BY <2>2, <2>3, ReadableIds
<1>7. CASE UNCHANGED vars
  BY <1>7 DEF vars
<1> QED
  BY <1>1, <1>2, <1>3, <1>4, <1>5, <1>6, <1>7 DEF Next

(* No request has been made and no connection opened at the start.         *)
LEMMA InitTriggersInv == Init => TriggersInv
<1> SUFFICES ASSUME Init PROVE TriggersInv
  OBVIOUS
<1>1. TypeOK
  BY TriggersAssumption DEF Init, TypeOK, Outside, Runs, Ids
<1>2. IdsInv
  BY DEF Init, IdsInv
<1>3. CallInv /\ FlushInv
  BY DEF Init, CallInv, FlushInv, Outside
<1>4. NoCrossTalk /\ ReturnedWasReceived
  BY DEF Init, NoCrossTalk, ReturnedWasReceived
<1> QED
  BY <1>1, <1>2, <1>3, <1>4 DEF TriggersInv

(* TriggersInv holds in every state, for any sections and number of runs.  *)
THEOREM TriggersInvariant == Spec => []TriggersInv
<1>1. TriggersInv /\ [Next]_vars => TriggersInv'
  BY TypeStep, CallStep, IdsStep, ReceivedStep, FetchedStep DEF TriggersInv
<1> QED
  BY <1>1, InitTriggersInv, PTL DEF Spec

(* No run of a test sees in its trace what a request of another run did,   *)
(* however late that is served.                                            *)
THEOREM RunsDoNotMix == Spec => []NoCrossTalk
BY TriggersInvariant, PTL DEF TriggersInv

(* An ID that an HTTP, NATS or JetStream trigger returns was received by a *)
(* server, unless the NATS connection broke on the way.                    *)
THEOREM ReceivedIfReturned == Spec => []ReturnedWasReceived
BY TriggersInvariant, PTL DEF TriggersInv

(* After every way out of Trigger no connection is in use: those of gRPC   *)
(* and NATS are closed, and that of HTTP is at most idle in the pool.      *)
THEOREM NothingLeftOpen == Spec => []ConnectionsClosed
<1>1. TriggersInv => ConnectionsClosed
  BY DEF TriggersInv, TypeOK, CallInv, ConnectionsClosed, Outside
<1> QED
  BY <1>1, TriggersInvariant, PTL

(* What the target has done for a run by the time of its fetch is in the   *)
(* trace that is fetched, unless the test file has a traceparent header    *)
(* that hides the one of mtracer.                                          *)
THEOREM OwnWorkFetched == Spec => OwnWorkIsFetched
<1> DEFINE Plain == dto.header = "none" \/ (dto.type \in Messaging /\ dto.header = "exact")
<1>1. ASSUME TriggersInv, Fetch, dto.type # "traceid", Plain,
             NEW i \in Ids, run \in work[i]
      PROVE  run \in fetched'
  <2>1. i \in Readable(dto, run)
    BY <1>1 DEF TriggersInv, IdsInv
  <2>2. i = run
    BY <1>1, <2>1 DEF Readable, NATSHeader, AddedHeader
  <2>3. id = run
    BY <1>1 DEF Fetch, TriggersInv, CallInv
  <2> QED
    BY <1>1, <2>2, <2>3 DEF Fetch
<1>2. TriggersInv /\ [Next]_vars =>
        [(Fetch /\ dto.type # "traceid" /\ Plain)
            => \A i \in Ids : run \in work[i] => run \in fetched']_vars
  BY <1>1
<1> QED
  BY <1>2, TriggersInvariant, PTL DEF Spec, OwnWorkIsFetched
=============================================================================
