---------------------- MODULE PlaywrightTriggerProofs ----------------------
(***************************************************************************)
(* Proofs about PlaywrightTrigger, for any set of requests and any number  *)
(* of runs.  TriggerInv is inductive: ChannelInv says what the channel and *)
(* the handlers know of each other until the channel is read, and          *)
(* NoHandlerLeft that nothing of a run is left for the next one.           *)
(***************************************************************************)
EXTENDS PlaywrightTrigger, TLAPS

(* An ID is never taken for an empty channel: Go's traceId == "" tells     *)
(* them apart (playwright.go:126), as run numbers start at 1.              *)
LEMMA IdIsNotEmpty ==
    ASSUME NEW k \in 1..RunCount, NEW r PROVE <<k, r>> # NoId
BY TriggerAssumption DEF NoId

(* The trigger starts with no handler, an empty channel and no ID          *)
(* (playwright.go:42-92).                                                  *)
LEMMA InitTriggerInv == Init => TriggerInv
<1> SUFFICES ASSUME Init PROVE TriggerInv
  OBVIOUS
<1>1. TypeOK
  BY TriggerAssumption DEF Init, TypeOK, HandlerStates
<1>2. IdIsOfThisRun
  BY DEF Init, IdIsOfThisRun
<1>3. NoHandlerLeft
  BY DEF Init, NoHandlerLeft, Working
<1>4. ChannelInv
  BY DEF Init, ChannelInv
<1> QED
  BY <1>1, <1>2, <1>3, <1>4 DEF TriggerInv

(* A request that arrives changes nothing but its own handler              *)
(* (playwright.go:156).                                                    *)
LEMMA AskKeepsInv ==
    ASSUME TriggerInv, NEW r \in Requests, Ask(r) PROVE TriggerInv'
<1>1. TypeOK'
  BY DEF Ask, TriggerInv, TypeOK, HandlerStates, Working
<1>2. IdIsOfThisRun'
  BY DEF Ask, TriggerInv, TypeOK, IdIsOfThisRun, Offered
<1>3. NoHandlerLeft'
  BY DEF Ask, TriggerInv, NoHandlerLeft
<1>4. ChannelInv'
  BY DEF Ask, TriggerInv, TypeOK, ChannelInv, Offered
<1> QED
  BY <1>1, <1>2, <1>3, <1>4 DEF TriggerInv

(* A handler that works does so while the trigger waits for npx, reads the *)
(* channel or shuts the server down.                                       *)
LEMMA HandlerAtWork ==
    ASSUME TriggerInv, NEW r \in Requests, handler[r] \in Working
    PROVE  pc \in {"running", "read", "shutdown"} /\ r \notin inTime
BY DEF TriggerInv, TypeOK, NoHandlerLeft, ChannelInv, Working

(* The steps of a handler keep the invariant: an offer never replaces an   *)
(* ID in the channel, and comes before the answer (playwright.go:156-189). *)
LEMMA HandleKeepsInv ==
    ASSUME TriggerInv, NEW r \in Requests, Handle(r) PROVE TriggerInv'
<1> USE DEF TriggerInv
<1>1. handler[r] \in Working
  BY DEF Handle, Generate, GenerateFails, Offer, Answer, AnswerDropped, Working
<1>2. pc \in {"running", "read", "shutdown"} /\ r \notin inTime
  BY <1>1, HandlerAtWork
<1>3. NoHandlerLeft'
  BY <1>2 DEF Handle, Generate, GenerateFails, Offer, Answer, AnswerDropped,
              NoHandlerLeft
<1>4. CASE Generate(r)
  <2>1. TypeOK'
    BY <1>4 DEF Generate, TypeOK, HandlerStates, Working
  <2>2. IdIsOfThisRun'
    BY <1>4 DEF Generate, TypeOK, IdIsOfThisRun, Offered
  <2>3. ChannelInv'
    BY <1>2, <1>4 DEF Generate, TypeOK, ChannelInv, Offered
  <2> QED
    BY <1>3, <2>1, <2>2, <2>3
<1>5. CASE GenerateFails(r)
  <2>1. TypeOK'
    BY <1>5 DEF GenerateFails, TypeOK, HandlerStates
  <2>2. IdIsOfThisRun'
    BY <1>5 DEF GenerateFails, TypeOK, IdIsOfThisRun, Offered
  <2>3. ChannelInv'
    BY <1>2, <1>5 DEF GenerateFails, TypeOK, ChannelInv, Offered
  <2> QED
    BY <1>3, <2>1, <2>2, <2>3
<1>6. CASE Offer(r)
  <2>1. <<run, r>> # NoId
    BY IdIsNotEmpty DEF TypeOK
  <2>2. TypeOK'
    BY <1>6 DEF Offer, TypeOK, HandlerStates, Working, Ids
  <2>3. IdIsOfThisRun'
    BY <1>6 DEF Offer, TypeOK, IdIsOfThisRun, Offered
  <2>4. channel' # NoId
    BY <1>6, <2>1 DEF Offer
  <2>5. pc \in {"running", "read"} =>
            \E q \in Requests : channel' = <<run, q>> /\ handler'[q] \in Offered
    <3>1. CASE channel = NoId
      BY <1>6, <3>1 DEF Offer, TypeOK, Offered
    <3>2. CASE channel # NoId
      BY <1>6, <3>2 DEF Offer, TypeOK, ChannelInv, Offered
    <3> QED
      BY <3>1, <3>2
  <2>6. ChannelInv'
    BY <1>2, <1>6, <2>4, <2>5 DEF Offer, TypeOK, ChannelInv
  <2> QED
    BY <1>3, <2>2, <2>3, <2>6
<1>7. CASE Answer(r)
  <2>1. TypeOK'
    BY <1>7 DEF Answer, TypeOK, HandlerStates
  <2>2. IdIsOfThisRun'
    BY <1>7 DEF Answer, TypeOK, IdIsOfThisRun, Offered
  <2>3. ChannelInv'
    BY <1>2, <1>7 DEF Answer, TypeOK, ChannelInv, Offered
  <2> QED
    BY <1>3, <2>1, <2>2, <2>3
<1>8. CASE AnswerDropped(r)
  <2>1. TypeOK'
    BY <1>8 DEF AnswerDropped, TypeOK, HandlerStates
  <2>2. IdIsOfThisRun'
    BY <1>8 DEF AnswerDropped, TypeOK, IdIsOfThisRun, Offered
  <2>3. ChannelInv'
    BY <1>2, <1>8 DEF AnswerDropped, TypeOK, ChannelInv, Offered
  <2> QED
    BY <1>3, <2>1, <2>2, <2>3
<1> QED
  BY <1>4, <1>5, <1>6, <1>7, <1>8 DEF Handle

(* The channel is read once npx has succeeded: what it holds was offered   *)
(* in this run, and it is not empty if an answer was given                 *)
(* (playwright.go:121-124).                                                *)
LEMMA ReadKeepsInv == ASSUME TriggerInv, Read PROVE TriggerInv'
<1> USE DEF TriggerInv
<1>1. TypeOK'
  BY DEF Read, TypeOK
<1>2. IdIsOfThisRun'
  BY DEF Read, TypeOK, IdIsOfThisRun, ChannelInv
<1>3. NoHandlerLeft'
  BY DEF Read, NoHandlerLeft
<1>4. inTime # {} => channel # NoId
  BY DEF Read, TypeOK, ChannelInv, Offered
<1>5. ChannelInv'
  BY <1>4 DEF Read, ChannelInv
<1> QED
  BY <1>1, <1>2, <1>3, <1>5

(* The other steps of Trigger and the next run keep the invariant          *)
(* (playwright.go:94-133, run.go:127-139).                                 *)
LEMMA MainKeepsInv == ASSUME TriggerInv, Main PROVE TriggerInv'
<1> USE DEF TriggerInv
<1>1. CASE Start
  <2>1. TypeOK'
    BY <1>1 DEF Start, TypeOK
  <2>2. IdIsOfThisRun' /\ NoHandlerLeft'
    BY <1>1 DEF Start, IdIsOfThisRun, NoHandlerLeft
  <2>3. ChannelInv'
    BY <1>1 DEF Start, TypeOK, ChannelInv, Offered
  <2> QED
    BY <2>1, <2>2, <2>3
<1>2. CASE StartFails
  <2>1. TypeOK'
    BY <1>2 DEF StartFails, TypeOK
  <2>2. IdIsOfThisRun' /\ NoHandlerLeft'
    BY <1>2 DEF StartFails, IdIsOfThisRun, NoHandlerLeft
  <2>3. ChannelInv'
    BY <1>2 DEF StartFails, TypeOK, ChannelInv
  <2> QED
    BY <2>1, <2>2, <2>3
<1>3. CASE NpxSucceeds
  <2>1. TypeOK'
    BY <1>3 DEF NpxSucceeds, TypeOK
  <2>2. IdIsOfThisRun' /\ NoHandlerLeft'
    BY <1>3 DEF NpxSucceeds, IdIsOfThisRun, NoHandlerLeft
  <2>3. ChannelInv'
    BY <1>3 DEF NpxSucceeds, ChannelInv
  <2> QED
    BY <2>1, <2>2, <2>3
<1>4. CASE NpxFails
  <2>1. TypeOK'
    BY <1>4 DEF NpxFails, TypeOK
  <2>2. IdIsOfThisRun' /\ NoHandlerLeft'
    BY <1>4 DEF NpxFails, IdIsOfThisRun, NoHandlerLeft
  <2>3. ChannelInv'
    BY <1>4 DEF NpxFails, TypeOK, ChannelInv
  <2> QED
    BY <2>1, <2>2, <2>3
<1>5. CASE Read
  BY <1>5, ReadKeepsInv
<1>6. CASE Shutdown
  <2>1. TypeOK'
    BY <1>6 DEF Shutdown, TypeOK
  <2>2. IdIsOfThisRun' /\ NoHandlerLeft'
    BY <1>6 DEF Shutdown, IdIsOfThisRun, NoHandlerLeft
  <2>3. ChannelInv'
    BY <1>6 DEF Shutdown, ChannelInv
  <2> QED
    BY <2>1, <2>2, <2>3
<1>7. CASE NextRun
  <2>1. CASE run < RunCount
    <3>1. /\ pc' = "start" /\ run' = run + 1 /\ id' = NoId /\ inTime' = {}
          /\ handler' = [r \in Requests |-> "none"] /\ channel' = channel
      BY <1>7, <2>1 DEF NextRun
    <3>2. TypeOK'
      BY <2>1, <3>1, TriggerAssumption DEF TypeOK, HandlerStates
    <3>3. IdIsOfThisRun' /\ NoHandlerLeft'
      BY <3>1 DEF IdIsOfThisRun, NoHandlerLeft, Working
    <3>4. ChannelInv'
      BY <3>1 DEF ChannelInv
    <3> QED
      BY <3>2, <3>3, <3>4
  <2>2. CASE ~(run < RunCount)
    <3>1. pc = "returned" /\ pc' = "end" /\ UNCHANGED <<run, handler, channel, id, inTime>>
      BY <1>7, <2>2 DEF NextRun
    <3>2. TypeOK'
      BY <3>1 DEF TypeOK
    <3>3. IdIsOfThisRun' /\ NoHandlerLeft'
      BY <3>1 DEF IdIsOfThisRun, NoHandlerLeft
    <3>4. ChannelInv'
      BY <3>1 DEF ChannelInv
    <3> QED
      BY <3>2, <3>3, <3>4
  <2> QED
    BY <2>1, <2>2
<1> QED
  BY <1>1, <1>2, <1>3, <1>4, <1>5, <1>6, <1>7 DEF Main

(* TriggerInv is an invariant: until the channel is read it holds an ID of *)
(* this run as soon as a handler has offered one.                          *)
THEOREM TriggerInvariant == Spec => []TriggerInv
<1>1. TriggerInv /\ [Next]_vars => TriggerInv'
  <2> SUFFICES ASSUME TriggerInv, [Next]_vars PROVE TriggerInv'
    OBVIOUS
  <2>1. CASE \E r \in Requests : Ask(r) \/ Handle(r)
    BY <2>1, AskKeepsInv, HandleKeepsInv
  <2>2. CASE Main
    BY <2>2, MainKeepsInv
  <2>3. CASE UNCHANGED vars
    BY <2>3 DEF vars, TriggerInv, TypeOK, IdIsOfThisRun, NoHandlerLeft, ChannelInv
  <2> QED
    BY <2>1, <2>2, <2>3 DEF Next, End
<1> QED
  BY InitTriggerInv, <1>1, PTL DEF Spec

(* For any requests and runs, a trace ID that Trigger returns was offered  *)
(* by a handler of this very run (playwright.go:96, 173-176).              *)
THEOREM IdOfThisRun == Spec => []IdIsOfThisRun
<1>1. TriggerInv => IdIsOfThisRun
  BY DEF TriggerInv
<1> QED
  BY TriggerInvariant, <1>1, PTL

(* For any requests, no handler is at work once Trigger has returned       *)
(* (playwright.go:101).                                                    *)
THEOREM HandlersGone == Spec => []NoHandlerLeft
<1>1. TriggerInv => NoHandlerLeft
  BY DEF TriggerInv
<1> QED
  BY TriggerInvariant, <1>1, PTL

(* For any requests, an answer that npx saw is enough for Trigger to       *)
(* return an ID, and it is the answered one if no other was offered        *)
(* (playwright.go:121-128, 173-184).                                       *)
THEOREM AnswerReturned == Spec => []AnsweredIsReturned
<1>1. TriggerInv => AnsweredIsReturned
  <2> SUFFICES ASSUME TriggerInv, pc \in {"returned", "end"}, inTime # {}
               PROVE  /\ id # NoId
                      /\ \A r \in inTime :
                            (\A q \in Requests \ {r} : handler[q] \notin Offered)
                               => id = <<run, r>>
    BY DEF AnsweredIsReturned
  <2>1. id # NoId
    BY DEF TriggerInv, ChannelInv
  <2>2. PICK q \in Requests : id = <<run, q>> /\ handler[q] \in Offered
    BY <2>1 DEF TriggerInv, IdIsOfThisRun
  <2> QED
    BY <2>1, <2>2
<1> QED
  BY TriggerInvariant, <1>1, PTL
=============================================================================
