------------------------- MODULE PlaywrightTrigger -------------------------
(***************************************************************************)
(* PlaywrightTrigger.Trigger (trigger/playwright.go): mtracer starts a     *)
(* local HTTP server, runs "npx playwright test", and then takes the trace *)
(* ID from a channel with one slot.  Each page of the browser asks the     *)
(* server for a traceparent; its handler runs in a goroutine of its own:   *)
(* it generates an ID, offers it to the channel without ever waiting, and  *)
(* answers.  A deferred Shutdown closes the server and waits for the       *)
(* handlers that are still at work.                                        *)
(*                                                                         *)
(* Handlers, the trigger and the npx process interleave here; npx, the     *)
(* browser and net/http are external.  Not covered: the content of the     *)
(* answers; an ID is the run and the request it was generated for, that is *)
(* to say that random IDs never repeat.                                    *)
(***************************************************************************)
EXTENDS Naturals

CONSTANTS
    Requests,   \* the requests a browser may send in one run of the trigger
    RunCount    \* how often the test is run (--count), with the same trigger

ASSUME TriggerAssumption ==
    /\ Requests \subseteq Nat \ {0}
    /\ RunCount \in Nat \ {0}

VARIABLES
    pc,        \* "start", "running", "read", "shutdown", "returned" or "end"
    run,       \* number of the run
    handler,   \* where the handler of each request of this run is
    channel,   \* the ID in the channel, NoId when it is empty
    id,        \* the ID Trigger returns; NoId means that it returns an error
    inTime     \* history: the requests answered before npx exited with success

vars == <<pc, run, handler, channel, id, inTime>>

NoId == <<0, 0>>
Ids  == (1..RunCount) \X Requests

Working == {"generating", "offering", "answering"}

\* Handlers that have offered their ID.
Offered == {"answering", "answered", "dropped"}

HandlerStates == Working \cup {"none", "refused", "answered", "dropped"}

-----------------------------------------------------------------------------
Init ==
    /\ pc = "start"
    /\ run = 1
    /\ handler = [r \in Requests |-> "none"]
    /\ channel = NoId
    /\ id = NoId
    /\ inTime = {}

\* A mutant for the model checker: the channel is made once, by Init of the trigger.
StartKeepsChannel ==
    /\ pc = "start"
    /\ pc' = "running"
    /\ UNCHANGED <<run, handler, channel, id, inTime>>

(* The server listens, with a new channel.                                 *)
Start ==
    /\ pc = "start"
    /\ channel' = NoId
    /\ pc' = "running"
    /\ UNCHANGED <<run, handler, id, inTime>>

(* The server cannot listen: no Shutdown is deferred yet.                  *)
StartFails ==
    /\ pc = "start"
    /\ channel' = NoId
    /\ pc' = "returned"
    /\ UNCHANGED <<run, handler, id, inTime>>

-----------------------------------------------------------------------------
(* The handlers.  A browser that npx leaves behind may ask for an ID until *)
(* the server is shut down; on a connection that is open already, until    *)
(* Shutdown has found it idle.                                             *)
Ask(r) ==
    /\ pc \in {"running", "read", "shutdown"}
    /\ handler[r] = "none"
    /\ handler' = [handler EXCEPT ![r] = "generating"]
    /\ UNCHANGED <<pc, run, channel, id, inTime>>

Generate(r) ==
    /\ handler[r] = "generating"
    /\ handler' = [handler EXCEPT ![r] = "offering"]
    /\ UNCHANGED <<pc, run, channel, id, inTime>>

(* An ID cannot be generated: the answer is an error, without an ID.       *)
GenerateFails(r) ==
    /\ handler[r] = "generating"
    /\ handler' = [handler EXCEPT ![r] = "refused"]
    /\ UNCHANGED <<pc, run, channel, id, inTime>>

\* A mutant for the model checker: the offer is tried again until there is room.
OfferRetries(r) ==
    /\ handler[r] = "offering"
    /\ channel' = IF channel = NoId THEN <<run, r>> ELSE channel
    /\ handler' = [handler EXCEPT ![r] = IF channel = NoId THEN "answering" ELSE @]
    /\ UNCHANGED <<pc, run, id, inTime>>

(* The ID goes into the channel if there is room, and is dropped if not.   *)
Offer(r) ==
    /\ handler[r] = "offering"
    /\ channel' = IF channel = NoId THEN <<run, r>> ELSE channel
    /\ handler' = [handler EXCEPT ![r] = "answering"]
    /\ UNCHANGED <<pc, run, id, inTime>>

\* A mutant for the model checker: the traceparent is written before the ID is offered.
AnswerEarly(r) ==
    /\ handler[r] \in {"offering", "answering"}
    /\ handler' = [handler EXCEPT ![r] = "answered"]
    /\ UNCHANGED <<pc, run, channel, id, inTime>>

(* The browser gets its traceparent.                                       *)
Answer(r) ==
    /\ handler[r] = "answering"
    /\ handler' = [handler EXCEPT ![r] = "answered"]
    /\ UNCHANGED <<pc, run, channel, id, inTime>>

(* The browser is gone: the answer cannot be written, or is not read.      *)
AnswerDropped(r) ==
    /\ handler[r] = "answering"
    /\ handler' = [handler EXCEPT ![r] = "dropped"]
    /\ UNCHANGED <<pc, run, channel, id, inTime>>

-----------------------------------------------------------------------------
(* npx ends with exit code 0.  Handlers may still be at work.              *)
NpxSucceeds ==
    /\ pc = "running"
    /\ pc' = "read"
    /\ inTime' = {r \in Requests : handler[r] = "answered"}
    /\ UNCHANGED <<run, handler, channel, id>>

(* npx cannot be started or fails: Trigger returns an error.               *)
NpxFails ==
    /\ pc = "running"
    /\ pc' = "shutdown"
    /\ UNCHANGED <<run, handler, channel, id, inTime>>

(* The channel is read without waiting; if it is empty the ID is not set   *)
(* and Trigger returns an error.                                           *)
Read ==
    /\ pc = "read"
    /\ id' = channel
    /\ channel' = NoId
    /\ pc' = "shutdown"
    /\ UNCHANGED <<run, handler, inTime>>

(* The deferred Shutdown waits for the handlers, then Trigger returns.     *)
Shutdown ==
    /\ pc = "shutdown"
    /\ \A r \in Requests : handler[r] \notin Working
    /\ pc' = "returned"
    /\ UNCHANGED <<run, handler, channel, id, inTime>>

(* The same trigger is used for the next run of the test.                  *)
NextRun ==
    /\ pc = "returned"
    /\ IF run < RunCount
         THEN /\ pc' = "start" /\ run' = run + 1
              /\ handler' = [r \in Requests |-> "none"]
              /\ id' = NoId
              /\ inTime' = {}
         ELSE /\ pc' = "end"
              /\ UNCHANGED <<run, handler, id, inTime>>
    /\ UNCHANGED channel

End ==
    /\ pc = "end"
    /\ UNCHANGED vars

Handle(r) ==
    \/ Generate(r) \/ GenerateFails(r)
    \/ Offer(r)
    \/ Answer(r) \/ AnswerDropped(r)

Main == Start \/ StartFails \/ NpxSucceeds \/ NpxFails \/ Read \/ Shutdown \/ NextRun

Next ==
    \/ \E r \in Requests : Ask(r) \/ Handle(r)
    \/ Main
    \/ End

Spec == Init /\ [][Next]_vars

(* A Playwright test has a time limit of its own, so that npx exits; the   *)
(* Go scheduler lets every goroutine run.  Nothing makes a browser ask.    *)
FairSpec ==
    /\ Spec
    /\ WF_vars(Main)
    /\ \A r \in Requests : WF_vars(Handle(r))

-----------------------------------------------------------------------------
TypeOK ==
    /\ pc \in {"start", "running", "read", "shutdown", "returned", "end"}
    /\ run \in 1..RunCount
    /\ handler \in [Requests -> HandlerStates]
    /\ channel \in Ids \cup {NoId}
    /\ id \in Ids \cup {NoId}
    /\ inTime \in SUBSET Requests

(* Whatever order handlers, npx and the trigger take their steps in, an ID *)
(* that Trigger returns was generated in this very run, and offered by its *)
(* handler: never one that a failed run left behind (the new channel of    *)
(* playwright.go:96).                                                      *)
IdIsOfThisRun ==
    id # NoId => \E r \in Requests : id = <<run, r>> /\ handler[r] \in Offered

(* If the browser was given a traceparent before npx exited, Trigger       *)
(* returns an ID and never says that it was not set, although it does not  *)
(* wait for the channel: the offer comes before the answer                 *)
(* (playwright.go:173-184).  If no other ID was offered it is the same one.*)
AnsweredIsReturned ==
    (pc \in {"returned", "end"} /\ inTime # {}) =>
        /\ id # NoId
        /\ \A r \in inTime :
              (\A q \in Requests \ {r} : handler[q] \notin Offered) => id = <<run, r>>

(* When Trigger has returned no handler of its server is at work: none can *)
(* touch what a later run reads (the deferred Shutdown, playwright.go:101).*)
NoHandlerLeft ==
    pc \in {"start", "returned", "end"} =>
        \A r \in Requests : handler[r] \notin Working

(* The trigger returns: Shutdown never waits for a handler that waits for  *)
(* room in a channel nobody reads any more (playwright.go:173-176).        *)
Terminates == <>(pc = "end")

-----------------------------------------------------------------------------
(* What links the channel to the handlers: until it is read it holds an ID *)
(* of this run as soon as one was offered.                                 *)
ChannelInv ==
    /\ pc \in {"running", "read"} =>
         /\ id = NoId
         /\ channel = NoId => \A r \in Requests : handler[r] \notin Offered
         /\ channel # NoId => \E r \in Requests :
                                 channel = <<run, r>> /\ handler[r] \in Offered
    /\ pc = "start" => id = NoId /\ \A r \in Requests : handler[r] = "none"
    /\ \A r \in inTime : handler[r] = "answered" /\ pc \notin {"start", "running"}
    /\ (pc \in {"shutdown", "returned", "end"} /\ inTime # {}) => id # NoId

(* The inductive invariant of the proofs.                                  *)
TriggerInv == TypeOK /\ IdIsOfThisRun /\ NoHandlerLeft /\ ChannelInv
=============================================================================
