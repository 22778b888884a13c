------------------------------ MODULE Triggers ------------------------------
(***************************************************************************)
(* The http, grpc, nats, jetstream and traceId triggers (trigger/*.go)     *)
(* with the system under test.  One trigger object is made from the test   *)
(* file and its Trigger is called once per run of the test; each call      *)
(* makes a trace ID of its own, sends it in the traceparent of a request,  *)
(* and returns it for the test to fetch the trace.  Requests may be late   *)
(* or lost, calls time out, connections break.                             *)
(*                                                                         *)
(* The network, the NATS server, the target and the clients of net/http,   *)
(* grpc-go and nats.go are external.  Not covered: bodies, methods, and    *)
(* what the answers say (no trigger looks at it).  The ID made in run r is *)
(* r: random IDs never repeat.  PlaywrightTrigger has a module of its own. *)
(***************************************************************************)
EXTENDS Naturals

CONSTANTS
    Dtos,      \* the trigger sections of test files:
               \*   type, option (authType, or the type of descriptorSource),
               \*   args: the arguments given with the right type and format,
               \*   header: has the file a traceparent header of its own:
               \*           "none", "exact", or "othercase" (Traceparent)
    RunCount   \* how often the test is run (--count), with the same trigger

ASSUME TriggersAssumption == RunCount \in Nat \ {0}

VARIABLES
    dto,        \* the trigger of the test
    pc,         \* where the call of Trigger is
    run,        \* number of the run
    id,         \* the trace ID Trigger made or returned
    conns,      \* connections that are open: of the reflection, of this
                \* call, and idle ones that net/http keeps for the next call
    link,       \* the NATS connection: "up", "lost" or, after a reconnect, "again"
    buffer,     \* messages the NATS client keeps until the connection is back
    net,        \* requests and messages on their way
    accepted,   \* requests and messages a server has received
    work,       \* trace ID -> runs whose request left spans in that trace
    fetched     \* runs with spans in the trace this run has fetched

vars == <<dto, pc, run, id, conns, link, buffer, net, accepted, work, fetched>>
calls == <<dto, run, fetched>>
network == <<link, buffer, net, accepted, work>>

Messaging == {"nats", "jetstream"}
Fixed == 0             \* the ID that is written in the test file
Runs  == 1..RunCount
Ids   == Runs \cup {Fixed}
Outside == {"new", "unusable", "idle", "returned", "failed", "fetched"}

-----------------------------------------------------------------------------
(* NewTrigger: which sections make a trigger.                              *)
AuthArgs == [noauth   |-> {},
             userpass |-> {"username", "password"},
             token    |-> {"token"},
             jwt      |-> {"jwt", "seed"},
             nkey     |-> {"seed"},
             mtls     |-> {"clientCertPath", "clientKeyPath"}]

NATSConnector(d) == d.option \in DOMAIN AuthArgs /\ AuthArgs[d.option] \subseteq d.args

ServiceDescriptor(d) ==
    /\ "descriptorSource" \in d.args
    /\ \/ d.option = "serverreflection"
       \/ d.option = "file" /\ "protoPath" \in d.args

HTTPInit(d)      == "url" \in d.args
TraceIdInit(d)   == "traceId" \in d.args
GrpcInit(d)      == {"serverAddress", "method"} \subseteq d.args /\ ServiceDescriptor(d)
NATSInit(d)      == {"serverAddress", "subject"} \subseteq d.args /\ NATSConnector(d)
JetstreamInit(d) == NATSInit(d)

Usable(d) ==
    \/ d.type = "http" /\ HTTPInit(d)
    \/ d.type = "traceid" /\ TraceIdInit(d)
    \/ d.type = "grpc" /\ GrpcInit(d)
    \/ d.type = "nats" /\ NATSInit(d)
    \/ d.type = "jetstream" /\ JetstreamInit(d)

\* A mutant for the model checker: the ID is added behind the header of the file.
NATSHeaderAdds(d, i) == IF d.header = "none" THEN {i} ELSE {Fixed}

\* The IDs a reader may find in a message with ID i: Header.Set replaces a
\* header of that very name, one in another case is beside it.
NATSHeader(d, i) == IF d.header = "othercase" THEN {Fixed, i} ELSE {i}

\* Header.Add and md.Append ignore the case and put the ID behind the value
\* of the test file; readers take the first one.
AddedHeader(d, i) == IF d.header = "none" THEN {i} ELSE {Fixed}

Readable(d, i) == IF d.type \in Messaging THEN NATSHeader(d, i) ELSE AddedHeader(d, i)

-----------------------------------------------------------------------------
Init ==
    /\ dto \in Dtos
    /\ pc = "new" /\ run = 1 /\ id = Fixed
    /\ conns = {} /\ link = "up"
    /\ buffer = {} /\ net = {} /\ accepted = {} /\ fetched = {}
    /\ work = [i \in Ids |-> {}]

NewTrigger ==
    /\ pc = "new"
    /\ pc' = IF Usable(dto) THEN "idle" ELSE "unusable"
    /\ UNCHANGED <<calls, network, id, conns>>

Request == [run |-> run, id |-> id]

\* The deferred calls close the connection of the call; that of an HTTP
\* request goes back to the pool of the transport, which may keep it.
Released ==
    LET kept == IF dto.type = "http" /\ "conn" \in conns THEN {"idle"} ELSE {}
    IN  {conns \ {"conn"}, (conns \ {"conn"}) \cup kept}

\* Trigger returns.
Leave(end) ==
    /\ pc' = end
    /\ conns' \in Released
    /\ buffer' = {}
    /\ UNCHANGED <<calls, id, link, accepted, work>>

TraceIdTrigger ==
    /\ pc = "idle" /\ dto.type = "traceid"
    /\ id' = Fixed /\ pc' = "returned"
    /\ UNCHANGED <<calls, network, conns>>

\* A mutant for the model checker: the ID is made once, by Init of the trigger.
GenerateOnce ==
    /\ pc = "idle" /\ dto.type # "traceid"
    /\ id' = 1 /\ pc' = "generated"
    /\ UNCHANGED <<calls, network, conns>>

Generate ==
    /\ pc = "idle" /\ dto.type # "traceid"
    /\ id' = run /\ pc' = "generated"
    /\ UNCHANGED <<calls, network, conns>>

\* An ID cannot be generated: "crypto/rand" fails.
GenerateFails ==
    /\ pc = "idle" /\ dto.type # "traceid"
    /\ pc' = "failed"
    /\ UNCHANGED <<calls, network, id, conns>>

(* http *)
\* The request is written, to a connection that was idle or a new one; the
\* timeout of 10 s runs.
SendHTTP ==
    /\ pc = "generated" /\ dto.type = "http"
    /\ pc' = "sent" /\ net' = net \cup {Request}
    /\ conns' \in {{"conn"}, conns \cup {"conn"}}
    /\ UNCHANGED <<calls, id, link, buffer, accepted, work>>

\* A request that is malformed, or a connection that is refused.
SendHTTPFails ==
    /\ pc = "generated" /\ dto.type = "http"
    /\ Leave("failed") /\ UNCHANGED net

\* Any answer will do, whatever its status.
HTTPAnswered ==
    /\ pc = "sent" /\ dto.type = "http" /\ Request \in accepted
    /\ Leave("returned") /\ UNCHANGED net

\* A mutant for the model checker: a client without a timeout.
WaitForEver ==
    /\ pc = "sent" /\ dto.type = "http" /\ Request \in accepted
    /\ Leave("failed") /\ UNCHANGED net

\* The timeout, or an answer that breaks off: the request may still arrive,
\* and a connection that was only being dialled may end up in the pool.
HTTPTimeout ==
    /\ pc = "sent" /\ dto.type = "http"
    /\ Leave("failed") /\ UNCHANGED net

(* grpc *)
\* The proto file is compiled and has the service.
CompileProto ==
    /\ pc = "generated" /\ dto.type = "grpc" /\ dto.option = "file"
    /\ pc' = "described"
    /\ UNCHANGED <<calls, network, id, conns>>

StartReflection ==
    /\ pc = "generated" /\ dto.type = "grpc" /\ dto.option = "serverreflection"
    /\ pc' = "reflecting" /\ conns' = conns \cup {"reflection"}
    /\ UNCHANGED <<calls, network, id>>

\* A mutant for the model checker: the connection of the reflection stays open.
ReflectionLeaks ==
    /\ pc = "reflecting" /\ pc' \in {"described", "failed"}
    /\ UNCHANGED <<calls, network, id, conns>>

\* The server describes the service, or the call fails; there is no deadline.
EndReflection ==
    /\ pc = "reflecting" /\ pc' \in {"described", "failed"}
    /\ conns' = conns \ {"reflection"}
    /\ UNCHANGED <<calls, network, id>>

\* The proto file does not compile; the service or the method is not there;
\* the data do not fit; the address of the server is malformed.
DescribeFails ==
    /\ (pc = "generated" /\ dto.option = "file") \/ pc = "described"
    /\ dto.type = "grpc"
    /\ Leave("failed") /\ UNCHANGED net

\* The client connects lazily: the request may not even leave.
Invoke ==
    /\ pc = "described"
    /\ pc' = "sent" /\ conns' = conns \cup {"conn"}
    /\ net' \in {net, net \cup {Request}}
    /\ UNCHANGED <<calls, id, link, buffer, accepted, work>>

\* The call ends, and its error is ignored; the answer cannot be printed
\* if a required field is missing.  There is no deadline: it may never end.
InvokeReturns ==
    /\ pc = "sent" /\ dto.type = "grpc"
    /\ \E end \in {"returned", "failed"} : Leave(end)
    /\ UNCHANGED net

(* nats and jetstream *)
Connect ==
    /\ pc = "generated" /\ dto.type \in Messaging
    /\ pc' = "connected" /\ conns' = {"conn"} /\ link' = "up"
    /\ UNCHANGED <<calls, id, buffer, net, accepted, work>>

\* Unreachable, refused, or a seed that is not an NKey's.
ConnectFails ==
    /\ pc = "generated" /\ dto.type \in Messaging
    /\ Leave("failed") /\ UNCHANGED net

\* The pool lets go of what is idle: the server closed it, or time is up.
IdleClosed ==
    /\ "idle" \in conns
    /\ conns' = conns \ {"idle"}
    /\ UNCHANGED <<calls, network, pc, id>>

\* nats.go loses its connection, with or without what it had written, and
\* tries to get it back.  It signs in again with the callback it was given:
\* an NKey was wiped when Connect returned.
LinkLost ==
    /\ "conn" \in conns /\ dto.type \in Messaging /\ link # "lost"
    /\ link' = "lost"
    /\ net' \in {net, net \ {Request}}
    /\ UNCHANGED <<calls, pc, id, conns, buffer, accepted, work>>

CanSignInAgain(d) == d.option # "nkey"

Reconnect ==
    /\ "conn" \in conns /\ link = "lost" /\ CanSignInAgain(dto)
    /\ link' = "again"
    /\ net' = net \cup buffer /\ buffer' = {}
    /\ UNCHANGED <<calls, pc, id, conns, accepted, work>>

\* The message is written, or kept until the connection is back.
Publish ==
    /\ pc = "connected" /\ pc' = "sent"
    /\ IF link = "lost" THEN buffer' = buffer \cup {Request} /\ UNCHANGED net
                        ELSE net' = net \cup {Request} /\ UNCHANGED buffer
    /\ UNCHANGED <<calls, id, conns, link, accepted, work>>

\* A mutant for the model checker: Trigger does not wait for the Flush.
NoFlush ==
    /\ pc = "sent" /\ dto.type = "nats"
    /\ Leave("returned") /\ UNCHANGED net

\* The server answers the ping of Flush, after all that came before it on
\* this connection.
Flushed ==
    /\ pc = "sent" /\ dto.type = "nats" /\ link # "lost"
    /\ Request \notin net \cup buffer
    /\ Leave("returned") /\ UNCHANGED net

\* The stream has stored the message.
Acknowledged ==
    /\ pc = "sent" /\ dto.type = "jetstream" /\ link # "lost"
    /\ Request \in accepted
    /\ Leave("returned") /\ UNCHANGED net

\* An error, or no answer in time (10 s for Flush, 5 s for a stream): the
\* message may have arrived, or arrive yet.
PublishFails ==
    /\ pc \in {"connected", "sent"} /\ dto.type \in Messaging
    /\ Leave("failed") /\ UNCHANGED net

-----------------------------------------------------------------------------
(* The network and the system under test.                                  *)
Lose(m) ==
    /\ m \in net /\ dto.type \notin Messaging
    /\ net' = net \ {m}
    /\ UNCHANGED <<calls, pc, id, conns, link, buffer, accepted, work>>

Accept(m) ==
    /\ m \in net
    /\ net' = net \ {m} /\ accepted' = accepted \cup {m}
    /\ UNCHANGED <<calls, pc, id, conns, link, buffer, work>>

\* A service of the target reads the ID and leaves spans in that trace.
Handle(m, i) ==
    /\ m \in accepted /\ i \in Readable(dto, m.id) /\ m.run \notin work[i]
    /\ work' = [work EXCEPT ![i] = @ \cup {m.run}]
    /\ UNCHANGED <<calls, pc, id, conns, link, buffer, net, accepted>>

(* The test fetches the trace of the ID.                                   *)
Fetch ==
    /\ pc = "returned" /\ pc' = "fetched"
    /\ fetched' = work[id]
    /\ UNCHANGED <<dto, run, id, conns, network>>

NextRun ==
    /\ pc \in {"failed", "fetched"} /\ run < RunCount
    /\ pc' = "idle" /\ run' = run + 1
    /\ UNCHANGED <<dto, fetched, id, conns, network>>

-----------------------------------------------------------------------------
HTTPSteps == SendHTTP \/ SendHTTPFails \/ HTTPAnswered \/ HTTPTimeout

MessagingSteps ==
    \/ Connect \/ ConnectFails
    \/ Publish \/ Flushed \/ Acknowledged \/ PublishFails

GrpcSteps ==
    \/ CompileProto \/ StartReflection \/ EndReflection \/ DescribeFails
    \/ Invoke \/ InvokeReturns

Client == IdleClosed \/ LinkLost \/ Reconnect

Environment ==
    \/ \E m \in net : Lose(m) \/ Accept(m)
    \/ \E m \in accepted, i \in Ids : Handle(m, i)

Next ==
    \/ NewTrigger \/ TraceIdTrigger \/ Generate \/ GenerateFails
    \/ HTTPSteps \/ GrpcSteps \/ MessagingSteps
    \/ Client \/ Environment \/ Fetch \/ NextRun

Spec == Init /\ [][Next]_vars

\* The timers of net/http and nats.go go off, and the program runs on;
\* nothing is said of the network, the target and the RPCs.
FairSpec == Spec /\ WF_vars(HTTPSteps \/ MessagingSteps)

-----------------------------------------------------------------------------
Requests == [run : Runs, id : Ids]

(* The types of the variables.                                             *)
TypeOK ==
    /\ dto \in Dtos
    /\ pc \in Outside \cup {"generated", "reflecting", "described", "connected", "sent"}
    /\ run \in Runs
    /\ id \in Ids
    /\ conns \subseteq {"reflection", "conn", "idle"}
    /\ link \in {"up", "lost", "again"}
    /\ buffer \subseteq Requests /\ net \subseteq Requests /\ accepted \subseteq Requests
    /\ work \in [Ids -> SUBSET Runs]
    /\ fetched \subseteq Runs

\* Every request carries the ID of its run, and its spans are where a
\* reader finds an ID in it.
IdsInv ==
    /\ \A m \in buffer \cup net \cup accepted : m.id = m.run
    /\ \A i \in Ids : \A r \in work[i] : i \in Readable(dto, r)

\* The ID is that of the run, and the connections those of this place.
CallInv ==
    /\ pc \notin Outside => id = run /\ dto.type # "traceid"
    /\ pc \in {"returned", "fetched"} /\ dto.type # "traceid" => id = run
    /\ "reflection" \in conns => pc = "reflecting"
    /\ "conn" \in conns => pc \in {"connected", "sent"}
    /\ "idle" \in conns => dto.type = "http"
    /\ pc \in {"reflecting", "described"} => dto.type = "grpc"
    /\ pc = "connected" => dto.type \in Messaging

\* A message written to a connection that has held is on its way or has
\* arrived; nothing is kept back on such a connection.
FlushInv ==
    (pc = "sent" /\ dto.type = "nats" /\ link = "up") =>
        Request \in net \cup accepted

(* A run that fetches a trace finds no spans there of another run of the   *)
(* same test, though requests that had timed out may be served at any      *)
(* later time (README.md:72, a unique trace ID), except when the test file *)
(* names the trace itself.                                                 *)
NoCrossTalk ==
    (pc = "fetched" /\ dto.type # "traceid") => fetched \subseteq {run}

(* What the target has done for this run by the time of the fetch is in    *)
(* the trace that is fetched.  The exception is a test file that sets a    *)
(* traceparent of its own: HTTP and gRPC put theirs behind it, and a       *)
(* message has both if it is written in another case.                      *)
OwnWorkIsFetched ==
    [][(Fetch /\ dto.type # "traceid"
            /\ (dto.header = "none" \/ (dto.type \in Messaging /\ dto.header = "exact")))
       => \A i \in Ids : run \in work[i] => run \in fetched']_vars

(* An ID that Trigger returns was received by a server: the answer, the    *)
(* flush or the acknowledgement came after the request.  Not so for gRPC,  *)
(* whose errors are ignored, and for a NATS connection that broke during   *)
(* the call: a message written to the old one is not repeated.             *)
ReturnedWasReceived ==
    (/\ pc \in {"returned", "fetched"}
     /\ dto.type \in {"http", "jetstream"} \/ (dto.type = "nats" /\ link = "up"))
    => \E m \in accepted : m.run = run /\ m.id = id

(* However Trigger ends, it leaves no connection in use: those of gRPC, of *)
(* its reflection, and of NATS are closed (grpcTrigger.go:162, :322,       *)
(* natsTrigger.go:102, jetstreamTrigger.go:45), and that of HTTP is at     *)
(* most idle, in the pool of the default transport (httpTrigger.go:114,    *)
(* :122).                                                                  *)
ConnectionsClosed ==
    pc \in Outside => conns \subseteq (IF dto.type = "http" THEN {"idle"} ELSE {})

(* A call of an HTTP, NATS or JetStream trigger returns, whatever the      *)
(* network and the target do.                                              *)
Returns ==
    (pc = "generated" /\ dto.type # "grpc") ~> (pc \in {"returned", "failed"})

(* The inductive invariant.                                                *)
TriggersInv ==
    TypeOK /\ IdsInv /\ CallInv /\ FlushInv /\ NoCrossTalk /\ ReturnedWasReceived
=============================================================================
