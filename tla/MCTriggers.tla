----------------------------- MODULE MCTriggers -----------------------------
(* The sections of each type with all they need, with one argument less,   *)
(* and with options nobody knows.                                          *)
EXTENDS Triggers

Dto(type, option, args, header) ==
    [type |-> type, option |-> option, args |-> args, header |-> header]

Headers == {"none", "exact", "othercase"}
NATSArgs == {"serverAddress", "subject"}
GrpcArgs == {"serverAddress", "method", "descriptorSource"}

Complete ==
    UNION {
        {Dto("http", "", {"url"}, h) : h \in Headers},
        {Dto("grpc", o, GrpcArgs \cup {"protoPath"}, h) :
            o \in {"file", "serverreflection"}, h \in Headers},
        {Dto(t, "nkey", NATSArgs \cup {"seed"}, h) : t \in Messaging, h \in Headers},
        {Dto(t, o, NATSArgs \cup AuthArgs[o], "none") :
            t \in Messaging, o \in {"noauth", "mtls"}},
        {Dto("nats", "jwt", NATSArgs \cup {"jwt", "seed"}, "exact")},
        {Dto("traceid", "", {"traceId"}, "none")}}

OneLess ==
    UNION {{[d EXCEPT !.args = @ \ {a}] : a \in d.args} : d \in Complete}

Unknown ==
    {Dto("soap", "", {"url"}, "none"), Dto("grpc", "soap", GrpcArgs, "none"),
     Dto("nats", "soap", NATSArgs, "none")}

MCDtos == Complete \cup OneLess \cup Unknown
=============================================================================
