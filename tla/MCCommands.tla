----------------------------- MODULE MCCommands -----------------------------
(* Test files and calls for Commands: a valid test, what a mistake in each   *)
(* of its parts makes of it, and the flags of the command.                   *)
EXTENDS Commands

Setup(type, cmd, cleanup) ==
    [type |-> type, cmd |-> cmd, cleanup |-> cleanup, complete |-> TRUE]
Trigger(type, complete) == [type |-> type, complete |-> complete]
ExpSpan(kind, max) == [kind |-> kind, status |-> Nil, max |-> max, min |-> Nil]
ExpTrace(spans, checker) == [spans |-> spans, ordered |-> Nil, checker |-> checker]
Cel(name, type, queries) == [name |-> name, type |-> type, queries |-> queries]
Check(type, args) == [name |-> "check", type |-> type, args |-> args]
Properties(max, count) ==
    [max |-> max, min |-> Nil, spanCount |-> count, errorCount |-> Nil]

Plain ==
    [name |-> "plain", setups |-> <<>>, trigger |-> Trigger("", TRUE),
     wait |-> Nil, traces |-> <<>>, properties |-> Nil, assertions |-> <<>>,
     checks |-> <<>>, lastSpan |-> Nil, timeout |-> Nil, retryDelay |-> Nil]

WithSetups == {[Plain EXCEPT !.setups = <<s>>] : s \in {Nil} \cup
    {Setup(t, c, cleanup) : t \in {"", "docker", "other"},
        c \in {"", "killcontainer", "fly"}, cleanup \in {Nil, "undo"}}}
WithTriggers == {[Plain EXCEPT !.trigger = t] : t \in {Nil} \cup
    {Trigger(type, c) : type \in {"grpc", "other"}, c \in BOOLEAN}}
WithTraces == {[Plain EXCEPT !.traces = <<t>>] : t \in {Nil} \cup
    {ExpTrace(s, c) : s \in {<<>>, <<Nil>>, <<ExpSpan("server", 0)>>,
                             <<ExpSpan(Nil, 2)>>, <<ExpSpan("odd", Nil)>>},
        c \in {Nil, "strict", "exactly"}}}
WithProperties == {[Plain EXCEPT !.properties = p] :
    p \in {Properties(m, c) : m \in {Nil, 0, 1}, c \in {Nil, -1, 0}}}
WithAssertions == {[Plain EXCEPT !.assertions = <<a>>] : a \in {Nil} \cup
    {Cel(n, t, q) : n \in {"", "a"}, t \in {"", "other"},
        q \in {<<>>, <<"bool">>, <<"int">>, <<"dyn", "syntax error">>,
               <<"not a string">>}}}
Args(names, code) ==
    [n \in names |-> IF n = "expectedExitCode" THEN code
                     ELSE IF n = "driverName" THEN "mysql" ELSE "text"]
WithChecks == {[Plain EXCEPT !.checks = <<c>>] : c \in {Nil} \cup
    {Check(t, Args(names, 1)) : t \in {"", "sql", "other"},
        names \in {{}, {"cmd"}, {"cmd", "expectedExitCode"}, {"query"},
                   {"query", "dsn"}, {"query", "dsn", "driverName"}}}}
WithTimes == {[Plain EXCEPT !.timeout = t, !.retryDelay = r, !.wait = w] :
    t \in {Nil, 0, 9}, r \in {Nil, 0, -1, 2}, w \in {Nil, 0}}
WithLastSpan == {[Plain EXCEPT !.lastSpan = s] :
    s \in {ExpSpan("odd", Nil), ExpSpan("client", 1)}}

MCTests ==
    {Plain, [Plain EXCEPT !.name = ""]} \cup WithSetups \cup WithTriggers
        \cup WithTraces \cup WithProperties \cup WithAssertions
        \cup WithChecks \cup WithTimes \cup WithLastSpan

Second == [Plain EXCEPT !.name = "second"]
Named2(form, content) == [form |-> form, content |-> content]

Call(command, count, formats, metrics, quiet, backend, args, dir) ==
    [command |-> command, count |-> count, formats |-> formats,
     analytics |-> metrics, quiet |-> quiet, backend |-> backend,
     args |-> args, dir |-> dir]

\* Every kind of test beside a plain one, in a directory, run once or twice,
\* or checked.
MCByTest ==
    {Call(c[1], c[2], <<"json", "md">>, <<>>, FALSE, "jaeger", <<>>, d) :
        c \in {<<"run", 1>>, <<"run", 2>>, <<"check", 1>>},
        d \in {<<t, Second>> : t \in MCTests \cup {Nil, Broken}}}

\* Every combination of flags with two plain tests.
MCByFlag ==
    {Call(c[1], c[2], f, a, q, b, <<>>, <<Plain, Second>>) :
        c \in {<<"run", 0>>, <<"run", 2>>, <<"check", 1>>},
        f \in {<<>>, <<"junit">>, <<"md", "markdown">>, <<"json", "pdf">>},
        a \in {<<>>, <<"json", "html">>, <<"html", "csv">>},
        q \in BOOLEAN, b \in {"openobserve", "jaeger", "tempo"}}

\* Names on the command line, and directories.
MCByName ==
    {Call("run", 1, <<>>, <<>>, FALSE, "openobserve", args, d) :
        args \in {<<>>, <<Named2("bare", Plain)>>,
                  <<Named2("full", Plain), Named2("bare", Second)>>,
                  <<Named2("bare", Plain), Named2("directory", Second)>>,
                  <<Named2("other suffix", Plain)>>, <<Named2("bare", Broken)>>},
        d \in {Broken, <<>>, <<Plain>>}}

MCCalls == MCByTest \cup MCByFlag \cup MCByName
=============================================================================
