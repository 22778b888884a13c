------------------------------ MODULE MCTestRun ------------------------------
(* Small instances of TestRun.                                               *)
EXTENDS TestRun

\* Two tests: the first with every kind of stage, the second with a loop body
\* of its own shape.
MCSetup      == <<2, 1>>
MCTraces     == <<1, 2>>
MCAssertions == <<2, 0>>
MCChecks     == <<1, 1>>
=============================================================================
