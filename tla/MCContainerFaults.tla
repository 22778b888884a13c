------------------------- MODULE MCContainerFaults -------------------------
(* Up to three setup commands on two containers, run twice.                *)
EXTENDS ContainerFaults

CONSTANTS c1, c2   \* model values

MCContainers == {c1, c2}

\* On the second container, which stands for another part of the system,
\* only one command is tried.
OneCommand == [cmd : Commands, on : {c1}] \cup [cmd : {"stop"}, on : {c2}]

MCSetups == UNION {[1..n -> OneCommand] : n \in 0..3}
=============================================================================
