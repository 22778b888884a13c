---------------------------- MODULE MCTraceFetch ----------------------------
(* A trace of four spans for TraceFetch, numbered by start time:             *)
(*     1 -+- 2 --- 4                                                         *)
(*        +- 3                                                               *)
(* Its order is 1, 2, 4, 3: span 4 starts last, span 3 is the last one.      *)
EXTENDS TraceFetch

MCSpans == 1..4

\* The trigger has fired before Fetch; spans 3 and 4 start while it waits.
MCStart == <<-1, 0, 1, 2>>

Parent == <<0, 1, 1, 2>>

\* The last span of SortSpansHierarchically: from the root that starts last
\* (a span whose parent is not ingested is a root), always on to the child
\* that starts last.
RECURSIVE RightmostOf(_, _)
RightmostOf(visible, siblings) ==
    LET latest   == CHOOSE s \in siblings : \A t \in siblings : t <= s
        children == {s \in visible : Parent[s] = latest}
    IN  IF children = {} THEN latest ELSE RightmostOf(visible, children)

MCLastOf(visible) ==
    RightmostOf(visible, {s \in visible : Parent[s] \notin visible})

MCLastIsThree(s) == s = 3
=============================================================================
