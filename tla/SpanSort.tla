------------------------------ MODULE SpanSort ------------------------------
(***************************************************************************)
(* SortSpansHierarchically (trace/sort.go): a stable sort by start time,   *)
(* then a depth-first walk from the spans without a known parent.  Its     *)
(* result is the order every comparator, the last-span test of Fetch and   *)
(* the CEL assertions see.                                                 *)
(*                                                                         *)
(* A span is a record of its ID, the ID of its parent and its start time;  *)
(* its other fields play no role here.  IDs come from the backend: they    *)
(* may be missing, repeated, or make a cycle.  The recursion of the code   *)
(* is the stack of the children that are still to be walked.  TraceBuild   *)
(* has the lists it is called with, and the specification.                 *)
(***************************************************************************)
EXTENDS Naturals, Sequences, FiniteSets

CONSTANT NoId   \* the empty string

VARIABLES
    stage,     \* "start", "walk" or "done"
    spans,     \* the argument; sorted in place by start time
    todo,      \* the call stack: siblings left to walk, innermost level last
    visited,   \* the IDs already walked
    ordered    \* the result

sortVars == <<stage, spans, todo, visited, ordered>>

-----------------------------------------------------------------------------
Ids(list) == {list[k].id : k \in DOMAIN list}

\* A mutant for the model checker: the spans stay as they came.
SortNothing(list) == list

\* The members of a list at the positions in DOMAIN before, in the order
\* that before gives: before[i] are the positions that come before i.
Arrange(list, before) ==
    [k \in 1..Cardinality(DOMAIN before) |->
        list[CHOOSE i \in DOMAIN before : Cardinality(before[i]) = k - 1]]

\* A mutant for the model checker: the sort turns equal start times round.
SortUnstable(list) ==
    Arrange(list, [i \in DOMAIN list |->
        {j \in DOMAIN list : \/ list[j].start < list[i].start
                             \/ list[j].start = list[i].start /\ j > i}])

\* Of equal start times the one that came first stays first.
Sooner(list) ==
    [i \in DOMAIN list |->
        {j \in DOMAIN list : \/ list[j].start < list[i].start
                             \/ list[j].start = list[i].start /\ j < i}]

\* sort.SliceStable by StartTime.
SortByStart(list) == Arrange(list, Sooner(list))

\* The members at some positions, as they come in the list.
Keep(list, positions) ==
    Arrange(list, [i \in positions |-> {j \in positions : j < i}])

\* spanMap holds every non-empty ID of the list.
Known(list) == Ids(list) \ {NoId}

IsRoot(s, list) == s.parent = NoId \/ s.parent \notin Known(list)

\* A mutant for the model checker: a span whose parent is missing is no root.
RootsWithoutOrphans(list) ==
    Keep(list, {i \in DOMAIN list : list[i].parent = NoId})

Roots(list) == Keep(list, {i \in DOMAIN list : IsRoot(list[i], list)})

ChildrenOf(id, list) ==
    Keep(list, {i \in DOMAIN list : ~IsRoot(list[i], list) /\ list[i].parent = id})

-----------------------------------------------------------------------------
\* A call with a list of spans.
Call(list) ==
    /\ stage = "start"
    /\ spans = list
    /\ todo = <<>>
    /\ visited = {}
    /\ ordered = <<>>

(* A list of at most one span is returned as it is.                        *)
ReturnShort ==
    /\ stage = "start" /\ Len(spans) <= 1
    /\ stage' = "done"
    /\ ordered' = spans
    /\ UNCHANGED <<spans, todo, visited>>

(* Sort, index by parent, and start with the roots.                        *)
StartWalk ==
    /\ stage = "start" /\ Len(spans) > 1
    /\ stage' = "walk"
    /\ spans' = SortByStart(spans)
    /\ todo' = <<Roots(spans')>>
    /\ UNCHANGED <<visited, ordered>>

Level == todo[Len(todo)]

\* A mutant for the model checker: the visited map is never written.
VisitUnmarked ==
    /\ stage = "walk" /\ todo # <<>> /\ Level # <<>>
    /\ LET s == Head(Level)
       IN  /\ s.id \notin visited
           /\ ordered' = Append(ordered, s)
           /\ todo' = Append([todo EXCEPT ![Len(todo)] = Tail(Level)],
                             ChildrenOf(s.id, spans))
    /\ UNCHANGED <<stage, spans, visited>>

\* A mutant for the model checker: the children go behind the siblings.
VisitBreadthFirst ==
    /\ stage = "walk" /\ todo # <<>> /\ Level # <<>>
    /\ LET s == Head(Level)
       IN  /\ s.id \notin visited
           /\ visited' = visited \cup {s.id}
           /\ ordered' = Append(ordered, s)
           /\ todo' = [todo EXCEPT ![Len(todo)] =
                          Tail(Level) \o ChildrenOf(s.id, spans)]
    /\ UNCHANGED <<stage, spans>>

(* dfs of the next sibling: append it, then walk its children first.       *)
Visit ==
    /\ stage = "walk" /\ todo # <<>> /\ Level # <<>>
    /\ LET s == Head(Level)
       IN  /\ s.id \notin visited
           /\ visited' = visited \cup {s.id}
           /\ ordered' = Append(ordered, s)
           /\ todo' = Append([todo EXCEPT ![Len(todo)] = Tail(Level)],
                             ChildrenOf(s.id, spans))
    /\ UNCHANGED <<stage, spans>>

\* A mutant for the model checker: the loop over the siblings goes on with
\* the one it has just skipped.
SkipAgain ==
    /\ stage = "walk" /\ todo # <<>> /\ Level # <<>>
    /\ Head(Level).id \in visited
    /\ UNCHANGED sortVars

(* dfs of a span whose ID was walked before returns at once.               *)
Skip ==
    /\ stage = "walk" /\ todo # <<>> /\ Level # <<>>
    /\ Head(Level).id \in visited
    /\ todo' = [todo EXCEPT ![Len(todo)] = Tail(Level)]
    /\ UNCHANGED <<stage, spans, visited, ordered>>

(* The loop over a list of siblings ends.                                  *)
Up ==
    /\ stage = "walk" /\ todo # <<>> /\ Level = <<>>
    /\ todo' = SubSeq(todo, 1, Len(todo) - 1)
    /\ stage' = IF Len(todo) = 1 THEN "done" ELSE stage
    /\ UNCHANGED <<spans, visited, ordered>>

Sorted ==
    /\ stage = "done"
    /\ UNCHANGED sortVars

Walk == ReturnShort \/ StartWalk \/ Visit \/ Skip \/ Up

-----------------------------------------------------------------------------
Members(list) == {list[k] : k \in DOMAIN list}

\* Is the span in a level of this stack?
Waits(levels, s) == \E d \in DOMAIN levels : s \in Members(levels[d])

Reachable(s) == IsRoot(s, spans) \/ s.parent \in visited

StackTypes ==
    /\ stage \in {"start", "walk", "done"}
    /\ spans \in Seq(Members(spans))
    /\ todo \in Seq(Seq(Members(spans)))
    /\ ordered \in Seq(Members(spans))

WalkByPlace ==
    /\ stage = "start" => todo = <<>> /\ visited = {} /\ ordered = <<>>
    /\ stage = "walk" => Len(spans) > 1
    /\ stage = "done" => todo = <<>>
    /\ (stage = "done" /\ Len(spans) <= 1) => ordered = spans

\* What was walked, what waits, and that nothing else can be reached.
Frontier ==
    (stage # "start" /\ Len(spans) > 1) =>
        /\ visited = Ids(ordered)
        /\ \A s \in Members(spans) : Waits(todo, s) => Reachable(s)
        /\ \A s \in Members(spans) :
               Reachable(s) => s.id \in visited \/ Waits(todo, s)

(* A span is in the result at most once, and never before its parent, even *)
(* when IDs are missing, repeated or cyclic (the visited map, sort.go:43). *)
ParentFirstAndOnce ==
    \A k \in DOMAIN ordered :
        /\ \A j \in 1..(k - 1) : ordered[j].id # ordered[k].id
        /\ (Len(spans) > 1 /\ ~IsRoot(ordered[k], spans)) =>
              \E j \in 1..(k - 1) : ordered[j].id = ordered[k].parent

\* The inductive invariant of the walk.
WalkInv == StackTypes /\ WalkByPlace /\ Frontier /\ ParentFirstAndOnce

(* Only repeated IDs and cycles cost a span: if a span is a root or its    *)
(* parent was walked, then a span of its ID is in the result.              *)
LossExplained ==
    (stage = "done" /\ Len(spans) > 1) =>
        \A i \in DOMAIN spans :
            (IsRoot(spans[i], spans) \/ spans[i].parent \in Ids(ordered))
                => spans[i].id \in Ids(ordered)

\* Where the parent of a span is in a result; 0 is that of the roots.
ParentPlace(s, result, list) ==
    IF IsRoot(s, list) THEN 0
    ELSE CHOOSE p \in DOMAIN result : result[p].id = s.parent

ComesBefore(r, s, list) ==
    \E i, j \in DOMAIN list : i < j /\ list[i] = r /\ list[j] = s

\* Between a span and its parent are only spans below that parent: the arcs
\* from the spans to their parents do not cross.
SubtreesUnbroken(result, list) ==
    \A k \in DOMAIN result :
        LET p == ParentPlace(result[k], result, list)
        IN  \A j \in (p + 1)..(k - 1) : ParentPlace(result[j], result, list) >= p

\* The children of a span, and the roots, come as in the list.
SiblingsInOrder(result, list) ==
    \A k \in DOMAIN result : \A j \in 1..(k - 1) :
        ParentPlace(result[j], result, list) = ParentPlace(result[k], result, list)
            => ComesBefore(result[j], result[k], list)

\* No way up from a span comes back to it: the parents of every span are
\* nearer to a root.
Acyclic(list) ==
    \E depth \in [DOMAIN list -> DOMAIN list] : \A i, j \in DOMAIN list :
        (~IsRoot(list[j], list) /\ list[j].parent = list[i].id) =>
            depth[i] < depth[j]

(* The result is a pre-order of the spans by start time: parents first,    *)
(* each subtree in one piece, siblings by start time (sort.go:9-10, :47),  *)
(* also while the walk is going on and where IDs are missing, repeated or  *)
(* cyclic; and it has every ID unless there is a cycle.                    *)
WalksInPreorder ==
    Len(spans) > 1 =>
        /\ SubtreesUnbroken(ordered, spans)
        /\ SiblingsInOrder(ordered, spans)
        /\ stage # "start" =>
              \A j \in DOMAIN spans : \A i \in 1..(j - 1) : spans[i].start <= spans[j].start
        /\ (stage = "done" /\ Acyclic(spans)) => Ids(ordered) = Ids(spans)

\* How the siblings that wait fit with the result and with one another: what
\* came after the parent of a span that waits is below that parent, siblings
\* wait together, and levels further in have later parents.
LevelsNested(levels, result, list) ==
    \A d \in DOMAIN levels : \A k \in DOMAIN levels[d] :
        LET s == levels[d][k]
            p == ParentPlace(s, result, list)
        IN  /\ \A j \in (p + 1)..Len(result) : ParentPlace(result[j], result, list) >= p
            /\ \A j \in DOMAIN result :
                  ParentPlace(result[j], result, list) = p => ComesBefore(result[j], s, list)
            /\ \A m \in (k + 1)..Len(levels[d]) :
                  /\ ParentPlace(levels[d][m], result, list) = p
                  /\ ComesBefore(s, levels[d][m], list)
            /\ \A e \in (d + 1)..Len(levels) : \A m \in DOMAIN levels[e] :
                  p < ParentPlace(levels[e][m], result, list)

\* The inductive invariant of the order.
PreorderInv ==
    (stage # "start" /\ Len(spans) > 1) =>
        /\ SubtreesUnbroken(ordered, spans)
        /\ SiblingsInOrder(ordered, spans)
        /\ LevelsNested(todo, ordered, spans)

Unwalked == Ids(spans) \ visited

\* The members that wait, and for every level its end.
Pending(levels) == UNION {{d} \X (0..Len(levels[d])) : d \in DOMAIN levels}

(* Every step of the walk uses something up that is finite and that no     *)
(* later step gives back: an ID that was not walked, or else a place of    *)
(* the stack.  A list can therefore not be walked for ever (the visited    *)
(* map, sort.go:43).                                                       *)
UsesUp ==
    \/ stage = "start" /\ stage' \in {"walk", "done"}
    \/ /\ stage = "walk" /\ stage' \in {"walk", "done"}
       /\ IsFiniteSet(Unwalked) /\ IsFiniteSet(Pending(todo))
       /\ \/ Cardinality(Unwalked') < Cardinality(Unwalked)
          \/ /\ Unwalked' = Unwalked
             /\ Cardinality(Pending(todo')) < Cardinality(Pending(todo))

WalkUsesUp == [][UsesUp]_sortVars

(* The walk ends, on cycles and self-parents too.                          *)
SortTerminates == <>(stage = "done")
=============================================================================
