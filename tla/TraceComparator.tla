--------------------------- MODULE TraceComparator ---------------------------
(***************************************************************************)
(* Trace.Compare and the four comparators of trace/comparator.go: does the *)
(* ordered list of spans of a trace hold the spans a test expects?         *)
(*                                                                         *)
(* Covered: the early returns of NewExpectedTrace and Compare, the length  *)
(* guards and segments of the strict, contains, startsWith and endsWith    *)
(* comparators, and the three loops they share, iteration by iteration.    *)
(* What one span matches is the operator Equal, see SpanMatch.             *)
(***************************************************************************)
EXTENDS Integers, Sequences

CONSTANTS
    ExpectedSpans,   \* the spans tests may expect
    ActualSpans,     \* the spans traces may hold
    Equal(_, _),     \* Span.Equal: does the first match the second?
    Questions        \* what is asked: [checker, ordered, expected, actual]

\* Checkers after ToLower; any other one makes NewTraceSpansComparator, and
\* then NewExpectedTrace, return nil.
KnownCheckers == {"strict", "contains", "startswith", "endswith"}

ASSUME QuestionsAssumption ==
    Questions \subseteq [checker : KnownCheckers \cup {"other"}, ordered : BOOLEAN,
                         expected : Seq(ExpectedSpans), actual : Seq(ActualSpans)]

VARIABLES
    pc,        \* "compare", "exact", "subsequence", "subset" or "done"
    question,  \* the arguments of Compare
    segment,   \* the part of the trace the loop looks at
    i,         \* index of the expected span looked for
    j,         \* index of the span of the segment looked at
    used,      \* indexes of the spans of the segment already matched
    equal      \* the answer

vars == <<pc, question, segment, i, j, used, equal>>

expected == question.expected
actual   == question.actual

-----------------------------------------------------------------------------
Init ==
    /\ pc = "compare"
    /\ question \in Questions
    /\ segment = <<>>
    /\ i = 1 /\ j = 1 /\ used = {}
    /\ equal = FALSE

Answer(yes) ==
    /\ pc' = "done"
    /\ equal' = yes

(* A test with an unknown checker has a nil expected trace: it matches     *)
(* nothing.                                                                *)
CompareNil ==
    /\ pc = "compare" /\ question.checker = "other"
    /\ Answer(FALSE)
    /\ UNCHANGED <<question, segment, i, j, used>>

(* An expected trace without spans matches every trace, even strictly.     *)
CompareEmpty ==
    /\ pc = "compare" /\ question.checker # "other"
    /\ Len(expected) = 0
    /\ Answer(TRUE)
    /\ UNCHANGED <<question, segment, i, j, used>>

\* A mutant for the model checker: strict has the guard of the others.
WrongLengthLax == Len(expected) > Len(actual)

WrongLength ==
    IF question.checker = "strict" THEN Len(expected) # Len(actual)
                                   ELSE Len(expected) > Len(actual)

(* The length guard of each comparator.                                    *)
CompareLengths ==
    /\ pc = "compare" /\ question.checker # "other"
    /\ Len(expected) > 0 /\ WrongLength
    /\ Answer(FALSE)
    /\ UNCHANGED <<question, segment, i, j, used>>

\* actual[:len(expected)] and actual[offset:], in the code's words.
SegmentOf(checker) ==
    CASE checker = "startswith" -> SubSeq(actual, 1, Len(expected))
      [] checker = "endswith"   -> SubSeq(actual, Len(actual) - Len(expected) + 1,
                                          Len(actual))
      [] OTHER                  -> actual

(* Choose the segment and the loop.                                        *)
Dispatch ==
    /\ pc = "compare" /\ question.checker # "other"
    /\ Len(expected) > 0 /\ ~WrongLength
    /\ segment' = SegmentOf(question.checker)
    /\ pc' = CASE ~question.ordered -> "subset"
               [] question.ordered /\ question.checker = "contains" -> "subsequence"
               [] question.ordered /\ question.checker # "contains" -> "exact"
    /\ UNCHANGED <<question, i, j, used, equal>>

-----------------------------------------------------------------------------
(* matchOrderedExact: one expected span against the span at its index.     *)
ExactStep ==
    /\ pc = "exact"
    /\ IF Equal(segment[i], expected[i])
         THEN IF i = Len(expected) THEN Answer(TRUE) /\ UNCHANGED i
                                   ELSE i' = i + 1 /\ UNCHANGED <<pc, equal>>
         ELSE Answer(FALSE) /\ UNCHANGED i
    /\ UNCHANGED <<question, segment, j, used>>

\* A mutant for the model checker: the search starts over at a mismatch.
SubsequenceStartsOver ==
    /\ pc = "subsequence" /\ j <= Len(segment)
    /\ j' = j + 1
    /\ IF Equal(segment[j], expected[i])
         THEN IF i = Len(expected) THEN Answer(TRUE) /\ UNCHANGED i
                                   ELSE i' = i + 1 /\ UNCHANGED <<pc, equal>>
         ELSE i' = 1 /\ UNCHANGED <<pc, equal>>
    /\ UNCHANGED <<question, segment, used>>

(* matchOrderedSubsequence: one span of the trace against the expected     *)
(* span looked for.                                                        *)
SubsequenceStep ==
    /\ pc = "subsequence" /\ j <= Len(segment)
    /\ j' = j + 1
    /\ IF Equal(segment[j], expected[i])
         THEN IF i = Len(expected) THEN Answer(TRUE) /\ UNCHANGED i
                                   ELSE i' = i + 1 /\ UNCHANGED <<pc, equal>>
         ELSE UNCHANGED <<pc, i, equal>>
    /\ UNCHANGED <<question, segment, used>>

(* The trace is exhausted.                                                 *)
SubsequenceEnd ==
    /\ pc = "subsequence" /\ j > Len(segment)
    /\ Answer(FALSE)
    /\ UNCHANGED <<question, segment, i, j, used>>

(* matchUnorderedSubset, inner loop: a span that is used or does not match *)
(* is passed over.                                                         *)
SubsetPass ==
    /\ pc = "subset" /\ j <= Len(segment)
    /\ j \in used \/ ~Equal(segment[j], expected[i])
    /\ j' = j + 1
    /\ UNCHANGED <<pc, question, segment, i, used, equal>>

\* A mutant for the model checker: a span is matched twice.
SubsetTakeAgain ==
    /\ pc = "subset" /\ j <= Len(segment)
    /\ Equal(segment[j], expected[i])
    /\ j' = 1
    /\ IF i = Len(expected) THEN Answer(TRUE) /\ UNCHANGED i
                            ELSE i' = i + 1 /\ UNCHANGED <<pc, equal>>
    /\ UNCHANGED <<question, segment, used>>

\* A mutant for the model checker: the inner loop goes on where it was.
SubsetTakeOnward ==
    /\ pc = "subset" /\ j <= Len(segment)
    /\ j \notin used /\ Equal(segment[j], expected[i])
    /\ used' = used \cup {j}
    /\ j' = j + 1
    /\ IF i = Len(expected) THEN Answer(TRUE) /\ UNCHANGED i
                            ELSE i' = i + 1 /\ UNCHANGED <<pc, equal>>
    /\ UNCHANGED <<question, segment>>

(* The first free span that matches is taken for good.                     *)
SubsetTake ==
    /\ pc = "subset" /\ j <= Len(segment)
    /\ j \notin used /\ Equal(segment[j], expected[i])
    /\ used' = used \cup {j}
    /\ j' = 1
    /\ IF i = Len(expected) THEN Answer(TRUE) /\ UNCHANGED i
                            ELSE i' = i + 1 /\ UNCHANGED <<pc, equal>>
    /\ UNCHANGED <<question, segment>>

(* No free span matches the expected one.                                  *)
SubsetMiss ==
    /\ pc = "subset" /\ j > Len(segment)
    /\ Answer(FALSE)
    /\ UNCHANGED <<question, segment, i, j, used>>

Done ==
    /\ pc = "done"
    /\ UNCHANGED vars

Next ==
    \/ CompareNil \/ CompareEmpty \/ CompareLengths \/ Dispatch
    \/ ExactStep
    \/ SubsequenceStep \/ SubsequenceEnd
    \/ SubsetPass \/ SubsetTake \/ SubsetMiss
    \/ Done

Spec == Init /\ [][Next]_vars

-----------------------------------------------------------------------------
TypeOK ==
    /\ pc \in {"compare", "exact", "subsequence", "subset", "done"}
    /\ question \in Questions
    /\ segment \in Seq(ActualSpans)
    /\ i \in Nat \ {0} /\ j \in Nat \ {0}
    /\ used \subseteq 1..Len(segment)
    /\ equal \in BOOLEAN

(* What a test asks for, without the loops: a way to give each of the      *)
(* first n expected spans a span of the list that matches it.              *)
Assignments(n, list) ==
    {f \in [1..n -> 1..Len(list)] : \A k \in 1..n : Equal(list[f[k]], expected[k])}

Increasing(f, n) == \A k, l \in 1..n : k < l => f[k] < f[l]
Injective(f, n)  == \A k, l \in 1..n : k # l => f[k] # f[l]

\* The expected spans are found in the list one after the other.
ContainsChain(n, list) == \E f \in Assignments(n, list) : Increasing(f, n)

\* Each expected span has a span of the list of its own.
ContainsSet(n, list) == \E f \in Assignments(n, list) : Injective(f, n)

\* The expected spans match the list from its element at 1 + offset on.
MatchesAt(offset) ==
    \A k \in 1..Len(expected) : Equal(actual[offset + k], expected[k])

(* The answer of an ordered comparison is the right one: the whole trace,  *)
(* its beginning, its end, or a chain of its spans in order, for strict,   *)
(* startsWith, endsWith and contains (README.md:14).                       *)
OrderedCorrect ==
    (pc = "done" /\ question.ordered /\ Len(expected) > 0) =>
        CASE question.checker = "other"      -> ~equal
          [] question.checker = "strict"     ->
                equal <=> Len(expected) = Len(actual) /\ MatchesAt(0)
          [] question.checker = "startswith" ->
                equal <=> Len(expected) <= Len(actual) /\ MatchesAt(0)
          [] question.checker = "endswith"   ->
                equal <=> /\ Len(expected) <= Len(actual)
                          /\ MatchesAt(Len(actual) - Len(expected))
          [] question.checker = "contains"   ->
                equal <=> ContainsChain(Len(expected), actual)

(* An unordered comparison never says yes wrongly: then every expected     *)
(* span has a matching span of its own, in the right part of the trace.    *)
UnorderedSound ==
    (pc = "done" /\ ~question.ordered /\ equal /\ Len(expected) > 0) =>
        /\ question.checker # "other" /\ ~WrongLength
        /\ ContainsSet(Len(expected), SegmentOf(question.checker))

\* The places in a list of the spans that match an expected one.
Matches(k, list) == {n \in 1..Len(list) : Equal(list[n], expected[k])}

\* Any two expected spans match the same spans, or none in common.
Disjoint(list) ==
    \A k, l \in 1..Len(expected) :
        \/ Matches(k, list) = Matches(l, list)
        \/ Matches(k, list) \cap Matches(l, list) = {}

(* It also never says no wrongly when the expected spans do not overlap.   *)
UnorderedCompleteIfDisjoint ==
    (/\ pc = "done" /\ ~question.ordered /\ ~equal
     /\ question.checker # "other" /\ Disjoint(actual))
    => WrongLength \/ ~ContainsSet(Len(expected), SegmentOf(question.checker))

-----------------------------------------------------------------------------
(* The invariants of the loops: what is known of the expected spans before *)
(* i and of the spans of the trace before j.                               *)
LoopInv ==
    /\ pc # "compare" /\ pc # "done" =>
         /\ question.checker # "other" /\ Len(expected) > 0 /\ ~WrongLength
         /\ segment = SegmentOf(question.checker)
         /\ i \in 1..Len(expected)
    /\ pc = "compare" => i = 1 /\ j = 1 /\ used = {}
    /\ pc = "exact" =>
         /\ question.ordered /\ question.checker # "contains"
         /\ \A k \in 1..(i - 1) : Equal(segment[k], expected[k])
    /\ pc = "subsequence" =>
         /\ question.ordered /\ question.checker = "contains"
         /\ j \in 1..(Len(segment) + 1)
         /\ \E f \in Assignments(i - 1, segment) :
               Increasing(f, i - 1) /\ \A k \in 1..(i - 1) : f[k] < j
         /\ \A g \in Assignments(Len(expected), segment) :
               Increasing(g, Len(expected)) => g[i] >= j
    /\ pc = "subset" =>
         /\ ~question.ordered
         /\ \E f \in Assignments(i - 1, segment) :
               Injective(f, i - 1) /\ \A k \in 1..(i - 1) : f[k] \in used

ComparatorInv == TypeOK /\ LoopInv /\ OrderedCorrect /\ UnorderedSound

\* What else the unordered loop knows: only spans of the expected ones
\* before i are used, and what it has passed over for i was no choice.
GreedyInv ==
    pc = "subset" =>
        /\ j \in 1..(Len(segment) + 1)
        /\ \A k \in 1..(j - 1) : k \in used \/ ~Equal(segment[k], expected[i])
        /\ \E f \in Assignments(i - 1, segment) :
              used \subseteq {f[k] : k \in 1..(i - 1)}

-----------------------------------------------------------------------------
(* README.md:14 says that a test can verify that the trace contains an     *)
(* unordered set of spans: if there is a span of its own for each expected *)
(* one, the answer would be yes.                                           *)
UnorderedComplete ==
    (/\ pc = "done" /\ ~question.ordered /\ question.checker # "other"
     /\ ~WrongLength
     /\ ContainsSet(Len(expected), SegmentOf(question.checker))) => equal
=============================================================================
