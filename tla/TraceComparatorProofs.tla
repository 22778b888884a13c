------------------------ MODULE TraceComparatorProofs ------------------------
(***************************************************************************)
(* Proofs about TraceComparator for any spans, any relation Equal between  *)
(* them and any questions: traces and expected traces of any length.       *)
(*                                                                         *)
(* ComparatorInv is inductive.  LoopInv holds what the loops know: for an  *)
(* ordered "contains", the spans found so far form a chain before j, and   *)
(* any chain at all has its i-th span at j or later, so that taking the    *)
(* first match is never a mistake.                                         *)
(***************************************************************************)
EXTENDS TraceComparator, FiniteSetTheorems, SequenceTheorems, TLAPS

(* A question is made of a known or other checker and two lists.           *)
LEMMA QuestionType ==
  ASSUME question \in Questions
  PROVE  /\ question.checker \in KnownCheckers \cup {"other"}
         /\ question.ordered \in BOOLEAN
         /\ expected \in Seq(ExpectedSpans) /\ actual \in Seq(ActualSpans)
         /\ Len(expected) \in Nat /\ Len(actual) \in Nat
         /\ \A k \in 1..Len(actual) : actual[k] \in ActualSpans
<1>1. question \in [checker : KnownCheckers \cup {"other"}, ordered : BOOLEAN,
                    expected : Seq(ExpectedSpans), actual : Seq(ActualSpans)]
  BY QuestionsAssumption
<1>2. /\ question.checker \in KnownCheckers \cup {"other"}
      /\ question.ordered \in BOOLEAN
      /\ expected \in Seq(ExpectedSpans) /\ actual \in Seq(ActualSpans)
  BY <1>1, Zenon DEF expected, actual
<1> QED
  BY <1>2, LenProperties, ElementOfSeq

(* What the segment a comparator chooses is, once its length guard passed. *)
LEMMA SegmentFacts ==
  ASSUME question \in Questions, question.checker # "other",
         Len(expected) > 0, ~WrongLength
  PROVE  LET s == SegmentOf(question.checker)
         IN  /\ s \in Seq(ActualSpans) /\ Len(s) \in Nat /\ Len(s) >= Len(expected)
             /\ question.checker = "contains" => s = actual
             /\ question.checker \in {"startswith", "endswith"} =>
                   Len(s) = Len(expected)
             /\ question.checker = "strict" =>
                   s = actual /\ Len(expected) = Len(actual)
             /\ question.checker = "startswith" =>
                   /\ Len(expected) <= Len(actual)
                   /\ \A k \in 1..Len(expected) : s[k] = actual[k]
             /\ question.checker = "endswith" =>
                   /\ Len(expected) <= Len(actual)
                   /\ \A k \in 1..Len(expected) :
                        s[k] = actual[Len(actual) - Len(expected) + k]
<1> USE QuestionType
<1>1. CASE question.checker \in {"strict", "contains"}
  BY <1>1 DEF SegmentOf, WrongLength
<1>2. CASE question.checker = "startswith"
  <2> DEFINE s == SubSeq(actual, 1, Len(expected))
  <2>1. SegmentOf(question.checker) = s
    BY <1>2 DEF SegmentOf
  <2>2. Len(expected) <= Len(actual)
    BY <1>2 DEF WrongLength
  <2>3. \A k \in 1..Len(expected) : actual[k] \in ActualSpans
    BY <2>2
  <2>4. /\ s \in Seq(ActualSpans)
        /\ Len(s) = Len(expected)
        /\ \A k \in 1..Len(expected) : s[k] = actual[k]
    <3>1. /\ s \in Seq(ActualSpans)
          /\ Len(s) = IF 1 <= Len(expected) THEN Len(expected) - 1 + 1 ELSE 0
          /\ \A k \in 1 .. Len(expected) - 1 + 1 : s[k] = actual[1 + k - 1]
      BY <2>3, SubSeqProperties
    <3> HIDE DEF s
    <3> QED
      BY <3>1
  <2> HIDE DEF s
  <2> QED
    BY <1>2, <2>1, <2>2, <2>4
<1>3. CASE question.checker = "endswith"
  <2> DEFINE m == Len(actual) - Len(expected) + 1
             s == SubSeq(actual, m, Len(actual))
  <2>1. SegmentOf(question.checker) = s
    BY <1>3 DEF SegmentOf
  <2>2. Len(expected) <= Len(actual)
    BY <1>3 DEF WrongLength
  <2>3. m \in Int /\ m <= Len(actual) /\ Len(actual) - m + 1 = Len(expected)
    BY <2>2
  <2>4. \A k \in m..Len(actual) : actual[k] \in ActualSpans
    BY <2>2
  <2>5. /\ s \in Seq(ActualSpans)
        /\ Len(s) = Len(expected)
        /\ \A k \in 1..Len(expected) : s[k] = actual[m + k - 1]
    <3> HIDE DEF m
    <3>1. /\ s \in Seq(ActualSpans)
          /\ Len(s) = IF m <= Len(actual) THEN Len(actual) - m + 1 ELSE 0
          /\ \A k \in 1 .. Len(actual) - m + 1 : s[k] = actual[m + k - 1]
      BY <2>3, <2>4, SubSeqProperties
    <3> HIDE DEF s
    <3> QED
      BY <3>1, <2>3
  <2> HIDE DEF s
  <2>6. \A k \in 1..Len(expected) : m + k - 1 = Len(actual) - Len(expected) + k
    OBVIOUS
  <2> QED
    BY <1>3, <2>1, <2>2, <2>5, <2>6
<1> QED
  BY <1>1, <1>2, <1>3 DEF KnownCheckers

(* How many numbers there are up to n.                                     *)
LEMMA IntervalSize ==
    ASSUME NEW n \in Nat
    PROVE  IsFiniteSet(1..n) /\ Cardinality(1..n) = n
<1>1. 1 \in Int /\ n \in Int
  OBVIOUS
<1>2. /\ IsFiniteSet(1..n)
      /\ Cardinality(1..n) = IF 1 > n THEN 0 ELSE n - 1 + 1
  BY <1>1, FS_Interval
<1> QED
  BY <1>2

(* A list shorter than the expected spans has no chain of them.            *)
LEMMA NoChainInShortList ==
  ASSUME NEW n \in Nat, NEW list, Len(list) \in Nat, n > Len(list)
  PROVE  ~ContainsChain(n, list)
<1> SUFFICES ASSUME NEW f \in [1..n -> 1..Len(list)], Increasing(f, n)
             PROVE  FALSE
  BY DEF ContainsChain, Assignments
<1>1. IsFiniteSet(1..n) /\ Cardinality(1..n) = n
  BY IntervalSize
<1> DEFINE m == Len(list)
<1>4. IsFiniteSet(1..m) /\ Cardinality(1..m) = m
  BY IntervalSize
<1>5. Cardinality(1..m) < Cardinality(1..n)
  BY <1>1, <1>4
<1>2. PICK x \in 1..n, y \in 1..n : x # y /\ f[x] = f[y]
  BY <1>1, <1>4, <1>5, FS_PigeonHole
<1>3. /\ \A v \in 1..n : f[v] \in Nat
      /\ x < y \/ y < x
  BY <1>2
<1> QED
  BY <1>2, <1>3 DEF Increasing

(* No loop starts with more than the length guards allow to be known.      *)
LEMMA InitComparatorInv == Init => ComparatorInv
<1> SUFFICES ASSUME Init PROVE ComparatorInv
  OBVIOUS
<1>1. TypeOK
  <2>1. segment \in Seq(ActualSpans) /\ used \subseteq 1..Len(segment)
    <3>1. segment = <<>> /\ used = {}
      BY DEF Init
    <3> QED
      BY <3>1, EmptySeq
  <2>2. question \in Questions
    BY Zenon DEF Init
  <2>3. /\ pc = "compare" /\ i \in Nat \ {0} /\ j \in Nat \ {0}
        /\ equal \in BOOLEAN
    <3>1. pc = "compare" /\ i = 1 /\ j = 1
      BY Zenon DEF Init
    <3>2. equal \in BOOLEAN
      BY Zenon DEF Init
    <3> QED
      BY <3>1, <3>2
  <2> QED
    BY <2>1, <2>2, <2>3 DEF TypeOK
<1>2. LoopInv /\ OrderedCorrect /\ UnorderedSound
  BY DEF Init, LoopInv, OrderedCorrect, UnorderedSound
<1> QED
  BY <1>1, <1>2 DEF ComparatorInv

(* The early returns: nothing is claimed without the comparison of spans.  *)
LEMMA ReturnStep ==
  ASSUME ComparatorInv, CompareNil \/ CompareEmpty \/ CompareLengths
  PROVE  ComparatorInv'
<1>1. question \in Questions /\ TypeOK /\ LoopInv
  BY DEF ComparatorInv, TypeOK
<1> USE QuestionType, <1>1
<1>2. /\ pc' = "done" /\ equal' \in BOOLEAN
      /\ UNCHANGED <<question, segment, i, j, used>>
  BY DEF CompareNil, CompareEmpty, CompareLengths, Answer
<1>3. expected' = expected /\ actual' = actual /\ WrongLength' = WrongLength
  BY <1>2 DEF expected, actual, WrongLength
<1>4. TypeOK'
  BY <1>2 DEF TypeOK
<1>5. LoopInv'
  BY <1>2 DEF LoopInv
<1>6. Len(expected) > 0 => /\ question.checker = "other" \/ WrongLength
                           /\ ~equal'
  BY DEF CompareNil, CompareEmpty, CompareLengths, Answer
<1>7. UnorderedSound'
  BY <1>2, <1>3, <1>6 DEF UnorderedSound
<1>8. OrderedCorrect'
  <2> SUFFICES ASSUME Len(expected) > 0 PROVE OrderedCorrect'
    BY <1>3 DEF OrderedCorrect
  <2>1. CASE question.checker # "contains"
    <3>1. question'.checker = question.checker /\ ~equal'
      BY <1>2, <1>6
    <3>2. question.checker = "strict" => Len(expected) # Len(actual)
      BY <1>6 DEF WrongLength
    <3>3. question.checker \in {"startswith", "endswith"} =>
             ~(Len(expected) <= Len(actual))
      BY <1>6 DEF WrongLength
    <3> QED
      BY <2>1, <3>1, <3>2, <3>3, <1>3 DEF OrderedCorrect, KnownCheckers
  <2>2. CASE question.checker = "contains"
    <3>1. ~ContainsChain(Len(expected), actual)
      <4>1. Len(expected) > Len(actual)
        BY <2>2, <1>6 DEF WrongLength
      <4> QED
        BY <4>1, NoChainInShortList
    <3>2. ~ContainsChain(Len(expected), actual)'
      BY <3>1, <1>3 DEF ContainsChain, Assignments, Increasing
    <3> QED
      BY <2>2, <1>2, <1>6, <3>2 DEF OrderedCorrect
  <2> QED
    BY <2>1, <2>2
<1> QED
  BY <1>4, <1>5, <1>7, <1>8 DEF ComparatorInv

(* The loops start with nothing found and nothing excluded.                *)
LEMMA DispatchStep ==
  ASSUME ComparatorInv, Dispatch
  PROVE  ComparatorInv'
<1>1. /\ question \in Questions /\ TypeOK /\ LoopInv
      /\ pc = "compare" /\ i = 1 /\ j = 1 /\ used = {}
  BY DEF ComparatorInv, TypeOK, LoopInv, Dispatch
<1> USE QuestionType, <1>1
<1>2. /\ question.checker # "other" /\ Len(expected) > 0 /\ ~WrongLength
      /\ segment' = SegmentOf(question.checker)
      /\ UNCHANGED <<question, i, j, used, equal>>
  BY DEF Dispatch
<1>3. /\ pc' \in {"exact", "subsequence", "subset"}
      /\ pc' = "subset" => ~question.ordered
      /\ pc' # "subset" => question.ordered
      /\ pc' = "subsequence" => question.checker = "contains"
      /\ pc' = "exact" => question.checker # "contains"
  BY DEF Dispatch
<1>4. expected' = expected /\ actual' = actual /\ WrongLength' = WrongLength
  BY <1>2 DEF expected, actual, WrongLength
<1>5. SegmentOf(question.checker)' = SegmentOf(question.checker)
  BY <1>2, <1>4 DEF SegmentOf
<1>6. segment' \in Seq(ActualSpans) /\ Len(segment') \in Nat
  BY <1>2, SegmentFacts
<1>7. TypeOK'
  BY <1>2, <1>3, <1>6 DEF TypeOK
<1>8. OrderedCorrect' /\ UnorderedSound'
  BY <1>3 DEF OrderedCorrect, UnorderedSound
<1>9. LoopInv'
  <2> DEFINE n == Len(segment')
  <2>1. [k \in 1..0 |-> 1] \in [1..0 -> 1..n]
    OBVIOUS
  <2>2. \E f \in Assignments(0, segment)' :
           /\ Increasing(f, 0) /\ Injective(f, 0)
           /\ \A k \in 1..0 : f[k] < 1
           /\ \A k \in 1..0 : f[k] \in {}
    <3>1. [k \in 1..0 |-> 1] \in Assignments(0, segment)'
      BY <2>1 DEF Assignments
    <3> QED
      BY <3>1 DEF Increasing, Injective
  <2>3. \A g \in Assignments(Len(expected), segment)' : g[1] >= 1
    BY <1>2, <1>4, <1>6 DEF Assignments
  <2>4. pc' = "exact" => LoopInv'
    BY <1>2, <1>3, <1>4, <1>5 DEF LoopInv
  <2>5. pc' = "subsequence" => LoopInv'
    <3> SUFFICES ASSUME pc' = "subsequence" PROVE LoopInv'
      OBVIOUS
    <3>1. /\ i' - 1 = 0 /\ i' = 1 /\ j' = 1
          /\ i' \in 1..Len(expected') /\ j' \in 1..(Len(segment') + 1)
      BY <1>2, <1>4, <1>6
    <3>2. \E f \in Assignments(i - 1, segment)' :
            Increasing(f, i' - 1) /\ \A k \in 1..(i' - 1) : f[k] < j'
      BY <2>2, <3>1 DEF Assignments
    <3>3. \A g \in Assignments(Len(expected), segment)' :
            Increasing(g, Len(expected')) => g[i'] >= j'
      BY <2>3, <3>1, <1>4
    <3>4. /\ question'.checker = "contains" /\ question'.ordered
          /\ ~WrongLength' /\ Len(expected') > 0
          /\ segment' = SegmentOf(question.checker)'
      BY <1>2, <1>3, <1>4, <1>5
    <3> QED
      BY <3>1, <3>2, <3>3, <3>4 DEF LoopInv
  <2>6. pc' = "subset" => LoopInv'
    <3> SUFFICES ASSUME pc' = "subset" PROVE LoopInv'
      OBVIOUS
    <3>1. i' - 1 = 0 /\ used' = {} /\ i' \in 1..Len(expected')
      BY <1>2, <1>4
    <3>2. \E f \in Assignments(i - 1, segment)' :
            Injective(f, i' - 1) /\ \A k \in 1..(i' - 1) : f[k] \in used'
      BY <2>2, <3>1 DEF Assignments
    <3>3. /\ question'.checker # "other" /\ ~question'.ordered
          /\ ~WrongLength' /\ Len(expected') > 0
          /\ segment' = SegmentOf(question.checker)'
      BY <1>2, <1>3, <1>4, <1>5
    <3> QED
      BY <3>1, <3>2, <3>3 DEF LoopInv
  <2> QED
    BY <1>3, <2>4, <2>5, <2>6
<1> QED
  BY <1>7, <1>8, <1>9 DEF ComparatorInv
(* The ordered loop over equal indexes: every span before i matches.       *)
LEMMA ExactLoopStep ==
  ASSUME ComparatorInv, ExactStep
  PROVE  ComparatorInv'
<1>1. /\ question \in Questions /\ TypeOK /\ pc = "exact"
      /\ question.checker # "other" /\ Len(expected) > 0 /\ ~WrongLength
      /\ question.ordered /\ question.checker # "contains"
      /\ segment = SegmentOf(question.checker)
      /\ i \in 1..Len(expected)
      /\ \A k \in 1..(i - 1) : Equal(segment[k], expected[k])
  BY DEF ComparatorInv, TypeOK, LoopInv, ExactStep
<1> USE QuestionType, <1>1
<1>2. UNCHANGED <<question, segment, j, used>>
  BY DEF ExactStep
<1>3. /\ expected' = expected /\ actual' = actual /\ WrongLength' = WrongLength
      /\ SegmentOf(question.checker)' = SegmentOf(question.checker)
  BY <1>2 DEF expected, actual, WrongLength, SegmentOf
<1>4. \/ /\ pc' = "exact" /\ i' = i + 1 /\ i < Len(expected) /\ equal' = equal
         /\ Equal(segment[i], expected[i])
      \/ /\ pc' = "done" /\ i' = i /\ equal' = TRUE
         /\ i = Len(expected) /\ Equal(segment[i], expected[i])
      \/ /\ pc' = "done" /\ i' = i /\ equal' = FALSE
         /\ ~Equal(segment[i], expected[i])
  BY DEF ExactStep, Answer
<1>5. TypeOK'
  <2>1. pc' \in {"exact", "done"} /\ i' \in Nat \ {0}
    BY <1>4
  <2>2. equal' \in BOOLEAN
    <3>1. equal \in BOOLEAN /\ (equal' = equal \/ equal' = TRUE \/ equal' = FALSE)
      BY <1>4, Zenon DEF TypeOK
    <3> QED
      BY <3>1, Zenon
  <2> QED
    BY <2>1, <2>2, <1>2 DEF TypeOK
<1>6. LoopInv'
  <2>1. CASE pc' = "exact"
    <3>1. \A k \in 1..(i' - 1) : Equal(segment'[k], expected'[k])
      BY <2>1, <1>2, <1>3, <1>4
    <3> QED
      BY <2>1, <1>2, <1>3, <1>4, <3>1 DEF LoopInv
  <2>2. CASE pc' = "done"
    BY <2>2 DEF LoopInv
  <2> QED
    BY <1>4, <2>1, <2>2
<1>7. UnorderedSound'
  BY <1>2 DEF UnorderedSound
<1>8. OrderedCorrect'
  <2>1. CASE pc' = "done"
    <3>1. equal' <=> \A k \in 1..Len(expected) : Equal(segment[k], expected[k])
      BY <2>1, <1>4
    <3>2. CASE question.checker = "endswith"
      <4>1. /\ Len(expected) <= Len(actual)
            /\ \A k \in 1..Len(expected) :
                 segment[k] = actual[Len(actual) - Len(expected) + k]
        BY <3>2, SegmentFacts
      <4>2. equal' <=> MatchesAt(Len(actual) - Len(expected))
        BY <3>1, <4>1 DEF MatchesAt
      <4>3. MatchesAt(Len(actual) - Len(expected))'
              = MatchesAt(Len(actual) - Len(expected))
        BY <1>3 DEF MatchesAt
      <4> QED
        BY <3>2, <4>1, <4>2, <4>3, <1>2, <1>3 DEF OrderedCorrect
    <3>3. CASE question.checker \in {"strict", "startswith"}
      <4>1. /\ question.checker = "strict" => Len(expected) = Len(actual)
            /\ Len(expected) <= Len(actual)
            /\ \A k \in 1..Len(expected) : segment[k] = actual[k]
        BY <3>3, SegmentFacts
      <4>2. equal' <=> MatchesAt(0)
        BY <3>1, <4>1 DEF MatchesAt
      <4>3. MatchesAt(0)' = MatchesAt(0)
        BY <1>3 DEF MatchesAt
      <4> QED
        BY <3>3, <4>1, <4>2, <4>3, <1>2, <1>3 DEF OrderedCorrect
    <3> QED
      BY <3>2, <3>3 DEF KnownCheckers
  <2>2. CASE pc' # "done"
    BY <2>2 DEF OrderedCorrect
  <2> QED
    BY <2>1, <2>2
<1> QED
  BY <1>5, <1>6, <1>7, <1>8 DEF ComparatorInv

(* A chain before j, or an injective choice, is extended with the span at  *)
(* j when that span matches the expected one.                              *)
LEMMA ExtendAssignment ==
  ASSUME NEW n \in Nat \ {0}, NEW list, Len(list) \in Nat,
         NEW f \in Assignments(n - 1, list), NEW x \in 1..Len(list),
         Equal(list[x], expected[n])
  PROVE  \E g \in Assignments(n, list) :
            g[n] = x /\ \A k \in 1..(n - 1) : g[k] = f[k]
<1> DEFINE m == Len(list)
           g == [k \in 1..n |-> IF k = n THEN x ELSE f[k]]
<1>1. /\ f \in [1..(n - 1) -> 1..m]
      /\ \A k \in 1..(n - 1) : Equal(list[f[k]], expected[k])
  BY DEF Assignments
<1>2. g \in [1..n -> 1..m]
  BY <1>1
<1>3. g[n] = x /\ \A k \in 1..(n - 1) : g[k] = f[k]
  OBVIOUS
<1> HIDE DEF g
<1>4. \A k \in 1..n : Equal(list[g[k]], expected[k])
  BY <1>1, <1>3
<1> QED
  BY <1>2, <1>3, <1>4 DEF Assignments
(* The loop over the spans of the trace: the chain is extended greedily.   *)
LEMMA SubsequenceLoopStep ==
  ASSUME ComparatorInv, SubsequenceStep \/ SubsequenceEnd
  PROVE  ComparatorInv'
<1> DEFINE n == Len(expected)
           m == Len(segment)
<1>1. /\ question \in Questions /\ TypeOK /\ pc = "subsequence"
      /\ question.checker = "contains" /\ n > 0 /\ ~WrongLength
      /\ question.ordered
      /\ segment = SegmentOf(question.checker)
      /\ i \in 1..n /\ j \in 1..(m + 1)
  BY DEF ComparatorInv, TypeOK, LoopInv, SubsequenceStep, SubsequenceEnd
<1>2. /\ \E f \in Assignments(i - 1, segment) :
            Increasing(f, i - 1) /\ \A k \in 1..(i - 1) : f[k] < j
      /\ \A g \in Assignments(n, segment) : Increasing(g, n) => g[i] >= j
  BY <1>1 DEF ComparatorInv, LoopInv
<1> USE QuestionType, <1>1
<1>3. m \in Nat /\ segment = actual
  BY SegmentFacts
<1>4. UNCHANGED <<question, segment, used>>
  BY DEF SubsequenceStep, SubsequenceEnd
<1>5. /\ expected' = expected /\ actual' = actual /\ WrongLength' = WrongLength
      /\ SegmentOf(question.checker)' = SegmentOf(question.checker)
  BY <1>4 DEF expected, actual, WrongLength, SegmentOf
<1>6. \A a \in 0..n : Assignments(a, segment)' = Assignments(a, segment)
  BY <1>4, <1>5 DEF Assignments
<1>7. ContainsChain(Len(expected), actual)' = ContainsChain(n, segment)
  BY <1>3, <1>5 DEF ContainsChain, Assignments
\* The five outcomes of a step.
<1>8. \/ /\ pc' = "subsequence" /\ j <= m /\ j' = j + 1 /\ equal' = equal
         /\ i' = i + 1 /\ i < n /\ Equal(segment[j], expected[i])
      \/ /\ pc' = "subsequence" /\ j <= m /\ j' = j + 1 /\ equal' = equal
         /\ i' = i /\ ~Equal(segment[j], expected[i])
      \/ /\ pc' = "done" /\ j <= m /\ j' = j + 1 /\ equal' = TRUE
         /\ i' = i /\ i = n /\ Equal(segment[j], expected[i])
      \/ /\ pc' = "done" /\ j > m /\ j' = j /\ equal' = FALSE /\ i' = i
  BY DEF SubsequenceStep, SubsequenceEnd, Answer
<1>9. TypeOK'
  <2>1. /\ pc' \in {"subsequence", "done"}
        /\ i' \in Nat \ {0} /\ j' \in Nat \ {0}
    BY <1>3, <1>8
  <2>2. equal' \in BOOLEAN
    <3>1. equal \in BOOLEAN /\ (equal' = equal \/ equal' = TRUE \/ equal' = FALSE)
      BY <1>8, Zenon DEF TypeOK
    <3> QED
      BY <3>1, Zenon
  <2> QED
    BY <2>1, <2>2, <1>4 DEF TypeOK
\* When the span at j matches, the chain grows by it.
<1>10. ASSUME j <= m, Equal(segment[j], expected[i])
       PROVE  \E f \in Assignments(i, segment) :
                Increasing(f, i) /\ \A k \in 1..i : f[k] < j + 1
  <2>1. PICK f \in Assignments(i - 1, segment) :
               Increasing(f, i - 1) /\ \A k \in 1..(i - 1) : f[k] < j
    BY <1>2
  <2>2. PICK g \in Assignments(i, segment) :
               g[i] = j /\ \A k \in 1..(i - 1) : g[k] = f[k]
    <3>1. i \in Nat \ {0} /\ j \in 1..Len(segment) /\ Len(segment) \in Nat
      BY <1>3, <1>10
    <3>2. f \in Assignments(i - 1, segment) /\ Equal(segment[j], expected[i])
      BY <2>1, <1>10
    <3> HIDE <1>1, QuestionType
    <3> QED
      BY <3>1, <3>2, ExtendAssignment
  <2>3. \A k \in 1..i : g[k] \in Nat
    BY <2>2, <1>3 DEF Assignments
  <2>4. \A k \in 1..i : k = i \/ (k \in 1..(i - 1) /\ g[k] < j)
    BY <2>1, <2>2
  <2>5. Increasing(g, i)
    BY <2>1, <2>2, <2>3, <2>4 DEF Increasing
  <2> QED
    BY <2>2, <2>3, <2>4, <2>5
<1>11. LoopInv'
  <2> SUFFICES ASSUME pc' = "subsequence" PROVE LoopInv'
    BY <1>8 DEF LoopInv
  <2>1. /\ i' \in 1..n /\ j' \in 1..(m + 1) /\ i' - 1 \in 0..n
        /\ j <= m /\ j' = j + 1
    BY <1>3, <1>8
  <2>2. \E f \in Assignments(i' - 1, segment) :
          Increasing(f, i' - 1) /\ \A k \in 1..(i' - 1) : f[k] < j'
    <3>1. CASE i' = i
      <4>1. PICK f \in Assignments(i - 1, segment) :
                   Increasing(f, i - 1) /\ \A k \in 1..(i - 1) : f[k] < j
        BY <1>2
      <4>2. \A k \in 1..(i - 1) : f[k] \in Nat
        BY <4>1, <1>3 DEF Assignments
      <4> QED
        BY <3>1, <2>1, <4>1, <4>2
    <3>2. CASE i' = i + 1 /\ Equal(segment[j], expected[i])
      <4>1. i' - 1 = i
        BY <3>2
      <4> QED
        BY <3>2, <4>1, <2>1, <1>10
    <3> QED
      BY <1>8, <3>1, <3>2
  <2>3. \A g \in Assignments(n, segment) : Increasing(g, n) => g[i'] >= j'
    <3> SUFFICES ASSUME NEW g \in Assignments(n, segment), Increasing(g, n)
                 PROVE  g[i'] >= j'
      OBVIOUS
    <3>1. /\ g[i] >= j /\ g[i] \in 1..m /\ g[i'] \in 1..m
          /\ Equal(segment[g[i]], expected[i])
      BY <1>2, <2>1 DEF Assignments
    <3>2. CASE i' = i /\ ~Equal(segment[j], expected[i])
      <4>1. g[i] # j
        BY <3>1, <3>2
      <4>2. g[i] \in Nat /\ j \in Nat
        BY <3>1, <2>1
      <4> QED
        BY <3>1, <3>2, <2>1, <4>1, <4>2
    <3>3. CASE i' = i + 1
      <4>1. g[i] < g[i']
        BY <3>3, <2>1 DEF Increasing
      <4>2. g[i] \in Nat /\ g[i'] \in Nat /\ j \in Nat /\ j' = j + 1
        <5>1. \A x \in 1..m : x \in Nat
          BY <1>3
        <5>2. \A x \in 1..(m + 1) : x \in Nat
          BY <1>3
        <5>3. j \in Nat
          BY <1>1, <5>2
        <5> HIDE QuestionType, <1>1
        <5> QED
          BY <3>1, <2>1, <5>1, <5>3
      <4>3. g[i] >= j
        BY <3>1
      <4> HIDE <1>1, QuestionType
      <4> QED
        BY <4>1, <4>2, <4>3
    <3> QED
      BY <1>8, <3>2, <3>3
  <2>4. \E f \in Assignments(i - 1, segment)' :
          Increasing(f, i' - 1) /\ \A k \in 1..(i' - 1) : f[k] < j'
    <3>1. Assignments(i - 1, segment)' = Assignments(i' - 1, segment)
      BY <1>4, <1>5 DEF Assignments
    <3> QED
      BY <2>2, <3>1
  <2>5. \A g \in Assignments(Len(expected), segment)' :
          Increasing(g, Len(expected')) => g[i'] >= j'
    <3>1. Assignments(Len(expected), segment)' = Assignments(n, segment)
      BY <1>4, <1>5 DEF Assignments
    <3> QED
      BY <2>3, <3>1, <1>5
  <2> QED
    BY <1>4, <1>5, <2>1, <2>4, <2>5 DEF LoopInv
<1>12. UnorderedSound'
  BY <1>4 DEF UnorderedSound
<1>13. OrderedCorrect'
  <2> SUFFICES ASSUME pc' = "done" PROVE OrderedCorrect'
    BY DEF OrderedCorrect
  <2>1. CASE equal' = TRUE /\ j <= m /\ i = n /\ Equal(segment[j], expected[i])
    <3>1. ContainsChain(n, segment)
      BY <2>1, <1>10 DEF ContainsChain
    <3> QED
      BY <2>1, <3>1, <1>4, <1>7 DEF OrderedCorrect
  <2>2. CASE equal' = FALSE /\ j > m
    <3>1. ~ContainsChain(n, segment)
      <4> SUFFICES ASSUME NEW g \in Assignments(n, segment), Increasing(g, n)
                   PROVE  FALSE
        BY DEF ContainsChain
      <4>1. g[i] >= j /\ g[i] \in 1..m
        BY <1>2 DEF Assignments
      <4> QED
        BY <4>1, <2>2, <1>3
    <3> QED
      BY <2>2, <3>1, <1>4, <1>7 DEF OrderedCorrect
  <2> QED
    BY <1>8, <2>1, <2>2
<1> QED
  BY <1>9, <1>11, <1>12, <1>13 DEF ComparatorInv
(* The unordered loop: the expected spans before i have a span of their    *)
(* own, all of them used.                                                  *)
LEMMA SubsetLoopStep ==
  ASSUME ComparatorInv, SubsetPass \/ SubsetTake \/ SubsetMiss
  PROVE  ComparatorInv'
<1> DEFINE n == Len(expected)
           m == Len(segment)
<1>1. /\ question \in Questions /\ TypeOK /\ pc = "subset"
      /\ question.checker # "other" /\ n > 0 /\ ~WrongLength
      /\ ~question.ordered
      /\ segment = SegmentOf(question.checker)
      /\ i \in 1..n /\ j \in Nat \ {0} /\ used \subseteq 1..m
  BY DEF ComparatorInv, TypeOK, LoopInv, SubsetPass, SubsetTake, SubsetMiss
<1>2. \E f \in Assignments(i - 1, segment) :
         Injective(f, i - 1) /\ \A k \in 1..(i - 1) : f[k] \in used
  BY <1>1 DEF ComparatorInv, LoopInv
<1> USE QuestionType, <1>1
<1>3. m \in Nat
  BY SegmentFacts
<1>4. UNCHANGED <<question, segment>>
  BY DEF SubsetPass, SubsetTake, SubsetMiss
<1>5. /\ expected' = expected /\ actual' = actual /\ WrongLength' = WrongLength
      /\ SegmentOf(question.checker)' = SegmentOf(question.checker)
  BY <1>4 DEF expected, actual, WrongLength, SegmentOf
<1>6. \/ /\ pc' = "subset" /\ j' = j + 1 /\ i' = i /\ used' = used /\ equal' = equal
      \/ /\ pc' = "subset" /\ j' = 1 /\ i' = i + 1 /\ i < n /\ equal' = equal
         /\ j <= m /\ j \notin used /\ Equal(segment[j], expected[i])
         /\ used' = used \cup {j}
      \/ /\ pc' = "done" /\ j' = 1 /\ i' = i /\ i = n /\ equal' = TRUE
         /\ j <= m /\ j \notin used /\ Equal(segment[j], expected[i])
         /\ used' = used \cup {j}
      \/ /\ pc' = "done" /\ j' = j /\ i' = i /\ used' = used /\ equal' = FALSE
  BY DEF SubsetPass, SubsetTake, SubsetMiss, Answer
<1>7. TypeOK'
  <2>1. /\ pc' \in {"subset", "done"}
        /\ i' \in Nat \ {0} /\ j' \in Nat \ {0}
    BY <1>3, <1>6
  <2>3. used' \subseteq 1..m
    <3>1. used' = used \/ (used' = used \cup {j} /\ j \in 1..m)
      BY <1>3, <1>6
    <3> QED
      BY <3>1
  <2>2. equal' \in BOOLEAN
    <3>1. equal \in BOOLEAN /\ (equal' = equal \/ equal' = TRUE \/ equal' = FALSE)
      BY <1>6, Zenon DEF TypeOK
    <3> QED
      BY <3>1, Zenon
  <2> QED
    BY <2>1, <2>2, <2>3, <1>4 DEF TypeOK
\* A span that is taken is no other expected span's.
<1>8. ASSUME j <= m, j \notin used, Equal(segment[j], expected[i])
      PROVE  \E f \in Assignments(i, segment) :
               Injective(f, i) /\ \A k \in 1..i : f[k] \in used \cup {j}
  <2>1. PICK f \in Assignments(i - 1, segment) :
               Injective(f, i - 1) /\ \A k \in 1..(i - 1) : f[k] \in used
    BY <1>2
  <2>2. PICK g \in Assignments(i, segment) :
               g[i] = j /\ \A k \in 1..(i - 1) : g[k] = f[k]
    <3>1. i \in Nat \ {0} /\ j \in 1..m /\ Equal(segment[j], expected[i])
      BY <1>3, <1>8
    <3>2. f \in Assignments(i - 1, segment)
      BY <2>1
    <3> HIDE <1>1, QuestionType
    <3> QED
      BY <3>1, <3>2, <1>3, ExtendAssignment
  <2>3. \A k \in 1..i : k = i \/ (k \in 1..(i - 1) /\ g[k] \in used)
    BY <2>1, <2>2
  <2>4. Injective(g, i)
    BY <2>1, <2>2, <2>3, <1>8 DEF Injective
  <2> QED
    BY <2>2, <2>3, <2>4
<1>9. LoopInv'
  <2> SUFFICES ASSUME pc' = "subset" PROVE LoopInv'
    BY <1>6 DEF LoopInv
  <2>1. i' \in 1..n
    BY <1>6
  <2>2. \E f \in Assignments(i' - 1, segment) :
          Injective(f, i' - 1) /\ \A k \in 1..(i' - 1) : f[k] \in used'
    <3>1. CASE i' = i /\ used' = used
      BY <3>1, <1>2
    <3>2. CASE /\ i' = i + 1 /\ used' = used \cup {j}
               /\ j <= m /\ j \notin used /\ Equal(segment[j], expected[i])
      <4>1. i' - 1 = i
        BY <3>2
      <4> QED
        BY <3>2, <4>1, <1>8
    <3> QED
      BY <1>6, <3>1, <3>2
  <2>3. \E f \in Assignments(i - 1, segment)' :
          Injective(f, i' - 1) /\ \A k \in 1..(i' - 1) : f[k] \in used'
    <3>1. Assignments(i - 1, segment)' = Assignments(i' - 1, segment)
      BY <1>4, <1>5 DEF Assignments
    <3> QED
      BY <2>2, <3>1
  <2> QED
    BY <1>4, <1>5, <2>1, <2>3 DEF LoopInv
<1>10. OrderedCorrect'
  BY <1>4 DEF OrderedCorrect
<1>11. UnorderedSound'
  <2> SUFFICES ASSUME pc' = "done", equal' PROVE UnorderedSound'
    BY DEF UnorderedSound
  <2>1. i = n /\ j <= m /\ j \notin used /\ Equal(segment[j], expected[i])
    BY <1>6
  <2>2. ContainsSet(n, segment)
    BY <2>1, <1>8 DEF ContainsSet
  <2>3. ContainsSet(Len(expected), SegmentOf(question.checker))'
          = ContainsSet(n, segment)
    BY <1>4, <1>5 DEF ContainsSet, Assignments
  <2> QED
    BY <2>2, <2>3, <1>4, <1>5 DEF UnorderedSound
<1> QED
  BY <1>7, <1>9, <1>10, <1>11 DEF ComparatorInv

(* Every action preserves the invariant.                                   *)
LEMMA ComparatorStep == ComparatorInv /\ [Next]_vars => ComparatorInv'
<1> SUFFICES ASSUME ComparatorInv, [Next]_vars PROVE ComparatorInv'
  OBVIOUS
<1>1. CASE CompareNil \/ CompareEmpty \/ CompareLengths
  BY <1>1, ReturnStep
<1>2. CASE Dispatch
  BY <1>2, DispatchStep
<1>3. CASE ExactStep
  BY <1>3, ExactLoopStep
<1>4. CASE SubsequenceStep \/ SubsequenceEnd
  BY <1>4, SubsequenceLoopStep
<1>5. CASE SubsetPass \/ SubsetTake \/ SubsetMiss
  BY <1>5, SubsetLoopStep
<1>6. CASE Done \/ UNCHANGED vars
  <2>1. UNCHANGED vars
    BY <1>6 DEF Done
  <2> USE <2>1 DEF vars, expected, actual, WrongLength, SegmentOf
  <2>2. TypeOK'
    BY DEF ComparatorInv, TypeOK
  <2>3. LoopInv'
    BY DEF ComparatorInv, LoopInv, Assignments
  <2>4. OrderedCorrect'
    BY DEF ComparatorInv, OrderedCorrect, MatchesAt, ContainsChain, Assignments
  <2>5. UnorderedSound'
    BY DEF ComparatorInv, UnorderedSound, ContainsSet, Assignments
  <2> QED
    BY <2>2, <2>3, <2>4, <2>5 DEF ComparatorInv
<1> QED
  BY <1>1, <1>2, <1>3, <1>4, <1>5, <1>6 DEF Next

(* The loops of the comparators always know what LoopInv says, and the     *)
(* answers they give follow from it.                                       *)
THEOREM ComparatorInvariant == Spec => []ComparatorInv
<1> QED
  BY InitComparatorInv, ComparatorStep, PTL DEF Spec

(* Ordered strict, contains, startsWith and endsWith comparisons answer    *)
(* yes exactly when they should, for traces of any length: the first match *)
(* matchOrderedSubsequence takes is never the wrong one.                   *)
THEOREM OrderedComparisonCorrect == Spec => []OrderedCorrect
<1>1. ComparatorInv => OrderedCorrect
  BY DEF ComparatorInv
<1> QED
  BY ComparatorInvariant, <1>1, PTL

(* An unordered comparison that says yes has found a span of its own for   *)
(* every expected span.                                                    *)
THEOREM UnorderedComparisonSound == Spec => []UnorderedSound
<1>1. ComparatorInv => UnorderedSound
  BY DEF ComparatorInv
<1> QED
  BY ComparatorInvariant, <1>1, PTL
-----------------------------------------------------------------------------
(* The choice of the unordered loop.                                       *)

(* When every span that matches the i-th expected one went to an expected  *)
(* span before it, and expected spans that share a match share all, more   *)
(* expected spans want these spans than there are.                         *)
LEMMA TakenAll ==
  ASSUME NEW n \in Nat, NEW list, Len(list) \in Nat, n = Len(expected),
         NEW x \in 1..n, NEW f \in Assignments(x - 1, list),
         \A y \in Matches(x, list) : \E k \in 1..(x - 1) : y = f[k],
         Disjoint(list)
  PROVE  ~ContainsSet(n, list)
<1> DEFINE U == Matches(x, list)
           earlier == {k \in 1..(x - 1) : Matches(k, list) = U}
           wanting == earlier \cup {x}
<1> SUFFICES ASSUME NEW g \in Assignments(n, list), Injective(g, n)
             PROVE  FALSE
  BY DEF ContainsSet
<1>1. /\ \A k \in 1..(x - 1) : f[k] \in 1..Len(list) /\ Equal(list[f[k]], expected[k])
      /\ \A k \in 1..n : g[k] \in 1..Len(list) /\ Equal(list[g[k]], expected[k])
  BY DEF Assignments
<1>2. \A y \in U : \E k \in earlier : y = f[k]
  <2> SUFFICES ASSUME NEW y \in U PROVE \E k \in earlier : y = f[k]
    OBVIOUS
  <2>1. PICK k \in 1..(x - 1) : y = f[k]
    OBVIOUS
  <2>2. y \in Matches(k, list) /\ k \in 1..n
    BY <1>1, <2>1 DEF Matches
  <2>3. Matches(k, list) = U
    BY <2>2 DEF Disjoint
  <2> QED
    BY <2>1, <2>3
<1>3. wanting \subseteq 1..n /\ \A k \in wanting : g[k] \in U
  <2>1. \A k \in wanting : k \in 1..n /\ Matches(k, list) = U
    OBVIOUS
  <2>2. \A k \in 1..n : g[k] \in Matches(k, list)
    BY <1>1 DEF Matches
  <2> QED
    BY <2>1, <2>2
<1>4. IsFiniteSet(earlier) /\ IsFiniteSet(wanting)
      /\ Cardinality(wanting) = Cardinality(earlier) + 1
  <2>1. IsFiniteSet(1..n)
    BY IntervalSize
  <2>2. IsFiniteSet(wanting) /\ IsFiniteSet(earlier)
    <3>1. earlier \subseteq wanting
      OBVIOUS
    <3> HIDE DEF earlier, wanting
    <3> QED
      BY <1>3, <2>1, <3>1, FS_Subset
  <2>3. x \notin earlier
    OBVIOUS
  <2> HIDE DEF earlier
  <2> QED
    BY <2>2, <2>3, FS_AddElement
<1> HIDE DEF earlier, wanting, U
<1>5. IsFiniteSet(U) /\ Cardinality(U) <= Cardinality(earlier)
  <2> DEFINE image == {f[k] : k \in earlier}
  <2>1. IsFiniteSet(image) /\ Cardinality(image) <= Cardinality(earlier)
    <3> DEFINE h == [k \in earlier |-> f[k]]
    <3>1. h \in Surjection(earlier, image)
      BY DEF Surjection
    <3> HIDE DEF h, image
    <3> QED
      BY <1>4, <3>1, FS_Surjection
  <2>2. U \subseteq image
    BY <1>2
  <2> HIDE DEF image
  <2>3. IsFiniteSet(U) /\ Cardinality(U) <= Cardinality(image)
    BY <2>1, <2>2, FS_Subset
  <2>4. Cardinality(U) \in Nat /\ Cardinality(image) \in Nat /\ Cardinality(earlier) \in Nat
    BY <1>4, <2>1, <2>3, FS_CardinalityType
  <2> QED
    BY <2>1, <2>3, <2>4
<1>6. Cardinality(U) < Cardinality(wanting)
  BY <1>4, <1>5, FS_CardinalityType
<1> DEFINE choice == [k \in wanting |-> g[k]]
<1>7. choice \in [wanting -> U]
  BY <1>3
<1>8. PICK k \in wanting, l \in wanting : k # l /\ choice[k] = choice[l]
  <2> HIDE DEF choice
  <2> QED
    BY <1>4, <1>5, <1>6, <1>7, FS_PigeonHole
<1> QED
  BY <1>3, <1>8 DEF Injective

(* The segment is a part of the trace: what is disjoint there is here.     *)
LEMMA DisjointSegment ==
  ASSUME question \in Questions, question.checker # "other",
         Len(expected) > 0, ~WrongLength, Disjoint(actual)
  PROVE  Disjoint(SegmentOf(question.checker))
<1> DEFINE s == SegmentOf(question.checker)
           off == IF question.checker = "endswith" THEN Len(actual) - Len(expected) ELSE 0
<1>1. /\ Len(s) \in Nat /\ off \in Nat
      /\ \A x \in 1..Len(s) : s[x] = actual[off + x] /\ off + x \in 1..Len(actual)
  <2>1. /\ Len(s) \in Nat /\ Len(expected) \in Nat /\ Len(actual) \in Nat
        /\ question.checker \in KnownCheckers
    BY QuestionType, SegmentFacts
  <2>2. CASE question.checker \in {"strict", "contains"}
    BY <2>1, <2>2, SegmentFacts
  <2>3. CASE question.checker = "startswith"
    <3>1. Len(s) = Len(expected) /\ Len(expected) <= Len(actual)
          /\ \A k \in 1..Len(expected) : s[k] = actual[k]
      BY <2>3, SegmentFacts
    <3> QED
      BY <2>1, <2>3, <3>1
  <2>4. CASE question.checker = "endswith"
    <3>1. Len(s) = Len(expected) /\ Len(expected) <= Len(actual)
          /\ \A k \in 1..Len(expected) : s[k] = actual[Len(actual) - Len(expected) + k]
      BY <2>4, SegmentFacts
    <3> QED
      BY <2>1, <2>4, <3>1
  <2> QED
    BY <2>1, <2>2, <2>3, <2>4 DEF KnownCheckers
<1> HIDE DEF s, off
<1>2. \A k : \A x \in 1..Len(s) : x \in Matches(k, s) <=> off + x \in Matches(k, actual)
  BY <1>1 DEF Matches
<1>3. \A k : Matches(k, s) \subseteq 1..Len(s)
  BY DEF Matches
<1>4. ASSUME NEW k \in 1..Len(expected), NEW l \in 1..Len(expected)
      PROVE  Matches(k, s) = Matches(l, s) \/ Matches(k, s) \cap Matches(l, s) = {}
  <2>1. CASE Matches(k, actual) = Matches(l, actual)
    <3>1. \A x \in 1..Len(s) : x \in Matches(k, s) <=> x \in Matches(l, s)
      BY <1>2, <2>1
    <3>2. Matches(k, s) \subseteq 1..Len(s) /\ Matches(l, s) \subseteq 1..Len(s)
      BY <1>3
    <3> QED
      BY <3>1, <3>2
  <2>2. CASE Matches(k, actual) \cap Matches(l, actual) = {}
    <3>1. \A x \in 1..Len(s) : ~(x \in Matches(k, s) /\ x \in Matches(l, s))
      BY <1>2, <2>2
    <3>2. Matches(k, s) \subseteq 1..Len(s)
      BY <1>3
    <3> QED
      BY <3>1, <3>2
  <2> QED
    BY <2>1, <2>2 DEF Disjoint
<1> QED
  BY <1>4 DEF Disjoint, s

\* What a question asks does not change.
Unasked ==
    /\ question' = question /\ expected' = expected /\ actual' = actual
    /\ WrongLength' = WrongLength /\ Disjoint(actual)' = Disjoint(actual)
    /\ SegmentOf(question.checker)' = SegmentOf(question.checker)
    /\ ContainsSet(Len(expected), SegmentOf(question.checker))'
          = ContainsSet(Len(expected), SegmentOf(question.checker))

LEMMA SameQuestion == ASSUME question' = question PROVE Unasked
<1>1. expected' = expected /\ actual' = actual
  BY DEF expected, actual
<1>2. Disjoint(actual)' = Disjoint(actual)
  BY <1>1 DEF Disjoint, Matches
<1>3. WrongLength' = WrongLength
      /\ SegmentOf(question.checker)' = SegmentOf(question.checker)
  BY <1>1 DEF WrongLength, SegmentOf
<1>4. ContainsSet(Len(expected), SegmentOf(question.checker))'
        = ContainsSet(Len(expected), SegmentOf(question.checker))
  BY <1>1, <1>3 DEF ContainsSet, Assignments
<1> QED
  BY <1>1, <1>2, <1>3, <1>4 DEF Unasked
(* Comparisons that are decided by the lengths, and ordered ones.           *)
LEMMA OtherAnswers ==
  ASSUME ComparatorInv, UnorderedCompleteIfDisjoint,
         \/ CompareNil \/ CompareEmpty \/ CompareLengths
         \/ ExactStep \/ SubsequenceStep \/ SubsequenceEnd
         \/ UNCHANGED vars
  PROVE  UnorderedCompleteIfDisjoint'
<1>1. question' = question
  BY DEF CompareNil, CompareEmpty, CompareLengths, ExactStep, SubsequenceStep,
         SubsequenceEnd, vars
<1>2. Unasked
  BY <1>1, SameQuestion
<1>3. CASE CompareNil \/ CompareEmpty \/ CompareLengths
  <2>1. question.checker = "other" \/ WrongLength \/ equal'
    BY <1>3 DEF CompareNil, CompareEmpty, CompareLengths, Answer
  <2> QED
    BY <1>2, <2>1 DEF UnorderedCompleteIfDisjoint, Unasked
<1>4. CASE ExactStep \/ SubsequenceStep \/ SubsequenceEnd
  <2>1. question.ordered
    BY <1>4 DEF ComparatorInv, LoopInv, ExactStep, SubsequenceStep, SubsequenceEnd
  <2> QED
    BY <1>2, <2>1 DEF UnorderedCompleteIfDisjoint, Unasked
<1>5. CASE UNCHANGED vars
  BY <1>2, <1>5 DEF UnorderedCompleteIfDisjoint, Unasked, vars
<1> QED
  BY <1>3, <1>4, <1>5

(* The unordered loop gives up only when no choice is left.                 *)
LEMMA GreedyMiss ==
  ASSUME ComparatorInv, GreedyInv, SubsetMiss PROVE UnorderedCompleteIfDisjoint'
<1> DEFINE n == Len(expected)
           m == Len(segment)
<1>1. /\ question \in Questions /\ TypeOK /\ pc = "subset" /\ j > m
      /\ question.checker # "other" /\ n > 0 /\ ~WrongLength
      /\ segment = SegmentOf(question.checker) /\ i \in 1..n
      /\ j \in 1..(m + 1)
      /\ \A k \in 1..(j - 1) : k \in used \/ ~Equal(segment[k], expected[i])
      /\ question' = question
  BY DEF ComparatorInv, TypeOK, LoopInv, GreedyInv, SubsetMiss
<1>2. PICK f \in Assignments(i - 1, segment) : used \subseteq {f[k] : k \in 1..(i - 1)}
  BY <1>1 DEF GreedyInv
<1>3. m \in Nat /\ n \in Nat
  BY <1>1, SegmentFacts, QuestionType
<1>4. ASSUME Disjoint(actual) PROVE ~ContainsSet(n, segment)
  <2>1. Disjoint(segment)
    BY <1>1, <1>4, DisjointSegment
  <2>2. ASSUME NEW y \in Matches(i, segment) PROVE \E k \in 1..(i - 1) : y = f[k]
    <3>1. y \in 1..m /\ Equal(segment[y], expected[i])
      BY DEF Matches
    <3>2. y \in 1..(j - 1)
      BY <1>1, <1>3, <3>1
    <3>3. y \in used
      BY <1>1, <3>1, <3>2
    <3> QED
      BY <1>2, <3>3
  <2> QED
    BY <1>1, <1>2, <1>3, <2>1, <2>2, TakenAll
<1>5. Unasked
  BY <1>1, SameQuestion
<1> QED
  BY <1>1, <1>4, <1>5 DEF UnorderedCompleteIfDisjoint, Unasked

(* A step of the unordered loop.                                            *)
LEMMA GreedyLoop ==
  ASSUME ComparatorInv, GreedyInv, SubsetPass \/ SubsetTake
  PROVE  GreedyInv'
<1> DEFINE n == Len(expected)
           m == Len(segment)
<1>1. /\ question \in Questions /\ pc = "subset" /\ question.checker # "other"
      /\ n > 0 /\ ~WrongLength /\ segment = SegmentOf(question.checker)
      /\ i \in 1..n /\ j <= m /\ j \in 1..(m + 1)
      /\ \A k \in 1..(j - 1) : k \in used \/ ~Equal(segment[k], expected[i])
      /\ question' = question /\ segment' = segment
  BY DEF ComparatorInv, TypeOK, LoopInv, GreedyInv, SubsetPass, SubsetTake
<1>2. PICK f \in Assignments(i - 1, segment) : used \subseteq {f[k] : k \in 1..(i - 1)}
  BY <1>1 DEF GreedyInv
<1>3. m \in Nat /\ n \in Nat
  BY <1>1, SegmentFacts, QuestionType
<1>4. expected' = expected
  BY <1>1 DEF expected
<1>5. \A a : Assignments(a, segment)' = Assignments(a, segment)
  BY <1>1, <1>4 DEF Assignments
<1>6. CASE SubsetPass
  <2>1. /\ i' = i /\ j' = j + 1 /\ used' = used
        /\ j \in used \/ ~Equal(segment[j], expected[i])
    BY <1>6 DEF SubsetPass
  <2>2. j' \in 1..(m + 1) /\ \A k \in 1..(j' - 1) : k \in 1..(j - 1) \/ k = j
    BY <1>1, <1>3, <2>1
  <2>3. \A k \in 1..(j' - 1) : k \in used \/ ~Equal(segment[k], expected[i])
    BY <1>1, <2>1, <2>2
  <2>4. Assignments(i - 1, segment)' = Assignments(i - 1, segment)
    BY <1>1, <1>4, <2>1 DEF Assignments
  <2> QED
    BY <1>1, <1>2, <1>4, <2>1, <2>2, <2>3, <2>4 DEF GreedyInv
<1>7. CASE SubsetTake
  <2>1. /\ j' = 1 /\ used' = used \cup {j} /\ Equal(segment[j], expected[i])
        /\ pc' = "subset" => i' = i + 1
    BY <1>1, <1>7 DEF SubsetTake, Answer
  <2> SUFFICES ASSUME pc' = "subset" PROVE GreedyInv'
    BY DEF GreedyInv
  <2>2. i \in Nat \ {0} /\ j \in 1..m
    BY <1>1, <1>3
  <2>3. PICK g \in Assignments(i, segment) :
            g[i] = j /\ \A k \in 1..(i - 1) : g[k] = f[k]
    <3>1. f \in Assignments(i - 1, segment) /\ Len(segment) \in Nat
      BY <1>2, <1>3
    <3>2. Equal(segment[j], expected[i])
      BY <2>1
    <3> HIDE <1>1
    <3> QED
      BY <2>2, <3>1, <3>2, ExtendAssignment
  <2>4. used' \subseteq {g[k] : k \in 1..i}
    <3>1. \A k \in 1..(i - 1) : k \in 1..i /\ g[k] = f[k]
      BY <2>2, <2>3
    <3>2. i \in 1..i
      BY <2>2
    <3> QED
      BY <1>2, <2>1, <2>3, <3>1, <3>2
  <2>5. i' - 1 = i /\ 1 \in 1..(m + 1) /\ 1..(1 - 1) = {}
    BY <1>3, <2>1, <2>2
  <2>6. Assignments(i - 1, segment)' = Assignments(i, segment)
    BY <1>1, <1>4, <2>5 DEF Assignments
  <2> QED
    BY <1>1, <2>1, <2>3, <2>4, <2>5, <2>6 DEF GreedyInv
<1> QED
  BY <1>6, <1>7

(* The unordered loop starts with nothing used and nothing passed over.     *)
LEMMA GreedyStart ==
  ASSUME ComparatorInv, Dispatch PROVE GreedyInv'
<1>1. /\ i' = 1 /\ j' = 1 /\ used' = {} /\ segment' = SegmentOf(question.checker)
      /\ question \in Questions /\ question.checker # "other"
      /\ Len(expected) > 0 /\ ~WrongLength
  BY DEF ComparatorInv, TypeOK, LoopInv, Dispatch
<1>2. Len(segment') \in Nat
  BY <1>1, SegmentFacts
<1>3. 1 \in 1..(Len(segment') + 1) /\ 1..(1 - 1) = {} /\ i' - 1 = 0
  BY <1>1, <1>2
<1> DEFINE f == [k \in 1..0 |-> 1]
<1>4. f \in Assignments(i - 1, segment)'
  BY <1>3 DEF Assignments
<1> QED
  BY <1>1, <1>3, <1>4 DEF GreedyInv

LEMMA GreedyStep ==
  ComparatorInv /\ GreedyInv /\ UnorderedCompleteIfDisjoint /\ [Next]_vars
    => GreedyInv' /\ UnorderedCompleteIfDisjoint'
<1> SUFFICES ASSUME ComparatorInv, GreedyInv, UnorderedCompleteIfDisjoint, [Next]_vars
             PROVE  GreedyInv' /\ UnorderedCompleteIfDisjoint'
  OBVIOUS
<1>1. CASE CompareNil \/ CompareEmpty \/ CompareLengths
           \/ ExactStep \/ SubsequenceStep \/ SubsequenceEnd
  <2>1. pc' # "subset"
    BY <1>1 DEF CompareNil, CompareEmpty, CompareLengths, ExactStep,
                SubsequenceStep, SubsequenceEnd, Answer
  <2> QED
    BY <1>1, <2>1, OtherAnswers DEF GreedyInv
<1>2. CASE Dispatch
  <2>1. pc' # "done"
    BY <1>2 DEF Dispatch, ComparatorInv, TypeOK, QuestionsAssumption
  <2> QED
    BY <1>2, <2>1, GreedyStart DEF UnorderedCompleteIfDisjoint
<1>3. CASE SubsetPass \/ SubsetTake
  <2>1. pc' # "done" \/ equal'
    BY <1>3 DEF SubsetPass, SubsetTake, Answer
  <2> QED
    BY <1>3, <2>1, GreedyLoop DEF UnorderedCompleteIfDisjoint
<1>4. CASE SubsetMiss
  <2>1. pc' # "subset"
    BY <1>4 DEF SubsetMiss, Answer
  <2> QED
    BY <1>4, <2>1, GreedyMiss DEF GreedyInv
<1>5. CASE Done \/ UNCHANGED vars
  <2>1. UNCHANGED vars
    BY <1>5 DEF Done
  <2>2. GreedyInv'
    BY <2>1 DEF GreedyInv, vars, Assignments, expected
  <2> QED
    BY <2>1, <2>2, OtherAnswers
<1> QED
  BY <1>1, <1>2, <1>3, <1>4, <1>5 DEF Next

(* An unordered comparison of expected spans that do not overlap says no    *)
(* only when there is no span for each of them: taking the first free match *)
(* loses nothing then, for traces of any length.                            *)
THEOREM UnorderedComparisonComplete == Spec => []UnorderedCompleteIfDisjoint
<1>1. Init => GreedyInv /\ UnorderedCompleteIfDisjoint
  BY DEF Init, GreedyInv, UnorderedCompleteIfDisjoint
<1> QED
  BY <1>1, ComparatorInvariant, GreedyStep, PTL DEF Spec
=============================================================================
