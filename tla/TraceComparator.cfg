CONSTANTS
    Nil = Nil
    ExpectedSpans <- MCExpectedSpans
    ActualSpans <- MCActualSpans
    Equal <- MCEqual
    Questions <- MCQuestions
SPECIFICATION Spec
INVARIANTS
    ComparatorInv
    OrderedCorrect
    UnorderedSound
    UnorderedCompleteIfDisjoint
