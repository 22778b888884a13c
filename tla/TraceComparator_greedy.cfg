CONSTANTS
    Nil = Nil
    ExpectedSpans <- MCExpectedSpans
    ActualSpans <- MCActualSpans
    Equal <- MCEqual
    Questions <- MCQuestions
SPECIFICATION Spec
INVARIANT UnorderedComplete
