SPECIFICATION Spec
CONSTANT Problems <- MCProblems
INVARIANTS
    LoopInvariant
    AnswerRight
    BasisSpansKernel
