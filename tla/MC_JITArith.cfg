CONSTANTS
    NoResult = NoResult
    W <- MCW
    DoubleVals <- MCDoubleVals
SPECIFICATION Spec
INVARIANT TypeOK
INVARIANT FastPathCorrect
INVARIANT ProfileMarksSpecialCases
INVARIANT JumpCorrect
CHECK_DEADLOCK FALSE
INVARIANT SlowCasesPaired
