SPECIFICATION Spec
CONSTANTS
    MaxSize = 4
    Lengths = {1, 2, 4, 5, 9}
    MaxLines = 3
INVARIANT OversizeSurvives
CHECK_DEADLOCK FALSE
