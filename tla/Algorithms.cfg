SPECIFICATION Spec
CONSTANTS
    WordBits = 8
    Bodies <- MCBodies
    StepLimit = 23
    LaneCount = 4
    Idioms = {"down", "xor", "up", "broadcast"}
    LaneValues = {0, 1, 3}
INVARIANTS
    ArithmeticExact
    WarpAnswersOrReports
PROPERTY
    InterpreterAnswers
CHECK_DEADLOCK FALSE
