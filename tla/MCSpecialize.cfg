SPECIFICATION Spec
CONSTANTS
    Byte = 2
    PointerWidth = 4
    Interpreters <- MCInterpreters
    Fuel = 400
    MaxIterations = 10
    MaxKeys = 2
    MaxAttempts = 3
    MaxBlockVisits = 4
INVARIANTS Translates
PROPERTIES AttemptsEnd
