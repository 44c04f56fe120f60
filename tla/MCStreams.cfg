SPECIFICATION Spec
CONSTANTS
    Space = Space
    Line = Line
    Dash = Dash
    One = One
    Letter = Letter
    Nul = Nul
    Eof = Eof
    None = None
    Bytes <- MCBytes
    Whitespace <- MCWhitespace
    Newline = Line
    Signs <- MCSigns
    Minus = Dash
    Digit <- MCDigit
    Small = 1
    Places = {1, 2}
    Cells = 4
    Inputs <- MCInputs
    Calls <- MCCalls
    MaxCalls = 3
INVARIANTS Faithful AnswerReplays
PROPERTY OnePathEach
CHECK_DEADLOCK FALSE
