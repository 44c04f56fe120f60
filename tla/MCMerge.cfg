CONSTANTS
    None = None
    MaxRegionBlocks = 5
    Programs <- MCPrograms
    Inputs <- MCInputs
    Cells <- MCCells
    MaxVisits = 3
    Undecidable <- MCUndecidable
    MaxRun = 60
    Loops <- MCLoops
SPECIFICATION Spec
CHECK_DEADLOCK FALSE
INVARIANTS EndsAsRun OneStateEach LoopsStayMerged AddressesStayKnown
