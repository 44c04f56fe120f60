SPECIFICATION Spec
CONSTANTS
    Byte = 2
    PointerWidth = 4
    Programs <- MCPrograms
    Fuel = 40
    Rounds = 20
INVARIANTS Behaves AllValid ReachesFixpoint SliceKeepsGoals
