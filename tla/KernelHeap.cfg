SPECIFICATION HeapSpec
CONSTANTS
    MAX_ORDER = 3
    StartPfn = 3
    EndPfn = 9
    Desc = {0, 1}
    BlockPerArena <- MCBlockPerArena
    Sizes = {1, 2}
    LargeSizes = {3}
    MaxArenas = 2
    NoDesc = NoDesc
INVARIANTS
    PagesPartitioned
    NoFalseExhaustion
    HeapAgrees
CHECK_DEADLOCK FALSE
