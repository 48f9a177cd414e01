\* Two paths of two levels, three slots and two attempts: a table may be evicted
\* while the block of data under it is dirty, and a block that the search reaches.
SPECIFICATION ContentsSpec
CONSTANTS
    Fanout = 1
    num_BTH = 2
    L0Size = 2
    capacity = 3
    TLB_size = 0
    MNA = 2
    RMax = 1
    PTSize = 3
    Stores = {TRUE, FALSE}
    Values = {0, 1}
INVARIANTS
    ReadsLatest
    CleanMatchesMemory
CHECK_DEADLOCK FALSE
