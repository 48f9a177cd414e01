\* Fewer attempts than blocks, a parent field one value short: any turn after the
\* first fill may go astray.
SPECIFICATION HistorySpec
CONSTANTS
    Fanout = 2
    num_BTH = 2
    L0Size = 2
    capacity = 4
    TLB_size = 1
    MNA = 3
    RMax = 2
    PTSize = 3
    Stores = {FALSE}
INVARIANTS
    TypeOK
    TLBInStep
    MissStaysMiss
    ColdSound
    PointersKept
    TLBKept
    WalksKept
CHECK_DEADLOCK FALSE
