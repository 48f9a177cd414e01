\* Fewer attempts than blocks, writes.
SPECIFICATION Spec
CONSTANTS
    Fanout = 2
    num_BTH = 2
    L0Size = 2
    capacity = 3
    TLB_size = 1
    MNA = 1
    RMax = 2
    PTSize = 4
    Stores = {TRUE}
PROPERTY DirtyWrittenBack
CHECK_DEADLOCK FALSE
