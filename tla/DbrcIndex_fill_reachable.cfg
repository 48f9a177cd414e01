\* More attempts than blocks, a parent field wide enough.
SPECIFICATION Spec
CONSTANTS
    Fanout = 2
    num_BTH = 2
    L0Size = 2
    capacity = 4
    TLB_size = 1
    MNA = 5
    RMax = 2
    PTSize = 5
    Stores = {FALSE}
PROPERTY FillReachable
CHECK_DEADLOCK FALSE
