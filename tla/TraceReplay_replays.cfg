\* The three programs, with fewer attempts than blocks.
SPECIFICATION Spec
CONSTANTS
    Fanout = 2
    num_BTH = 2
    L0Size = 2
    capacity = 4
    TLB_size = 1
    MNA = 2
    RMax = 2
    Scripts = {"test.cpp", "test.py", "test_base.py"}
INVARIANTS
    TypeOK
    ColdSound
    PySound
CHECK_DEADLOCK FALSE
