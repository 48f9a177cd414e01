\* The memory side may also refuse a writeback.
SPECIFICATION Spec
CONSTANTS
    NPorts = 1
    Kinds = {"part", "line"}
    Writebacks = 1
    Refusable = {"request", "writeback"}
INVARIANT NoPanic
CHECK_DEADLOCK FALSE
