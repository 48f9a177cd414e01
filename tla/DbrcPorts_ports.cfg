\* Two peers, packets that need a response, a memory side that may refuse a
\* request at first but takes every writeback.
SPECIFICATION Spec
CONSTANTS
    NPorts = 2
    Kinds = {"part", "line"}
    Writebacks = 2
    Refusable = {"request"}
INVARIANTS
    NoPanic
    RequestInOnePlace
    ResponseToSender
    NoLostRetry
PROPERTIES
    ServesOneByOne
    RequestAnswered
    RetryComes
