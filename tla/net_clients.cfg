SPECIFICATION LoadSpec
CONSTANTS
    Conn = {c1, c2, c3}
    Pipeliner = c1
    Fd = {1, 2}
    Caster = {k1}
    Kind = {"good", "malformed", "huge"}
    MaxReq = 2
    MaxEvent = 1
    MaxAppFile = 1
    MayFill = {}
    MayStop = TRUE
    Observed = {c1}
INVARIANTS NoSocketLeak DirectOutput ResponsesInOrder
PROPERTY RequestsAnswered
CHECK_DEADLOCK FALSE
