SPECIFICATION Spec
CONSTANTS
    Conn = {c1}
    Fd = {1}
    Caster = {k1}
    Kind = {"good"}
    MaxReq = 1
    MaxEvent = 1
    MaxAppFile = 0
    MayFill = {}
    MayStop = FALSE
    Observed = {c1}
INVARIANT FramesIntact
CHECK_DEADLOCK FALSE
