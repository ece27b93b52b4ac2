SPECIFICATION FairSpec
CONSTANTS
    Thread = {t1, t2}
    CodeLen = 4
    Insn <- LoopAccess4
    Callback = {f}
    Config <- BoundConfigs
    Redirect = {}
    MaxHwSlots = 6
    BootCap <- Cap11
    DefaultCap <- Cap61
    HwSlots <- Cap61
    MaxId = 3
    Detachable = {}
    Hidden = {}
    Late = {t2}
    MayExit = {}
INVARIANTS Rearming ClaimedTraps
PROPERTIES NoBreakLoop HooksImplemented RecurringHits
