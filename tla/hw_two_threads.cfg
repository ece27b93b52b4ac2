SPECIFICATION Spec
CONSTANTS
    Thread = {t1, t2}
    CodeLen = 3
    Insn <- Loop
    Callback = {f}
    Config <- OneShared
    Redirect = {}
    MaxHwSlots = 3
    BootCap <- Cap11
    DefaultCap <- Cap31
    HwSlots <- Cap31
    MaxId = 1
    Detachable = {}
    Hidden = {}
    Late = {}
    MayExit = {}
INVARIANT ClaimedTraps
