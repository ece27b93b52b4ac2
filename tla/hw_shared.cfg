SPECIFICATION Spec
CONSTANTS
    Thread = {t1, t2}
    CodeLen = 3
    Insn <- Loop
    Callback = {f}
    Config <- SharedConfigs
    Redirect = {}
    MaxHwSlots = 3
    BootCap <- Cap11
    DefaultCap <- Cap31
    HwSlots <- Cap21
    MaxId = 2
    Detachable = {1, 2}
    Hidden = {t2}
    Late = {}
    MayExit = {t2}
INVARIANTS BpSlotsExclusive
PROPERTIES ApiKeepsOthers SlotsAccounted
CHECK_DEADLOCK FALSE
