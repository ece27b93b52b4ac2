SPECIFICATION FairSpec
CONSTANTS
    Thread = {t1, t2}
    MaxHooks = 2
    MaxDepth = 4
    Recursive = {t1}
    CrowdHooks = 1
    Inlinable = {{}, {0, 1}}
    Fails = TRUE
INVARIANT CallbackNotNested
INVARIANT CallAnswered
INVARIANT OriginsOlder
INVARIANT HookExact
PROPERTY CallsReturn
CHECK_DEADLOCK FALSE
