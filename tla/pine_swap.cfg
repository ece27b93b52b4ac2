SPECIFICATION Spec
CONSTANTS
    Thread = {t1, t2}
    MaxHooks = 1
    MaxDepth = 2
    CrowdHooks = 1
    Recursive = {}
    Inlinable = {{}}
    Fails = FALSE
INVARIANT HookKept
