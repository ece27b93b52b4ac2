SPECIFICATION LoadSpec
CONSTANTS
    a1 = a1
    a2 = a2
    m1 = m1
    m2 = m2
    srv = srv
    App = {a1, a2}
    Server = srv
    NoThread = NoThread
    Method = {m1, m2}
    NoMethod = NoMethod
    MaxLevel = 1
    Meets <- TwoThreads
    CbMeets = {}
    Arms <- TwoMethods
INVARIANT NoStrandedThread
PROPERTY StepsExactly
PROPERTY ScriptRuns
