SPECIFICATION ToolsSpec
CONSTANTS
  JavaThr = {t1}
  Repl = repl
  NoThr = none
  Obj = {o1, o2}
  HeapAddr = {a1, a2, a3}
  NoObj = nobj
  MaxTable = 2
  MaxNest = 2
  RingCap = 1
  Slot = {id, call}
  MaxCalls = 5
  MaxCallDepth = 3
  MaxSessions = 2
  NBytes = 2
  MaxPatches = 3
  Reg = {a, b}
  Param = {a}
  NRef = 3
  MaxInsns = 2
  MaxDepth = 1
  SafeHandoff = TRUE
  Sessions = {"pre", "both"}
  MaxStack = 2
  MaxStale = 1
  ClassName = {ca}
  Meth = {m1, m2}
  AppThr = {u1}
  Evaluator = ev
  Nobody = nobody
  MaxThunks = 3
  MaxRegs = 2
  MaxNative = 2
SYMMETRY Symmetry
CHECK_DEADLOCK FALSE
INVARIANTS ToolsTypeOK QuietHandles RefsAccounted RealKept PairedWhenClean OwnPatch OwnedRefs ExitsUndone OwnImpl NativesBound
PROPERTIES Reversible
