SPECIFICATION SessionSpec
CONSTANTS
  Thr = {main, js, app}
  Main = main
  Js = js
  Resumer = {"rearm", "js"}
  InitPc = initpc
  NoPc = nopc
  Options <- MCOptions
  MaxRearm = 2
  FallBackAt = 1
  MaxHits = 1
  MaxCmds = 1
  MaxQueue = 1
CHECK_DEADLOCK FALSE
INVARIANTS SessionTypeOK OwnRegisters WakeDue
PROPERTIES GateImplemented EarlyHooks AutoResumed ResumeHeeded
