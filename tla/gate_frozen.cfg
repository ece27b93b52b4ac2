SPECIFICATION SessionSpec
CONSTANTS
  Thr = {main, js, app}
  Main = main
  Js = js
  Resumer = {"rearm", "js"}
  InitPc = initpc
  NoPc = nopc
  Options <- BrokenCfg
  MaxRearm = 2
  FallBackAt = 1
  MaxHits = 1
  MaxCmds = 1
  MaxQueue = 1
CHECK_DEADLOCK FALSE
PROPERTIES NeverFrozen
