CONSTANTS
  tgt = tgt
  rpc = rpc
  etc = etc
  u1 = u1
  u2 = u2
  Updater <- MCUpdater
  MappingSeq <- MCDirSeq
  Under <- MCDirUnder
  Dir = {"mimo"}
  Linked = {}
  File <- MCDirFile
  TgtFile = tgt
  RpcFile = rpc
  Absent = Absent
  Cut = Cut
  Installed = v1
  Release = v2
  Config = {c1}
  None = None
  MaxRuns = 3
  MaxLaunch = 2
SPECIFICATION Spec
INVARIANTS
  
  RestartRunsRelease
  StoppedOnce
PROPERTY ReplacedOnlyWhenStopped
SYMMETRY MCSymmetry
CHECK_DEADLOCK FALSE
