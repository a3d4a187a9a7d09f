CONSTANTS
  v1 = v1
  v2 = v2
  boot = boot
  tgt = tgt
  old = old
  Version = {v1, v2}
  Body = {b1}
  Absent = Absent
  Cut = Cut
  Vendored = Vendored
  Genuine = {v1, v2}
  Manifest <- MCDirManifest
  Linked <- MCLinked
  Outside <- MCDirOutside
  Dir = {"mimo"}
  MappingSeq <- MCDirSeq
  Under <- MCDirUnder
  Unit = {}
  File <- MCDirFile
  Script = {}
  RootSet = TRUE
  MaxRuns = 2
SPECIFICATION Spec
INVARIANTS
  SuccessIsComplete
  RolledBack
  SysInv
CHECK_DEADLOCK FALSE
