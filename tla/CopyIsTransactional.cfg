CONSTANTS
  v1 = v1
  v2 = v2
  boot = boot
  tgt = tgt
  old = old
  Version = {v1, v2}
  Body = {b1}
  Absent = Absent
  Cut = Cut
  Vendored = Vendored
  Genuine = {v2}
  Manifest <- MCManifest
  Linked <- MCLinked
  Outside <- MCOutside
  Dir = {"mimo"}
  MappingSeq <- MCMappingSeq
  Under <- MCUnder
  Unit <- MCUnit
  File <- MCFile
  Script = {s1}
  RootSet = FALSE
  MaxRuns = 1
SPECIFICATION Spec
INVARIANT CopyIsTransactional
CHECK_DEADLOCK FALSE
