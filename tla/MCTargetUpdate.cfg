CONSTANTS
  tgt = tgt
  rpc = rpc
  etc = etc
  u1 = u1
  u2 = u2
  Updater = {u1}
  MappingSeq <- MCMappingSeq
  Under <- MCUnder
  Dir = {"mimo"}
  Linked = {rpc}
  File <- MCFile
  TgtFile = tgt
  RpcFile = rpc
  Absent = Absent
  Cut = Cut
  Installed = v1
  Release = v2
  Config = {c1, c2}
  None = None
  MaxRuns = 2
  MaxLaunch = 2
SPECIFICATION FairSpec
INVARIANTS
  TgtTypeOK
  
  
PROPERTIES
  
  TargetUpdateEnds
CHECK_DEADLOCK FALSE
