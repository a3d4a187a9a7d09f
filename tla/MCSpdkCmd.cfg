CONSTANTS
  Word <- MCWord
  Line <- MCLine
  ConfigOpt = "-c"
  SpdkTgt = "spdk_tgt"
  Saved = "saved.json"
  MaxLen = 6
SPECIFICATION Spec
INVARIANTS
  CmdTypeOK
  KeepsArguments
  OneConfig
  StableRestart
