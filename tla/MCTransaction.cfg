CONSTANTS
  a1 = a1
  a2 = a2
  a3 = a3
  a4 = a4
  Action <- MCAction
  HasDo <- MCHasDo
  HasUndo <- MCHasUndo
SPECIFICATION TxnFairSpec
INVARIANTS
  TxnTypeOK
  RollbackComplete
  CommitComplete
  NewestFirst
  TxnInv
PROPERTIES
  UndoAfterDoOnly
  RunEnds
  IsSaga
