CONSTANTS
  r1 = r1
  r2 = r2
  Rev = {r1, r2}
  None = None
  Empty = Empty
SPECIFICATION Spec
INVARIANTS
  PackageTypeOK
  VerifiedIsWhole
  ScriptBuildsMatch
