SPECIFICATION Spec
CONSTANTS
  Names = {"default", "team #1"}
  CutNames = {"team #1"}
  Keys = {k1, k2}
  NoKey = NoKey
  Models = {"m"}
  Allowances = {{"*"}, {}}
  NoList = NoList
INVARIANTS
  TypeOK
PROPERTIES
  RestartKeepsKeys
