SPECIFICATION IrqSpec
CONSTANTS
  Ring = {k1, k2}
  Pin = {1}
  Level = {1}
  Careless = {k2}
  Msi = {2}
  Slots = 2
  Roots <- RootTypes
  Request <- Requests
  MaxDepth = 2
  GrantMax = 4
  GenMod = 8
  AddrMod = 8
  RaiseMax <- Raises
  CmdMax = 3
  Nil = Nil
INVARIANTS RightsOnlyShrink IrqNotStranded FreedRingQuiet
PROPERTIES RevokedStaysRevoked LineServed
CHECK_DEADLOCK FALSE
