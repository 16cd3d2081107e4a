SPECIFICATION Spec
CONSTANTS
  Symbols = {index, perpetual, future}
  NoSymbol = none
  Keys = {btc, eth}
  NoKey = nokey
  MaxTargets = 2
SYMMETRY MappingSymmetry
INVARIANTS
  MappingTypeOK
  OrderIndependent
  FatalIffAmbiguous
  InsertsAreNew
CHECK_DEADLOCK FALSE
