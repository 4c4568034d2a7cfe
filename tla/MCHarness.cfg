SPECIFICATION Spec
CONSTANTS
  None = None
  Targets = {f1, f2, k1}
  Registry = {k1}
  Optional = {f2, k1}
  Merged = {f2}
  Only = f1
  MaxFaults = 2
  MaxTrouble = 2
  Minima <- MCMinima
CHECK_DEADLOCK FALSE
INVARIANTS PassedIsGenuine HonestEnginePasses
