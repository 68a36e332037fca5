CONSTANTS
  lower = lower
  upper = upper
  other = other
  e1 = e1
  e2 = e2
  p1 = p1
  p2 = p2
  Names <- AllNames
  Euis <- MCEuis
  EuiOf <- AllEuiOf
  BitsOf <- MCBitsOf
  Psks <- MCPsks
  NoPsk = NoPsk
  Bad = Bad
  Bodies <- DistinctBodies
  MaxLength = 3
  MaxRestarts = 1
SPECIFICATION Spec
INVARIANTS Aligned SteeringExact ToldUnlessMissed LookupFollows
PROPERTY ImplementsMap
