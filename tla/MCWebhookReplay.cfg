SPECIFICATION NonceSpec
CONSTANTS
  n1 = n1
  n2 = n2
  n3 = n3
  Nonces <- MCNonces
  Capacity = 2
  Skew = 1
  MaxTime = 2
  MaxLog = 5
SYMMETRY Symmetry
INVARIANTS
  ReplayDistance
