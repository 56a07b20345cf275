SPECIFICATION Spec
CONSTANTS
  MAX_SESSION_COUNT = 2
  MAX_NUMBER_SUB = 2
  k1 = k1
  k2 = k2
  v1 = v1
  Keys = {k1, k2}
  Values = {v1}
  Missing = Missing
  NoKey = NoKey
  Bucket <- Together
  Batches <- Creation
  Disciplined = TRUE
  Mortal = {}
INVARIANT NeverFull
