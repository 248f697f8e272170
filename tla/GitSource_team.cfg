SPECIFICATION Spec
CONSTANTS
  Branches = {1, 2}
  Tags = {3}
  Commits = {1, 2, 3}
  Tails <- TeamMain
  Refs <- MainRef
  MaxMoves = 4
INVARIANT
  SameFingerprintSameCheckout
