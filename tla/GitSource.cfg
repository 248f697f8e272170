SPECIFICATION Spec
CONSTANTS
  Branches = {1, 2}
  Tags = {3}
  Commits = {1, 2, 3}
  Tails <- Apart
  Refs <- AllRefs
  MaxMoves = 4
INVARIANTS
  FollowsTheRef
  SameFingerprintSameCheckout
  BranchesAreNotPinned
