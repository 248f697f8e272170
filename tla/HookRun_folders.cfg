SPECIFICATION FairSpec
CONSTANTS
  s1 = s1  s2 = s2
  k1 = k1  k2 = k2
  main = main  tag = tag
  None = None
  Kind = "dir"
  Reverts = FALSE
  Sessions = {s1, s2}
  Installs = {k1, k2}
  Serves <- Separate
  Refs = {main, tag}
  RefOf <- TwoRefs
  MaxMoves = 1
  MaxManifests = 0
  MaxFailures = 1
  MaxOutages = 1
INVARIANT
  NothingToDo
PROPERTY
  Converges
