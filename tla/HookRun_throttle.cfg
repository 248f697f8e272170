SPECIFICATION Spec
CONSTANTS
  s1 = s1  s2 = s2
  k1 = k1  k2 = k2
  main = main  tag = tag
  None = None
  Kind = "git"
  Reverts = TRUE
  Sessions = {s1}
  Installs = {k1, k2}
  Serves <- Alternating
  Refs = {main, tag}
  RefOf <- TwoRefs
  MaxMoves = 2
  MaxManifests = 1
  MaxFailures = 2
  MaxOutages = 0
INVARIANTS
  Throttled
  OwnRefOnly
