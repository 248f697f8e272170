SPECIFICATION Spec
CONSTANTS
  s1 = s1  s2 = s2
  k1 = k1  k2 = k2
  main = main  tag = tag
  None = None
  Kind = "dir"
  Reverts = FALSE
  Sessions = {s1}
  Installs = {k1}
  Serves <- Single
  Refs = {main}
  RefOf <- OneRef
  MaxMoves = 0
  MaxManifests = 1
  MaxFailures = 0
  MaxOutages = 0
INVARIANT
  NothingToDo
