SPECIFICATION Spec
CONSTANTS
  Skills = {1, 2, 3}
  Keys <- MCKeys
  Versions = {1, 2}
  Stable = {1}
  May <- MCMay
  Matches <- PreReleasesMatch
  Limit = 1
  Modes = {"list"}
  MaxFaults = 0
INVARIANT
  ListsTheLatest
