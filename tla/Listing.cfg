SPECIFICATION FairSpec
CONSTANTS
  Skills = {1, 2, 3}
  Keys <- MCKeys
  Versions = {1, 2}
  Stable = {1}
  May <- MCMay
  Matches <- NamesMatch
  Limit = 1
  Modes = {"list", "gateway", "mcp"}
  MaxFaults = 1
INVARIANTS
  ListsTheLatest
  ListingIsFaithful
  OnlyVanishedSkillsFail
PROPERTY
  ReadingEnds
