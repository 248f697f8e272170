SPECIFICATION Spec
CONSTANTS
  f1 = f1  f2 = f2
  None = None
  Latest = latest
  Clients = {c1, c2}
  Principals <- MCPrincipals
  Skills <- MCSkills
  Versions = {1, 2}
  Stable = {1}
  Files = {f1, f2}
  Requests <- MCRequests
  Rules <- MCRules
  MaxRequests = 3
  MaxFaults = 0
INVARIANT
  LatestIsPublished
CHECK_DEADLOCK FALSE
