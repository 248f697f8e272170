SPECIFICATION FairSpec
CONSTANTS
  f1 = f1  f2 = f2
  None = None
  Latest = latest
  Clients = {c1, c2}
  Principals <- MCPrincipals
  Skills <- MCSkills
  Versions = {1, 2}
  Stable = {1}
  Files = {f1, f2}
  Requests <- MCRequests
  Rules <- AdminRules
  MaxRequests = 3
  MaxFaults = 1
INVARIANTS
  TypeOK
  RepliesAreTrue
  AnsweredAfterRecord
PROPERTIES
  ImplementsCatalog
  EveryRequestEnds
\* MaxRequests is a bound of the model: after it the server idles.
CHECK_DEADLOCK FALSE
