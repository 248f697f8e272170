SPECIFICATION FairSpec
CONSTANTS
  Versions = {1, 2, 3}
  Stable = {1, 2}
  Digest <- Repacked
  Hash <- MCHash
  Resources <- MCResources
  Clients <- MCClients
INVARIANT
  CopiesAreCurrent
\* The client is done when it gives up or nothing is left to publish.
CHECK_DEADLOCK FALSE
