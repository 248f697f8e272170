SPECIFICATION FairSpec
CONSTANTS
  Versions = {1, 2, 3}
  Stable = {1, 2}
  Digest <- Distinct
  Hash <- MCHash
  Resources <- MCResources
  Clients <- MCClients
INVARIANTS
  TypeOK
  CopiesAreCurrent
PROPERTY
  ClientsAreServed
\* The client is done when it gives up or nothing is left to publish.
CHECK_DEADLOCK FALSE
