SPECIFICATION Spec
CONSTANTS
  alpha = alpha  beta = beta
  c1 = c1  c2 = c2  c3 = c3  bad = bad
  p1 = p1  p2 = p2  p3 = p3
  gw = gw  tag = tag  dir = dir
  None = None  Empty = Empty  Torn = Torn
  Syncs = {s1}
  Sources <- FaultySources
  Fixed = {tag}
  Pinnable = {gw, tag}
  Refs <- MCRefs
  Versions = {1, 2}
  Contents <- MCContents
  Bundles <- FaultyBundles
  FirstOffers <- FaultyOffers
  Paths = {p1, p2}
  Unsafe = {}
  Out <- MCOut
  Data <- MCContents
  Edits = {mine}
  Manifests <- FaultyManifests
  ForceOptions = {FALSE, TRUE}
  Fetchable = {}
  Sealable = {p1, p2}
  RacingEdits = TRUE
  MaxMoves = 2
  MaxEdits = 1
  MaxFaults = 1
INVARIANTS
  PlanIsComplete
  WrittenWhole
PROPERTIES
  RecordedEditsSurvive
  ImplementsProject
  PinsHold
