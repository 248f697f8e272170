SPECIFICATION Spec
CONSTANTS
  alpha = alpha  beta = beta
  c1 = c1  c2 = c2  c3 = c3  bad = bad
  p1 = p1  p2 = p2  p3 = p3
  gw = gw  tag = tag  dir = dir
  None = None  Empty = Empty  Torn = Torn
  Syncs = {s1, s2}
  Sources = {gw}
  Fixed = {}
  Pinnable = {gw}
  Refs <- MCRefs
  Versions = {1, 2}
  Contents <- MCContents
  Bundles <- PairBundles
  FirstOffers <- PairOffers
  Paths = {p1, p2, p3}
  Unsafe = {p3}
  Out <- MCOut
  Data <- MCContents
  Edits = {mine}
  Manifests <- PairManifests
  ForceOptions = {FALSE}
  Fetchable = {alpha}
  Sealable = {}
  RacingEdits = FALSE
  MaxMoves = 1
  MaxEdits = 0
  MaxFaults = 1
SYMMETRY Interchangeable
INVARIANTS
  VerifiedOnly
  LocksAreCollisionFree
