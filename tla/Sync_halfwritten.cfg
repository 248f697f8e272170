SPECIFICATION Spec
CONSTANTS
  alpha = alpha  beta = beta
  c1 = c1  c2 = c2  c3 = c3  bad = bad
  p1 = p1  p2 = p2  p3 = p3
  gw = gw  tag = tag  dir = dir
  None = None  Empty = Empty  Torn = Torn
  Syncs = {s1}
  Sources = {dir}
  Fixed = {}
  Pinnable = {}
  Refs <- MCRefs
  Versions = {1, 2}
  Contents <- MCContents
  Bundles <- FolderBundles
  FirstOffers <- FolderOffers
  Paths = {p1, p2}
  Unsafe = {}
  Out <- MCOut
  Data <- MCContents
  Edits = {mine}
  Manifests <- OneFolderManifest
  ForceOptions = {FALSE}
  Fetchable = {}
  Sealable = {}
  RacingEdits = FALSE
  MaxMoves = 3
  MaxEdits = 0
  MaxFaults = 1
INVARIANT
  SkillsAreWhole
