SPECIFICATION PublishSpec
CONSTANTS
  md = md  other = other  empty = empty  one = one  two = two  big = big
  NoToken = NoToken  NotAString = NotAString  NoDigest = NoDigest
  Rules <- MCRules
  Policies <- MCPolicies
  Queries <- MCQueries
  NoRule = ""
  Contents <- MCContents
  Size <- MCSize
  Document <- MCDocument
  SkillNames = {"pci", "ui"}
  Forbidden = {"c:"}
  Hidden = {".x"}
  Limits <- MCLimits
  EntrySize = 1
  Allowance = 3
  MaxDescription = 2
  Cases <- MCCases
  Trimmed <- MCTrimmed
  NoOne <- Stranger
  MaxBody = 2
  MaxFaults = 1
INVARIANTS
  DecisionIsPermission
  NamedRuleDecided
  CreatedExactlyIfAdmissible
  FetchedIsPublished
  PublishedIsUsable
  SourcesAgree
\* The request is over when it is answered.
CHECK_DEADLOCK FALSE
