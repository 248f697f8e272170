SPECIFICATION Spec
CONSTANTS
  Last = 4
  Skills = {"alpha", "beta"}
  Skill <- MCSkill
  Manifests = {2, 4}
  Skipped = {3}
  Hidden = {1}
  Contents = {1, 2, 3}
  Bad = {3}
  MaxWrites = 3
  MaxFaults = 1
INVARIANT
  NothingToDo
