SPECIFICATION SettingsSpec
CONSTANTS
  new = new  old = old  lint = lint
  plain = plain  custom = custom
  Missing = Missing  Invalid = Invalid  Null = Null  Odd = Odd
  Ours = {new, old}
  Theirs = {lint}
  Rests <- MCRests
  UserDocs <- Known
  RacingEdits = TRUE
  MaxEdits = 2
  MaxRuns = 3
  MaxFaults = 1
INVARIANT
  SettingsTypeOK
PROPERTIES
  UserPartSurvives
  InstalledOnce
\* The number of commands is a bound of the model.
CHECK_DEADLOCK FALSE
