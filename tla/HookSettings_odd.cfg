SPECIFICATION SettingsSpec
CONSTANTS
  new = new  old = old  lint = lint
  plain = plain  custom = custom
  Missing = Missing  Invalid = Invalid  Null = Null  Odd = Odd
  Ours = {new, old}
  Theirs = {lint}
  Rests <- MCRests
  UserDocs <- OddToo
  RacingEdits = FALSE
  MaxEdits = 0
  MaxRuns = 1
  MaxFaults = 0
PROPERTY
  UserPartSurvives
\* The number of commands is a bound of the model.
CHECK_DEADLOCK FALSE
