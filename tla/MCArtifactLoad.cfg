SPECIFICATION LoadSpec
CONSTANTS
  base = base
  user = user
  Modules = {base, user}
  Inputs <- MCInputs
  Deps <- MCDeps
  Sources <- MCSources
  Other = Other
  None = None
  MaxEdits = 2
  MaxGenerations = 2
  MaxDamage = 1
INVARIANTS DescribesOneMoment SelectedRunsVerified
PROPERTIES AdmittedWhileCurrent
