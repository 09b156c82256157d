SPECIFICATION Spec
CONSTANTS
  Modes <- MCModes
  Pythons = {3}
PROPERTIES SuiteEnds
CHECK_DEADLOCK FALSE
