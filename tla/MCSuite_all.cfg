SPECIFICATION Spec
CONSTANTS
  Modes <- MCModes
  Pythons = {2}
INVARIANT WithinBuffers
PROPERTIES SuiteEnds TablesKept
CHECK_DEADLOCK FALSE
