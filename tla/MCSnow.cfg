SPECIFICATION ContentionSpec
CONSTANTS
  Groups = 2
  Border = 6
INVARIANT SnowSparesContendedCode
CHECK_DEADLOCK FALSE
