SPECIFICATION Spec
CONSTANTS
  Processes = {p1}
  None = None
INVARIANT ServesWholeSchemaAlways
CHECK_DEADLOCK FALSE
