SPECIFICATION Spec
CONSTANTS
  Workspace = Workspace
  RunService = RunService
  Lighting = Lighting
  Extras = {e1}
  other = other
  Nil = Nil
INVARIANTS TypeOK GetServiceStable RegisteredUnderGame
PROPERTY UnrefWhileOpen
CHECK_DEADLOCK FALSE
