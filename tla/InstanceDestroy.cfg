SPECIFICATION Spec
CONSTANTS
  workspace = workspace
  Parts = {p1, p2}
  Cameras = {c1}
  Others = {}
  Names = {a}
  Nil = Nil
SYMMETRY Symmetry
INVARIANT DestroyReachesAll
CHECK_DEADLOCK FALSE
