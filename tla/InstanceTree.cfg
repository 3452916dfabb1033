SPECIFICATION Spec
CONSTANTS
  workspace = workspace
  Parts = {p1, p2}
  Cameras = {c1, c2}
  Others = {}
  Names = {a, b}
  Nil = Nil
SYMMETRY Symmetry
INVARIANTS TypeOK ChildrenMatchParents CachesExact DescendantsAgree IndexSound RecursiveFindExact
PROPERTY ClonesIndexed
CHECK_DEADLOCK FALSE
