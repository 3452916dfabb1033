SPECIFICATION Spec
CONSTANTS
  MaxListeners = 3
  Ephemerals = {e1, e2}
  Coroutines = {s1, t1}
  Scripts = {s1}
SYMMETRY Symmetry
INVARIANTS TypeOK ActiveTable FireServesEachOnce ScheduledAnchored WaitersExact
